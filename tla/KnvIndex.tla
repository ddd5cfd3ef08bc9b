------------------------------ MODULE KnvIndex ------------------------------
(***************************************************************************)
(* KnvHt, the hash table in which a KnvNode finds its children by tag and  *)
(* key.  The entries of a slot are chained through the field ht_next of    *)
(* the children themselves, which come from a pool and go back to it: a    *)
(* child that leaves its parent without leaving the table, or that changes *)
(* its tag or key while it is in the table, spoils chains of this parent   *)
(* and of the next one it is given to.                                     *)
(*                                                                         *)
(* Parents stand for the nodes whose table is looked at, Nodes for their   *)
(* children.  Lists are sequences (their links are the business of         *)
(* ObjPool), and of a child only tag, key and parent are kept.  A lookup   *)
(* makes one step per entry of the chain.                                  *)
(***************************************************************************)
EXTENDS Naturals, Sequences, FiniteSets

CONSTANTS
  Nodes,     \* children, objects of the node pool
  Parents,   \* nodes with a table
  NULL,
  Tags,      \* tags of children
  Keys,      \* keys of children, as the sum of their words; 0 is no key
  Levels,    \* sizes of a table: the default one, then ht_levels
  Docs,      \* values of a parent: sequences of [tag, key]
  Start,     \* the first values of the parents, functions from Parents to Docs
  MaxEdits   \* bound on the number of edits

NoKey == 0

ASSUME LevelsAssumption ==
  /\ Levels \in Seq(Nat \ {0}) /\ Len(Levels) > 0
  /\ \A i \in 1 .. Len(Levels) - 1 : Levels[i] < Levels[i+1]
ASSUME ValuesAssumption ==
  /\ Tags \subseteq Nat /\ Keys \subseteq Nat
  /\ Docs \subseteq Seq([tag : Tags, key : Keys \union {NoKey}])
  /\ MaxEdits \in Nat
ASSUME StartAssumption == Start \subseteq [Parents -> Docs]
ASSUME NodesAssumption == NULL \notin Nodes \union Parents /\ IsFiniteSet(Nodes)

VARIABLES
  tag, key,      \* of a child; tag = 0 is !IsValid(), a node in the pool
  parent,        \* the parent pointer of a child, which Detach leaves alone
  ht_next,       \* the chain of the table it is in
  free,          \* the free list of the pool
  val,           \* Parents -> value of the buffer
  expanded,      \* Parents -> child_num >= 0
  childlist,     \* Parents -> children in order; child_num is its length
  child_has_key, \* Parents -> BOOLEAN
  tab,           \* Parents -> KnvHt
  call,          \* the lookup in progress
  edits,         \* number of edits so far
  unindexed,     \* auxiliary: children for which put failed
  rekeyed        \* auxiliary: children that got their key from SetKey

child == <<tag, key, parent, ht_next>>
par   == <<val, expanded, childlist, child_has_key>>
aux   == <<edits, unindexed, rekeyed>>
vars  == <<child, par, tab, free, call, aux>>

\* A table of size s without entries.
Empty(s) == [sz |-> s, nr |-> 0, bm |-> {}, ht |-> [i \in 0 .. s - 1 |-> NULL]]

\* KnvHt::clear
Cleared == Empty(Levels[1])

NoCall == [op |-> "none", p |-> NULL, tag |-> 0, key |-> NoKey, c |-> NULL, pos |-> NULL]

\* Any listing of a set; which one does not matter.
Listing(S) == CHOOSE q \in [1 .. Cardinality(S) -> S] : \A n \in S : \E i \in DOMAIN q : q[i] = n

Init ==
  /\ tag = [n \in Nodes |-> 0] /\ key = [n \in Nodes |-> NoKey]
  /\ parent = [n \in Nodes |-> NULL] /\ ht_next = [n \in Nodes |-> NULL]
  /\ free = Listing(Nodes)
  /\ val \in Start
  /\ expanded = [p \in Parents |-> FALSE]
  /\ childlist = [p \in Parents |-> <<>>]
  /\ child_has_key = [p \in Parents |-> FALSE]
  /\ tab = [p \in Parents |-> Cleared]
  /\ call = NoCall
  /\ edits = 0 /\ unindexed = {} /\ rekeyed = {}

ToSet(q) == {q[i] : i \in DOMAIN q}

Distinct(q) == \A i, j \in DOMAIN q : q[i] = q[j] => i = j

Kids(p) == ToSet(childlist[p])

Attached(n) == \E p \in Parents : n \in Kids(p)

-----------------------------------------------------------------------------
(***************************************************************************)
(* The table.  Operations work on a record x of the table T, the chains    *)
(* next, and the tags and keys of the nodes; ok says whether it worked.    *)
(***************************************************************************)
\* get_keyhash: a sum of tag and words, by a mask.
Hash(t, k, sz) == (t + k) % sz

\* The chain that starts at c: N hops from any entry lead to NULL, unless the
\* chain runs in a circle.
Hops(next, c) ==
  LET hop[i \in 0 .. Cardinality(Nodes)] ==
        IF i = 0 THEN c ELSE LET h == hop[i-1] IN IF h = NULL THEN NULL ELSE next[h]
  IN  hop

Circular(next, c) == Hops(next, c)[Cardinality(Nodes)] # NULL

Chain(next, c) ==
  LET hop == Hops(next, c)
      len == Cardinality({i \in 0 .. Cardinality(Nodes) - 1 : hop[i] # NULL})
  IN  [i \in 1 .. len |-> hop[i-1]]

Slot(T, next, i) == IF i \in T.bm THEN Chain(next, T.ht[i]) ELSE <<>>

\* All entries, slot after slot.
Entries(T, next) ==
  LET upto[i \in 0 .. T.sz] == IF i = 0 THEN <<>> ELSE upto[i-1] \o Slot(T, next, i - 1)
  IN  upto[T.sz]

\* No call of put, get or remove would loop forever.
Straight(T, next) == \A i \in T.bm : ~Circular(next, T.ht[i])

\* n becomes the first entry of slot hi.
PutFirst(x, n, hi) ==
  [x EXCEPT !.ok = TRUE,
            !.next[n] = IF hi \in x.T.bm THEN x.T.ht[hi] ELSE NULL,
            !.T = [x.T EXCEPT !.ht[hi] = n, !.bm = @ \union {hi}, !.nr = @ + 1]]

PutInto(x, n) == PutFirst(x, n, Hash(x.tag[n], x.key[n], x.T.sz))

\* The entries of all, moved one after the other to a new table of size sz, each
\* to the front of its slot.
Moved(x, sz, all) ==
  LET done[i \in 0 .. Len(all)] ==
        IF i = 0 THEN [x EXCEPT !.T = Empty(sz)] ELSE PutInto(done[i-1], all[i])
  IN  done[Len(all)]

Bigger(T) == {i \in DOMAIN Levels : Levels[i] > T.sz}

NextSize(T) == Levels[CHOOSE i \in Bigger(T) : \A j \in Bigger(T) : i <= j]

\* Mutant: ht_next is read after the entry was moved.
IncreaseLate(x) ==
  IF Bigger(x.T) = {} THEN x
  ELSE Moved(x, NextSize(x.T),
             SelectSeq([i \in 1 .. x.T.sz |-> IF i - 1 \in x.T.bm THEN x.T.ht[i-1] ELSE NULL],
                       LAMBDA n : n # NULL))

\* KnvHt::increase: a table of the next size, unless this one is the biggest.
Increase(x) ==
  IF Bigger(x.T) = {} THEN x
  ELSE Moved(x, NextSize(x.T), Entries(x.T, x.next))

\* increase() is called, and needs memory.
Grows(T) == T.nr + 1 > T.sz /\ Bigger(T) # {}

\* KnvHt::put: without the memory it needs, it does nothing and says so.
Put(x, n, nomem) ==
  IF Grows(x.T) /\ nomem THEN [x EXCEPT !.ok = FALSE]
  ELSE PutInto(IF x.T.nr + 1 > x.T.sz THEN Increase(x) ELSE x, n)

\* The i-th entry of q, the slot hi, is taken out of it.
Unlinked(x, hi, q, i) ==
  IF i = 1 THEN [x EXCEPT !.T = [x.T EXCEPT !.nr = @ - 1, !.ht[hi] = x.next[q[i]]]]
  ELSE [x EXCEPT !.T = [x.T EXCEPT !.nr = @ - 1], !.next[q[i-1]] = x.next[q[i]]]

\* KnvHt::remove(node): looked for in the slot of its present tag and key; when
\* it is not there, nothing happens.
Remove(x, n) ==
  LET hi == Hash(x.tag[n], x.key[n], x.T.sz)
      q  == Slot(x.T, x.next, hi)
  IN  IF n \in ToSet(q) THEN Unlinked(x, hi, q, CHOOSE i \in DOMAIN q : q[i] = n) ELSE x

Table(p) == [T |-> tab[p], next |-> ht_next, tag |-> tag, key |-> key, ok |-> TRUE]

\* The table of p and the chains become those of x.
Store(p, x) == tab' = [tab EXCEPT ![p] = x.T] /\ ht_next' = x.next

IsMatch(n, t, k) == tag[n] = t /\ key[n] = k

-----------------------------------------------------------------------------
(***************************************************************************)
(* Expand and Fold.                                                        *)
(***************************************************************************)
Idling == call = NoCall

Editing == Idling /\ edits < MaxEdits /\ edits' = edits + 1

\* x after Put of q[1], ..., q[i]; F are those for which there is no memory.
PutAll(x, q, F) ==
  LET done[i \in 0 .. Len(q)] == IF i = 0 THEN x ELSE Put(done[i-1], q[i], i \in F)
  IN  done

\* The first m fields of d become the nodes of q: their tags and keys.
Fill(p, d, q) ==
  LET at(n) == CHOOSE i \in DOMAIN q : q[i] = n
  IN  [Table(p) EXCEPT
         !.tag = [n \in Nodes |-> IF n \in ToSet(q) THEN d[at(n)].tag ELSE @[n]],
         !.key = [n \in Nodes |-> IF n \in ToSet(q) THEN d[at(n)].key ELSE @[n]]]

AnyKey(d, m) == \E i \in 1 .. m : d[i].key # NoKey

\* Expand: the fields become children, each put into the table; when put fails,
\* nobody notices.
Expand(p) ==
  /\ Idling /\ ~expanded[p] /\ Len(val[p]) <= Len(free)
  /\ LET d == val[p]
         q == SubSeq(free, 1, Len(d))
     IN  /\ \E F \in SUBSET DOMAIN q :
              LET xs == PutAll(Fill(p, d, q), q, F)
              IN  /\ \A i \in DOMAIN q : xs[i].ok <=> i \notin F
                  /\ \A i \in DOMAIN q : Grows(xs[i-1].T) => Straight(xs[i-1].T, xs[i-1].next)
                  /\ Store(p, xs[Len(q)])
                  /\ tag' = xs[0].tag /\ key' = xs[0].key
                  /\ unindexed' = unindexed \union {q[i] : i \in F}
         /\ parent' = [n \in Nodes |-> IF n \in ToSet(q) THEN p ELSE parent[n]]
         /\ free' = SubSeq(free, Len(q) + 1, Len(free))
         /\ childlist' = [childlist EXCEPT ![p] = q]
         /\ child_has_key' = [child_has_key EXCEPT ![p] = AnyKey(d, Len(d))]
  /\ expanded' = [expanded EXCEPT ![p] = TRUE]
  /\ UNCHANGED <<val, call, edits, rekeyed>>

\* Expand when the pool runs dry: the children made so far are deleted, but not
\* taken out of the table.
ExpandFail(p) ==
  /\ Idling /\ ~expanded[p] /\ Len(val[p]) > Len(free)
  /\ LET xs == PutAll(Fill(p, val[p], free), free, {})
     IN  /\ \A i \in DOMAIN free : Grows(xs[i-1].T) => Straight(xs[i-1].T, xs[i-1].next)
         /\ Store(p, xs[Len(free)])
  /\ child_has_key' = [child_has_key EXCEPT ![p] = AnyKey(val[p], Len(free))]
  /\ expanded' = [expanded EXCEPT ![p] = TRUE]
  /\ UNCHANGED <<tag, key, parent, free, val, childlist, call, aux>>

\* nodepool->Delete and DeleteAll for the children of q: they are in the pool
\* again, ht_next as it was.
Released(q) ==
  /\ tag' = [n \in Nodes |-> IF n \in ToSet(q) THEN 0 ELSE tag[n]]
  /\ key' = [n \in Nodes |-> IF n \in ToSet(q) THEN NoKey ELSE key[n]]
  /\ free' = q \o free
  /\ unindexed' = unindexed \ ToSet(q)
  /\ rekeyed' = rekeyed \ ToSet(q)
  /\ UNCHANGED parent

Fields(q) == [i \in DOMAIN q |-> [tag |-> tag[q[i]], key |-> key[q[i]]]]

\* Fold, from GetValue(), when something has changed; the table is not cleared.
Fold(p) ==
  /\ Editing /\ expanded[p] /\ childlist[p] # <<>>
  /\ val[p] # Fields(childlist[p])
  /\ val' = [val EXCEPT ![p] = Fields(childlist[p])]
  /\ Released(childlist[p])
  /\ childlist' = [childlist EXCEPT ![p] = <<>>]
  /\ expanded' = [expanded EXCEPT ![p] = FALSE]
  /\ UNCHANGED <<ht_next, child_has_key, tab, call>>

\* SetValue of an expanded parent; the table is not cleared.
SetValue(p, d) ==
  /\ Editing /\ expanded[p]
  /\ val' = [val EXCEPT ![p] = d]
  /\ Released(childlist[p])
  /\ childlist' = [childlist EXCEPT ![p] = <<>>]
  /\ expanded' = [expanded EXCEPT ![p] = FALSE]
  /\ UNCHANGED <<ht_next, child_has_key, tab, call>>

\* The parent is deleted and its object used for another node: ReleaseNode
\* clears the table.
Renew(p, d) ==
  /\ Editing
  /\ val' = [val EXCEPT ![p] = d]
  /\ Released(childlist[p])
  /\ childlist' = [childlist EXCEPT ![p] = <<>>]
  /\ expanded' = [expanded EXCEPT ![p] = FALSE]
  /\ tab' = [tab EXCEPT ![p] = Cleared]
  /\ UNCHANGED <<ht_next, child_has_key, call>>

-----------------------------------------------------------------------------
(***************************************************************************)
(* Edits of the children.                                                  *)
(***************************************************************************)
\* INSERT_CHILD: the list, the table (whose failure goes unnoticed), the flag.
InsertAs(p, n, at_tail, x) ==
  /\ childlist' = [childlist EXCEPT ![p] = IF at_tail THEN Append(@, n) ELSE <<n>> \o @]
  /\ Store(p, x)
  /\ parent' = [parent EXCEPT ![n] = p]
  /\ child_has_key' = [child_has_key EXCEPT ![p] = @ \/ x.key[n] # NoKey]
  /\ unindexed' = IF x.ok THEN unindexed \ {n} ELSE unindexed \union {n}
  /\ rekeyed' = rekeyed \ {n}

\* InsertChild of a new node.
InsertChild(p, t, k, at_tail) ==
  /\ Editing /\ expanded[p] /\ free # <<>>
  /\ LET n == Head(free)
     IN  \E nomem \in {b \in BOOLEAN : b => Grows(tab[p])} :
           LET x0 == [Table(p) EXCEPT !.tag[n] = t, !.key[n] = k]
           IN  /\ tag' = x0.tag /\ key' = x0.key
               /\ InsertAs(p, n, at_tail, Put(x0, n, nomem))
  /\ free' = Tail(free)
  /\ UNCHANGED <<val, expanded, call>>

\* InsertChild of a node that was detached, with take_ownership.
Attach(p, n, at_tail) ==
  /\ Editing /\ expanded[p]
  /\ tag[n] # 0 /\ ~Attached(n)
  /\ \E nomem \in {b \in BOOLEAN : b => Grows(tab[p])} :
       InsertAs(p, n, at_tail, Put(Table(p), n, nomem))
  /\ UNCHANGED <<tag, key, free, val, expanded, call>>

\* The elements of q that are in S, in their order.
Select(q, S) ==
  LET sel[i \in 0 .. Len(q)] ==
        IF i = 0 THEN <<>> ELSE IF q[i] \in S THEN Append(sel[i-1], q[i]) ELSE sel[i-1]
  IN  sel[Len(q)]

Without(q, S) == Select(q, Nodes \ S)

\* DetachChild
DetachChild(p, n) ==
  /\ Editing /\ n \in Kids(p)
  /\ Store(p, Remove(Table(p), n))
  /\ childlist' = [childlist EXCEPT ![p] = Without(@, {n})]
  /\ unindexed' = unindexed \ {n}
  /\ UNCHANGED <<tag, key, parent, free, val, expanded, child_has_key, call, rekeyed>>

\* KnvNode::Delete of a detached node.
DeleteDetached(n) ==
  /\ Editing /\ tag[n] # 0 /\ ~Attached(n)
  /\ Released(<<n>>)
  /\ UNCHANGED <<ht_next, par, tab, call>>

\* x after Remove of q[1], q[2], ...
RemoveAll(x, q) ==
  LET done[i \in 0 .. Len(q)] == IF i = 0 THEN x ELSE Remove(done[i-1], q[i])
  IN  done[Len(q)]

\* RemoveChildrenByTag: the nodes reach the pool one by one.
RemoveChildrenByTag(p, t) ==
  /\ Editing
  /\ LET q == Select(childlist[p], {n \in Nodes : tag[n] = t})
     IN  /\ q # <<>>
         /\ Store(p, RemoveAll(Table(p), q))
         /\ Released([i \in DOMAIN q |-> q[Len(q) + 1 - i]])
         /\ childlist' = [childlist EXCEPT ![p] = Without(@, ToSet(q))]
  /\ UNCHANGED <<val, expanded, child_has_key, call>>

\* Mutant: the entry is not taken out before the tag changes.
SetTagStale(n, t) ==
  /\ Editing /\ Attached(n)
  /\ LET p == parent[n]
         x == [Table(p) EXCEPT !.tag[n] = t]
     IN  \E nomem \in {b \in BOOLEAN : b => Grows(x.T)} :
           LET y == Put(x, n, nomem)
           IN  /\ Store(p, y)
               /\ unindexed' = IF y.ok THEN unindexed \ {n} ELSE unindexed \union {n}
  /\ tag' = [tag EXCEPT ![n] = t]
  /\ UNCHANGED <<key, parent, free, par, call, rekeyed>>

\* The entry of n is taken out of its parent's table, n gets another tag and
\* key, and is put in again.
Rehash(n, t, k) ==
  LET p == parent[n]
      x == [Remove(Table(p), n) EXCEPT !.tag[n] = t, !.key[n] = k]
  IN  \E nomem \in {b \in BOOLEAN : b => Grows(x.T)} :
        LET y == Put(x, n, nomem)
        IN  /\ Store(p, y)
            /\ tag' = y.tag /\ key' = y.key
            /\ unindexed' = IF y.ok THEN unindexed \ {n} ELSE unindexed \union {n}

\* SetTag
SetTag(n, t) ==
  /\ Editing /\ Attached(n)
  /\ Rehash(n, t, key[n])
  /\ UNCHANGED <<parent, free, par, call, rekeyed>>

\* SetKey, which leaves the parent's child_has_key alone.
SetKey(n, k) ==
  /\ Editing /\ Attached(n)
  /\ Rehash(n, tag[n], k)
  /\ rekeyed' = IF k = NoKey THEN rekeyed \ {n} ELSE rekeyed \union {n}
  /\ UNCHANGED <<parent, free, par, call>>

\* SetValue of a child that has a key, and no children of its own: the key is
\* read anew from the value, which may have none.  A child without a key does
\* not look for one.
SetChildValue(n, k) ==
  /\ Editing /\ Attached(n) /\ key[n] # NoKey
  /\ Rehash(n, tag[n], k)
  /\ rekeyed' = IF k = NoKey THEN rekeyed \ {n} ELSE rekeyed
  /\ UNCHANGED <<parent, free, par, call>>

\* SetValue of a child that has a key and children: the check that the key stays
\* the same overwrites it, with no key if the value begins with one, and the
\* table is left alone; else with the value k of the first field, under which
\* the entry is looked for before it is put in again, without key.
SetParentValue(n, k) ==
  /\ Editing /\ Attached(n) /\ key[n] # NoKey
  /\ LET x == [Remove([Table(parent[n]) EXCEPT !.key[n] = k], n) EXCEPT !.key[n] = NoKey]
     IN  IF k = NoKey THEN UNCHANGED <<tab, ht_next, unindexed>>
         ELSE \E nomem \in {b \in BOOLEAN : b => Grows(x.T)} :
                LET y == Put(x, n, nomem)
                IN  /\ Store(parent[n], y)
                    /\ unindexed' = IF y.ok THEN unindexed \ {n} ELSE unindexed \union {n}
  /\ key' = [key EXCEPT ![n] = NoKey]
  /\ UNCHANGED <<tag, parent, free, par, call, rekeyed>>

-----------------------------------------------------------------------------
(***************************************************************************)
(* Lookups: FindChild and RemoveChild, and the table's part of             *)
(* FindChildByTag.                                                         *)
(***************************************************************************)
\* pos is the entry whose ht_next leads to c, or NULL for the slot.
Lookup(op, p, t, k) ==
  /\ Idling /\ expanded[p] /\ childlist[p] # <<>>
  /\ op = "remove" => edits < MaxEdits
  /\ LET hi == Hash(t, k, tab[p].sz)
     IN  /\ hi \in tab[p].bm
         /\ call' = [op |-> op, p |-> p, tag |-> t, key |-> k,
                     c |-> tab[p].ht[hi], pos |-> NULL]
  /\ UNCHANGED <<child, par, tab, free, aux>>

Found == call.c # NULL /\ IsMatch(call.c, call.tag, call.key)

GetNext ==
  /\ call.op # "none" /\ call.c # NULL /\ ~Found
  /\ call' = [call EXCEPT !.pos = call.c, !.c = ht_next[call.c]]
  /\ UNCHANGED <<child, par, tab, free, aux>>

\* FindChild returns c, RemoveChild returns false.
GetEnd ==
  /\ call.op # "none"
  /\ call.c # NULL => Found /\ call.op = "find"
  /\ call' = NoCall
  /\ UNCHANGED <<child, par, tab, free, aux>>

\* Mutant: the entry before is not told.
RemoveChildByPosSlot ==
  /\ call.op = "remove" /\ Found
  /\ LET p == call.p
         n == call.c
     IN  /\ tab' = [tab EXCEPT ![p].nr = @ - 1,
                      ![p].ht[Hash(call.tag, call.key, tab[p].sz)] = ht_next[n]]
         /\ childlist' = [childlist EXCEPT ![p] = Without(@, {n})]
         /\ Released(<<n>>)
  /\ call' = NoCall
  /\ edits' = edits + 1
  /\ UNCHANGED <<ht_next, val, expanded, child_has_key>>

\* RemoveChildByPos: *pos = node->ht_next.
RemoveChildByPos ==
  /\ call.op = "remove" /\ Found
  /\ LET p == call.p
         n == call.c
     IN  /\ IF call.pos = NULL
            THEN /\ tab' = [tab EXCEPT ![p] = [tab[p] EXCEPT !.nr = @ - 1,
                              !.ht[Hash(call.tag, call.key, tab[p].sz)] = ht_next[n]]]
                 /\ UNCHANGED ht_next
            ELSE /\ tab' = [tab EXCEPT ![p] = [tab[p] EXCEPT !.nr = @ - 1]]
                 /\ ht_next' = [ht_next EXCEPT ![call.pos] = ht_next[n]]
         /\ childlist' = [childlist EXCEPT ![p] = Without(@, {n})]
         /\ Released(<<n>>)
  /\ call' = NoCall
  /\ edits' = edits + 1
  /\ UNCHANGED <<val, expanded, child_has_key>>

GetStep == GetNext \/ GetEnd \/ RemoveChildByPos

\* The first element of q that is in S.
First(q, S) ==
  LET hit == {i \in DOMAIN q : q[i] \in S}
  IN  IF hit = {} THEN NULL ELSE q[CHOOSE i \in hit : \A j \in hit : i <= j]

\* FindChildByTag: the list if some child has a key, else the table.
FindChildByTag(p, t) ==
  IF childlist[p] = <<>> THEN NULL
  ELSE IF child_has_key[p] THEN First(childlist[p], {n \in Nodes : tag[n] = t})
  ELSE First(Slot(tab[p], ht_next, Hash(t, NoKey, tab[p].sz)), {n \in Nodes : IsMatch(n, t, NoKey)})

Next ==
  \/ \E p \in Parents : Expand(p)
  \/ \E p \in Parents, d \in Docs : Renew(p, d) \/ (childlist[p] = <<>> /\ SetValue(p, d))
  \/ \E p \in Parents, t \in Tags, k \in Keys \union {NoKey}, b \in BOOLEAN : InsertChild(p, t, k, b)
  \/ \E p \in Parents, n \in Nodes, b \in BOOLEAN : Attach(p, n, b)
  \/ \E p \in Parents, n \in Nodes : DetachChild(p, n)
  \/ \E n \in Nodes : DeleteDetached(n)
  \/ \E p \in Parents, t \in Tags : RemoveChildrenByTag(p, t)
  \/ \E n \in Nodes, t \in Tags : SetTag(n, t)
  \/ \E n \in Nodes, k \in Keys \union {NoKey} : SetKey(n, k) \/ SetChildValue(n, k)
  \/ \E op \in {"find", "remove"}, p \in Parents, t \in Tags, k \in Keys \union {NoKey} : Lookup(op, p, t, k)
  \/ GetStep

Spec == Init /\ [][Next]_vars

\* A lookup goes on: no step of it waits for anything.
FairSpec == Spec /\ WF_vars(GetStep)

\* With the steps that leave released or renamed nodes in the table.  Once a
\* chain runs in a circle, only lookups are made.
RefoldNext ==
  \/ /\ \A p \in Parents : Straight(tab[p], ht_next)
     /\ \/ Next
        \/ \E p \in Parents : Fold(p) \/ ExpandFail(p)
        \/ \E p \in Parents, d \in Docs : SetValue(p, d)
        \/ \E n \in Nodes, k \in Keys \union {NoKey} : SetParentValue(n, k)
  \/ \E p \in Parents, t \in Tags, k \in Keys \union {NoKey} : Lookup("find", p, t, k)
  \/ GetStep

RefoldSpec == Init /\ [][RefoldNext]_vars /\ WF_vars(GetStep)

-----------------------------------------------------------------------------
TableOf(s) == [sz : {s}, nr : Nat, bm : SUBSET (0 .. s - 1), ht : [0 .. s - 1 -> Nodes \union {NULL}]]

\* Types; nr of a table is never negative, whatever is removed.
TypeOK ==
  /\ tag \in [Nodes -> Tags \union {0}] /\ key \in [Nodes -> Keys \union {NoKey}]
  /\ parent \in [Nodes -> Parents \union {NULL}] /\ ht_next \in [Nodes -> Nodes \union {NULL}]
  /\ free \in Seq(Nodes) /\ childlist \in [Parents -> Seq(Nodes)]
  /\ val \in [Parents -> Docs]
  /\ expanded \in [Parents -> BOOLEAN] /\ child_has_key \in [Parents -> BOOLEAN]
  /\ tab = [p \in Parents |-> tab[p]]
  /\ \A p \in Parents : \E i \in DOMAIN Levels : tab[p] \in TableOf(Levels[i])
  /\ call \in [op : {"none", "find", "remove"}, p : Parents \union {NULL},
               tag : Tags \union {0}, key : Keys \union {NoKey},
               c : Nodes \union {NULL}, pos : Nodes \union {NULL}]
  /\ edits \in 0 .. MaxEdits

(***************************************************************************)
(* The table of a node and its list of children name the same nodes, each  *)
(* once and in the slot of its tag and key, whatever was inserted, moved,  *)
(* renamed, removed and used again in between; only a child for which      *)
(* there was no memory is missing, and nr counts the others (put, remove,  *)
(* increase, INSERT_CHILD).                                                *)
(***************************************************************************)
IndexExact ==
  TypeOK /\ \A p \in Parents :
    LET es == Entries(tab[p], ht_next)
    IN  /\ Straight(tab[p], ht_next)
        /\ tab[p].nr = Len(es)
        /\ Distinct(es)
        /\ ToSet(es) = Kids(p) \ unindexed
        /\ \A i \in tab[p].bm : \A n \in ToSet(Slot(tab[p], ht_next, i)) :
             i = Hash(tag[n], key[n], tab[p].sz)

\* FindChild and RemoveChild answer with a child of the node they were asked,
\* and say that there is none only when none has this tag and key (or had no
\* memory to be put into the table).
LookupRight ==
  call.op # "none" =>
    /\ Found => call.c \in Kids(call.p)
    /\ call.c = NULL => \A n \in Kids(call.p) : IsMatch(n, call.tag, call.key) => n \in unindexed

\* FindChildByTag finds a child of that tag if there is one.  Since SetKey does
\* not tell the parent that it has a child with a key now, the exception is a
\* tag all of whose children got their keys that way (or lacked memory).
ByTagRight ==
  \A p \in Parents, t \in Tags :
    LET n == FindChildByTag(p, t)
    IN  IF n = NULL THEN \A c \in Kids(p) : tag[c] = t => c \in rekeyed \union unindexed
        ELSE n \in Kids(p) /\ tag[n] = t

\* FindChild, RemoveChild and FindChildByTag answer what the list of children says.
LookupsRight == LookupRight /\ ByTagRight

-----------------------------------------------------------------------------
(***************************************************************************)
(* The inductive invariant behind IndexExact and LookupsRight.             *)
(***************************************************************************)
At(q, k) == IF k <= Len(q) THEN q[k] ELSE NULL

\* The chain that starts at h is q.
Linked(h, next, q) == h = At(q, 1) /\ \A k \in DOMAIN q : next[q[k]] = At(q, k + 1)

\* The table of x holds the nodes of S, and c are its slots.
Indexes(x, c, S) ==
  /\ x.T.nr = Cardinality(S)
  /\ c \in [0 .. x.T.sz - 1 -> Seq(Nodes)]
  /\ \A i \in 0 .. x.T.sz - 1 :
       /\ Distinct(c[i])
       /\ ToSet(c[i]) = {n \in S : Hash(x.tag[n], x.key[n], x.T.sz) = i}
       /\ IF i \in x.T.bm THEN Linked(x.T.ht[i], x.next, c[i]) ELSE c[i] = <<>>

Slots(x) == [i \in 0 .. x.T.sz - 1 |-> Slot(x.T, x.next, i)]

\* Every table holds the children of its node, those without memory excepted.
Indexed == \A p \in Parents : Indexes(Table(p), Slots(Table(p)), Kids(p) \ unindexed)

\* No node is in two lists, or twice in one; parent is right in the lists.
Owned ==
  /\ Distinct(free)
  /\ \A n \in ToSet(free) : tag[n] = 0 /\ n \notin unindexed
  /\ \A p \in Parents :
       /\ Distinct(childlist[p])
       /\ \A n \in Kids(p) : parent[n] = p /\ n \notin ToSet(free)
       /\ ~expanded[p] => childlist[p] = <<>>

\* A child with a key, of a parent that knows of none, got it from SetKey.
KeysSeen ==
  \A p \in Parents : ~child_has_key[p] => \A n \in Kids(p) : key[n] # NoKey => n \in rekeyed

\* A lookup is at the k-th entry of its slot, or past the last, and none of
\* those before it matches.
CallOK ==
  call.op # "none" =>
    /\ call.p \in Parents /\ call.tag \in Tags
    /\ call.op = "remove" => edits < MaxEdits
    /\ LET T  == tab[call.p]
           hi == Hash(call.tag, call.key, T.sz)
           q  == Slot(T, ht_next, hi)
       IN  /\ hi \in T.bm
           /\ \E k \in 1 .. Len(q) + 1 :
                /\ call.c = At(q, k)
                /\ call.pos = IF k = 1 THEN NULL ELSE q[k-1]
                /\ \A j \in 1 .. k - 1 : ~IsMatch(q[j], call.tag, call.key)

IInv == TypeOK /\ Owned /\ Indexed /\ KeysSeen /\ CallOK

-----------------------------------------------------------------------------
\* Every lookup returns.
LookupReturns == (call.op # "none") ~> (call.op = "none")
=============================================================================
