----------------------------- MODULE KnvSubTree -----------------------------
(***************************************************************************)
(* knv_node.cc: the operations between trees.  A data tree is asked for    *)
(* the part a request tree describes, loses such a part, takes over        *)
(* another tree, and makes a request for itself.                           *)
(*                                                                         *)
(* A tree is a value here: how nodes keep lengths and buffers is the       *)
(* matter of KnvTree, how they find a child that of KnvIndex.  What is     *)
(* kept of both is that a node parses its children once, at the first call *)
(* that needs them, and with or without their keys, as that call likes.    *)
(***************************************************************************)
EXTENDS Integers, SequencesExt, FiniteSetsExt

CONSTANTS
  Docs,      \* data trees
  Reqs,      \* request trees that callers build
  Upds,      \* trees to update from
  Levels,    \* arguments max_level
  MaxCalls   \* bound on the number of calls

VARIABLES
  data,      \* the data tree
  dirty,     \* its subnode_dirty: it differs from its buffer
  made,      \* request trees that MakeRequestTree returned, at most one
  calls,
  last       \* auxiliary: the last call and what it returned

vars == <<data, dirty, made, calls, last>>

-----------------------------------------------------------------------------
(***************************************************************************)
(* Nodes.  key is the first field with tag 1 (0: there is none); seen says *)
(* that the node knows it.  metas maps tags 2 .. 10 to integers.  open is  *)
(* child_num >= 0; the fields of a node that is not open are in kids all   *)
(* the same, unparsed.  stale says that the table of the node still has    *)
(* the children it released when it was folded or got a value; filed, that *)
(* the node is where its tag and key say in the table of its parent.       *)
(***************************************************************************)
Node(t, k, ms, cs) ==
  [tag |-> t, int |-> FALSE, val |-> 0, key |-> k, seen |-> TRUE, metas |-> ms,
   kids |-> cs, open |-> FALSE, child_has_key |-> FALSE, stale |-> FALSE, filed |-> TRUE]

NoMetas == [t \in {} |-> 0]

Int_(t, v) == [Node(t, 0, NoMetas, <<>>) EXCEPT !.int = TRUE, !.val = v]

KeyOf(n) == IF n.seen THEN n.key ELSE 0

\* metalist # NULL, of a node that is open
HasMetas(n) == n.key # 0 \/ DOMAIN n.metas # {}

RECURSIVE Folded(_)

\* n as it is in a buffer, and a node made from it.
Folded(n) ==
  [n EXCEPT !.open = FALSE, !.seen = TRUE, !.child_has_key = FALSE, !.stale = FALSE, !.filed = TRUE,
            !.kids = [i \in DOMAIN n.kids |-> Folded(n.kids[i])]]

\* InnerDuplicate with force_no_key: the key is in the buffer and not seen.
KeylessCopy(n) == [Folded(n) EXCEPT !.seen = n.key = 0]

\* The children go back to the pool, ht is not cleared.
Released(n) == n.stale \/ (n.open /\ n.kids # <<>>)

RECURSIVE TablesRight(_)

\* In the tables of n and the nodes under it are their children, each under
\* its tag and key.
TablesRight(n) ==
  ~n.stale /\ \A i \in DOMAIN n.kids : n.kids[i].filed /\ TablesRight(n.kids[i])

\* InnerExpand
InnerExpand(n, force_no_key) ==
  IF n.open \/ n.int THEN n
  ELSE [n EXCEPT !.open = TRUE,
                 !.child_has_key = ~force_no_key /\ \E i \in DOMAIN n.kids : n.kids[i].key # 0,
                 !.kids = [i \in DOMAIN n.kids |-> [n.kids[i] EXCEPT !.seen = @ /\ (n.kids[i].key # 0 => ~force_no_key)]]]

Expand(n) == InnerExpand(n, FALSE)

\* InnerInsertChild of a copy (InnerDuplicate)
InsertChild(n, c) ==
  [n EXCEPT !.kids = Append(@, Folded(c)),
            !.child_has_key = @ \/ c.key # 0]

\* The children of n that are in its table under tag t and key k.
Filed(n, t, k) ==
  {i \in DOMAIN n.kids : n.kids[i].filed /\ n.kids[i].tag = t /\ KeyOf(n.kids[i]) = k}

\* Mutant: the tag alone decides.
MatchesTag(n, q) == {i \in DOMAIN n.kids : n.kids[i].tag = q.tag}

\* The places of n's children that q asks for: with a key one of them
\* (KnvHt::get; the last one put is the first in its chain), without key all
\* of the tag.  If no child has a key the chain of the tag is followed, which
\* holds the children without key.
Matches(n, q) ==
  LET hits == Filed(n, q.tag, KeyOf(q))
  IN  IF KeyOf(q) # 0 THEN IF hits = {} THEN {} ELSE {Max(hits)}
      ELSE IF ~n.child_has_key THEN hits
      ELSE {i \in DOMAIN n.kids : n.kids[i].tag = q.tag}

HasKeys(r) == \E i \in DOMAIN r.kids : r.kids[i].key # 0

\* no same node, or req contains key but different
SameNode(n, r) == n.tag = r.tag /\ (KeyOf(r) # 0 => KeyOf(n) = KeyOf(r))

-----------------------------------------------------------------------------
(***************************************************************************)
(* GetSubTree.  A tree that is NULL in the code is the empty sequence, one *)
(* that is not a sequence of one.  The order of the answers to a request   *)
(* without key is that of the children here, that of a hash chain there.   *)
(***************************************************************************)
\* The metas of n that r asks for; tag 1 is not among them.
AskedMetas(n, r) ==
  [t \in {u \in DOMAIN n.metas \intersect DOMAIN r.metas : r.metas[u] # 0} |-> n.metas[t]]

RECURSIVE InnerGetSubTree(_, _, _)

\* GET_SUBDATA_SUB_TREE
GetChild(acc, i, q, no_empty) ==
  LET sub == InnerGetSubTree(acc.data.kids[i], q, no_empty)
  IN  [acc EXCEPT !.data.kids[i] = sub.data, !.out = @ \o sub.out, !.empty = @ \o sub.empty]

InnerGetSubTree(n, r, no_empty) ==
  LET nothing == [data |-> n, out |-> <<>>, empty |-> <<>>]
      d == InnerExpand(n, ~HasKeys(r))
      Step(acc, q) ==
        LET found == Matches(acc.data, q)
        IN  IF found = {}
            THEN [acc EXCEPT !.empty = IF no_empty THEN @ ELSE Append(@, KeylessCopy(q))]
            ELSE FoldLeft(LAMBDA a, i : GetChild(a, i, q, no_empty), acc, SetToSortSeq(found, <))
      all == FoldLeft(Step, [nothing EXCEPT !.data = d], r.kids)
      metas == AskedMetas(n, r)
  IN  IF r.int /\ r.val = 0 THEN nothing                       \* not requesting this node
      ELSE IF r.kids = <<>> THEN [nothing EXCEPT !.out = <<Folded(n)>>]
      ELSE IF n.kids = <<>>                                    \* This is a leaf, but req_tree isn't
      THEN [nothing EXCEPT !.data = d, !.empty = IF no_empty THEN <<>> ELSE <<Folded(r)>>]
      ELSE [data  |-> all.data,
            out   |-> IF all.out = <<>> /\ metas = NoMetas THEN <<>>
                      ELSE <<Node(n.tag, KeyOf(n), metas, all.out)>>,
            empty |-> IF all.empty = <<>> THEN <<>>
                      ELSE <<Node(r.tag, KeyOf(r), NoMetas, all.empty)>>]

\* GetSubTree looks into metas[] of nodes that have no metas, where an earlier
\* use of the object may have left something (line 2088): callers here ask for
\* metas only if there is a key or a meta.
RECURSIVE MetasKnown(_, _)
MetasKnown(n, r) ==
  /\ DOMAIN r.metas # {} /\ n.kids # <<>> => n.key # 0 \/ DOMAIN n.metas # {}
  /\ \A i \in DOMAIN r.kids, j \in DOMAIN n.kids :
       r.kids[i].tag = n.kids[j].tag => MetasKnown(n.kids[j], r.kids[i])

Call(op, r, level, out, rest, ret) ==
  /\ calls < MaxCalls /\ calls' = calls + 1
  /\ last' = [op |-> op, req |-> r, level |-> level, before |-> data,
              out |-> out, rest |-> rest, ret |-> ret]

\* A node that was folded, or got a value, while it had children keeps them in
\* its table, and they come back from the pool as other nodes: what a lookup in
\* it then meets is shown in KnvIndex (RefoldSpec), down to one that never
\* returns.  Callers here use tables only while they are right.
Usable(r) == r.kids # <<>> => TablesRight(data)

\* subnode_dirty after a call: an edit sets it, InnerExpand clears it.
Dirty(d, edited) == edited \/ (dirty /\ (data.open \/ ~d.open))

GetSubTree(r, no_empty) ==
  /\ MetasKnown(data, r) /\ Usable(r)
  /\ LET res == IF SameNode(data, r) THEN InnerGetSubTree(data, r, no_empty)
                ELSE [data |-> data, out |-> <<>>, empty |-> <<>>]
     IN  /\ data' = res.data
         /\ dirty' = Dirty(res.data, FALSE)
         /\ Call(IF no_empty THEN "get_no_empty" ELSE "get", r, 0, res.out, res.empty, 0)
  /\ UNCHANGED made

-----------------------------------------------------------------------------
(***************************************************************************)
(* DeleteSubTree.                                                          *)
(***************************************************************************)
RECURSIVE InnerDelete(_, _)

\* Mutant: a child that has become empty stays.
DeleteChildKept(acc, c, q) ==
  LET sub == InnerDelete(c, q)
  IN  [acc EXCEPT !.kids = IF sub.ret = 1 /\ sub.data.kids # <<>> THEN @ ELSE Append(@, sub.data),
                  !.match = @ \o sub.match]

\* DELETE_SUBDATA_SUB_TREE, and the child is removed when it is asked for or
\* has no children (left).
DeleteChild(acc, c, q) ==
  LET sub == InnerDelete(c, q)
      d == Expand(sub.data)
  IN  [acc EXCEPT !.kids = IF sub.ret = 1 \/ d.kids = <<>> THEN @ ELSE Append(@, d),
                  !.match = @ \o sub.match]

\* One sub_req: acc.data loses what q asks for.
DeleteStep(acc, q) ==
  LET n == acc.data
      found == Matches(n, q)
      byTag == KeyOf(q) = 0 /\ q.kids = <<>>       \* RemoveChildrenByTag
      each == FoldLeft(LAMBDA a, i : IF i \in found THEN DeleteChild(a, n.kids[i], q)
                                     ELSE [a EXCEPT !.kids = Append(@, n.kids[i])],
                       [kids |-> <<>>, match |-> acc.match], [i \in DOMAIN n.kids |-> i])
  IN  IF byTag /\ q.int /\ q.val = 0 THEN acc
      ELSE IF byTag
      THEN [data  |-> [n EXCEPT !.kids = SelectSeq(@, LAMBDA c : c.tag # q.tag)],
            match |-> Append(acc.match, Folded(q))]
      ELSE [data |-> [n EXCEPT !.kids = each.kids], match |-> each.match]

\* NewTree, and children inserted into it
NewTree(t, k, cs) == Node(t, k, NoMetas, cs)

InnerDelete(n, r) ==
  LET nothing == [ret |-> 0, data |-> n, match |-> <<>>]
      d == InnerExpand(n, ~HasKeys(r))
      all == FoldLeft(DeleteStep, [data |-> d, match |-> <<>>], r.kids)
  IN  IF ~SameNode(n, r) THEN nothing
      ELSE IF r.kids = <<>>          \* request the whole node
      THEN [nothing EXCEPT !.ret = 1, !.match = <<IF KeyOf(r) # 0 THEN NewTree(r.tag, r.key, <<>>)
                                                   ELSE Int_(r.tag, 1)>>]
      ELSE IF n.kids = <<>> THEN [nothing EXCEPT !.data = d]
      ELSE [ret   |-> IF all.data.kids = <<>> THEN 1 ELSE 0,
            data  |-> all.data,
            match |-> IF all.match = <<>> THEN <<>>
                      ELSE <<NewTree(r.tag, KeyOf(r), all.match)>>]

DeleteSubTree(r) ==
  LET res == InnerDelete(data, r)
  IN  /\ Usable(r)
      /\ data' = res.data
      /\ dirty' = Dirty(res.data, Folded(res.data) # Folded(data))
      /\ Call("delete", r, 0, <<>>, res.match, res.ret)
      /\ UNCHANGED made

-----------------------------------------------------------------------------
(***************************************************************************)
(* UpdateSubTree.                                                          *)
(***************************************************************************)
\* The check that the key stays the same, made of a node with children, forgets
\* the key instead (line 1227).  The node has no key then, stays in its parent's
\* table where it was, and is found neither with the key nor without.
LosesKey(n) == n.open /\ n.kids # <<>> /\ KeyOf(n) # 0

\* SetValue(update_tree's value): a node that had a key reads it anew, one that
\* had none does not look for it.
SetValue(n, u) ==
  [Folded(u) EXCEPT !.seen = IF KeyOf(n) # 0 THEN ~LosesKey(n) ELSE u.key = 0,
                    !.stale = Released(n), !.filed = n.filed /\ ~LosesKey(n)]

\* Mutant: fields of the last level are put beside those they replace.
RemoveTagsNot(n, u) == n

\* The last level: the tag of an old field and of a new one cannot both exist.
RemoveTags(n, u) ==
  [n EXCEPT !.kids = SelectSeq(@, LAMBDA c : \A i \in DOMAIN u.kids : u.kids[i].tag # c.tag)]

RECURSIVE InnerUpdate(_, _, _)

\* One sub_update; nothing is done after an error.
UpdateChild(acc, s, level) ==
  LET found == Filed(acc.data, s.tag, KeyOf(s))
      i == Max(found)
      sub == InnerUpdate(acc.data.kids[i], s, level)
  IN  IF ~acc.ok THEN acc
      ELSE IF level >= 0 /\ found # {}
      THEN [ok |-> sub.ok, data |-> [acc.data EXCEPT !.kids[i] = sub.data],
            edited |-> acc.edited \/ sub.edited]
      ELSE [acc EXCEPT !.data = InsertChild(@, s), !.edited = TRUE]

InnerUpdate(m, w, level) ==
  LET u == InnerExpand(w, level = 0)
      n == IF level = 0 \/ (level > 0 /\ u.kids # <<>>) THEN InnerExpand(m, level = 0) ELSE m
      merged == [n EXCEPT !.metas = [t \in DOMAIN n.metas \union DOMAIN u.metas |->
                                       IF t \in DOMAIN u.metas THEN u.metas[t] ELSE n.metas[t]]]
      base == IF level = 0 THEN RemoveTags(merged, u) ELSE merged
  IN  IF m.tag # w.tag \/ KeyOf(m) # KeyOf(w) THEN [ok |-> TRUE, data |-> m, edited |-> FALSE]
      ELSE IF level < 0 \/ u.kids = <<>> \/ n.kids = <<>>
      THEN IF n.int # u.int THEN [ok |-> FALSE, data |-> n, edited |-> FALSE]
           ELSE [ok |-> TRUE, data |-> SetValue(n, u), edited |-> TRUE]
      ELSE FoldLeft(LAMBDA acc, s : UpdateChild(acc, s, level - 1),
                    [ok |-> TRUE, data |-> base, edited |-> base # n \/ DOMAIN u.metas # {}], u.kids)

\* No node of the update is named twice: the second time it would be looked up
\* in what the first one left of its table.
RECURSIVE NamedOnce(_)
NamedOnce(u) ==
  /\ \A i, j \in DOMAIN u.kids :
       ~u.kids[i].int /\ <<u.kids[i].tag, u.kids[i].key>> = <<u.kids[j].tag, u.kids[j].key>> => i = j
  /\ \A i \in DOMAIN u.kids : NamedOnce(u.kids[i])

UpdateSubTree(u, level) ==
  LET res == InnerUpdate(data, u, level)
  IN  /\ level >= 0 => Usable(u) /\ NamedOnce(u)
      /\ data' = res.data
      /\ dirty' = Dirty(res.data, res.edited)
      /\ Call("update", u, level, <<>>, <<>>, IF res.ok THEN 0 ELSE -1)
      /\ UNCHANGED made

-----------------------------------------------------------------------------
(***************************************************************************)
(* MakeRequestTree.                                                        *)
(***************************************************************************)
\* Mutant: the request for a leaf says no.
MakeLeafRequestZero(n, open) ==
  IF ~open \/ ~HasMetas(n) THEN Int_(n.tag, 0) ELSE NewTree(n.tag, KeyOf(n), <<>>)

\* a leaf with no key, convert to a int(1): also a node not expanded yet.
MakeLeafRequest(n, open) ==
  IF ~open \/ ~HasMetas(n) THEN Int_(n.tag, 1) ELSE NewTree(n.tag, KeyOf(n), <<>>)

RECURSIVE InnerMakeRequest(_, _)
InnerMakeRequest(n, level) ==
  LET d == IF level < 0 THEN n ELSE Expand(n)
      subs == [i \in DOMAIN d.kids |-> InnerMakeRequest(d.kids[i], level - 1)]
  IN  IF level < 0 \/ n.kids = <<>> THEN [data |-> d, req |-> MakeLeafRequest(n, d.open)]
      ELSE [data |-> [d EXCEPT !.kids = [i \in DOMAIN d.kids |-> subs[i].data]],
            req  |-> NewTree(n.tag, KeyOf(n), [i \in DOMAIN d.kids |-> subs[i].req])]

MakeRequestTree(level) ==
  LET res == InnerMakeRequest(data, level)
  IN  /\ data' = res.data
      /\ made' = <<res.req>>
      /\ dirty' = Dirty(res.data, FALSE)
      /\ Call("make", res.req, level, <<>>, <<>>, 0)

\* Fold, in GetValue of a tree that was changed: the children are given up, and
\* will be parsed again.
Fold ==
  /\ dirty /\ dirty' = FALSE
  /\ data.open /\ (data.kids # <<>> \/ HasMetas(data))
  /\ data' = [Folded(data) EXCEPT !.seen = data.seen, !.stale = Released(data)]
  /\ Call("fold", data, 0, <<>>, <<>>, 0)
  /\ UNCHANGED made

Init ==
  /\ data \in Docs /\ dirty = FALSE /\ made = <<>> /\ calls = 0
  /\ last = [op |-> "none", req |-> data, level |-> 0, before |-> data,
             out |-> <<>>, rest |-> <<>>, ret |-> 0]

Next ==
  \/ \E r \in Reqs \union ToSet(made) :
       (\E no_empty \in BOOLEAN : GetSubTree(r, no_empty)) \/ DeleteSubTree(r)
  \/ \E u \in Upds, level \in Levels : UpdateSubTree(u, level)
  \/ \E level \in Levels : MakeRequestTree(level)
  \/ Fold

Spec == Init /\ [][Next]_vars

-----------------------------------------------------------------------------
(***************************************************************************)
(* What the operations are for, said of paths.  A path is a sequence of    *)
(* pairs of tag and key.  A tree is the set of its facts: a value at the   *)
(* end of a path (-1 for a node with nothing in it), or a meta of a node.  *)
(***************************************************************************)
RECURSIVE Facts(_)
Facts(n) ==
  LET here == <<n.tag, n.key>>
      below == UNION {Facts(n.kids[i]) : i \in DOMAIN n.kids}
  IN  {[path |-> <<here>>, meta |-> t, val |-> n.metas[t]] : t \in DOMAIN n.metas}
      \union {[f EXCEPT !.path = <<here>> \o @] : f \in below}
      \union IF n.int THEN {[path |-> <<here>>, meta |-> 0, val |-> n.val]}
             ELSE IF n.kids = <<>> /\ n.metas = NoMetas
             THEN {[path |-> <<here>>, meta |-> 0, val |-> -1]} ELSE {}

FactsOf(trees) == UNION {Facts(trees[i]) : i \in DOMAIN trees}

\* What a request tree asks for: whole nodes (meta = 0) and metas of nodes.
Requests(r) ==
  {[path |-> f.path, meta |-> f.meta] : f \in {g \in Facts(r) : g.val # 0}}

RequestsOf(trees) == UNION {Requests(trees[i]) : i \in DOMAIN trees}

Whole(reqs) == {q \in reqs : q.meta = 0}

\* p leads to what the path of a request, which may leave out keys, leads to.
Fits(reqPath, p) ==
  /\ Len(reqPath) <= Len(p)
  /\ \A i \in DOMAIN reqPath :
       reqPath[i][1] = p[i][1] /\ (reqPath[i][2] # 0 => reqPath[i][2] = p[i][2])

\* One of the two paths goes on from where the other one ends.
Compatible(reqPath, p) ==
  LET k == Min({Len(reqPath), Len(p)}) IN Fits(SubSeq(reqPath, 1, k), SubSeq(p, 1, k))

Under(p, g) == Len(g.path) > Len(p) /\ SubSeq(g.path, 1, Len(p)) = p

\* The facts that are asked for.  Of a node without children no meta is given
\* unless the whole node is asked for.
Selected(reqs, facts) ==
  {f \in facts : \E q \in reqs :
     \/ q.meta = 0 /\ Fits(q.path, f.path)
     \/ /\ q.meta # 0 /\ q.meta = f.meta
        /\ Len(q.path) = Len(f.path) /\ Fits(q.path, f.path)
        /\ \E g \in facts : Under(f.path, g)}

\* A node that matches the path up to some point has no child where it goes on.
RECURSIVE Lacks(_, _)
Lacks(n, path) ==
  LET found == {i \in DOMAIN n.kids : Fits(<<path[2]>>, <<(<<n.kids[i].tag, n.kids[i].key>>)>>)}
  IN  Len(path) > 1 /\ (found = {} \/ \E i \in found : Lacks(n.kids[i], Tail(path)))

RECURSIVE Visible(_)

\* No key is hidden from the nodes of n.
Visible(n) == n.seen /\ (n.open => \A i \in DOMAIN n.kids : Visible(n.kids[i]))

Before == Facts(last.before)

\* The properties below are about calls that find the tables right (Usable), on
\* trees that know their keys.  A request or an
\* update that does not need the keys makes the node parse its children
\* without them, and later requests with keys do not find these children.
Known == Visible(last.before)

-----------------------------------------------------------------------------
RECURSIVE NodeOK(_)
NodeOK(n) ==
  /\ n.tag \in Nat \ {0} /\ n.key \in Nat
  /\ {n.seen, n.open, n.child_has_key, n.int, n.stale, n.filed} \subseteq BOOLEAN
  /\ n.int => n.kids = <<>> /\ n.key = 0
  /\ n.open /\ ~n.child_has_key => \A i \in DOMAIN n.kids : KeyOf(n.kids[i]) = 0
  /\ \A i \in DOMAIN n.kids : NodeOK(n.kids[i])

\* Types; child_has_key is set if a child has a key (knv_node.h, line 206),
\* on which the search by tag relies.
TypeOK ==
  /\ NodeOK(data) /\ dirty \in BOOLEAN /\ calls \in 0 .. MaxCalls
  /\ Len(made) <= 1 /\ Len(last.out) <= 1 /\ Len(last.rest) <= 1

Keyless(facts) ==
  {[f EXCEPT !.path = [i \in DOMAIN @ |-> <<f.path[i][1], 0>>]] : f \in facts}

\* GetSubTree returns all that the request asks for, and nothing else; the
\* data stay what they are.  If the call had to parse children and did it
\* without their keys, then keys are missing from what it returns.
GetRight ==
  last.op \in {"get", "get_no_empty"} =>
    LET want == IF SameNode(last.before, last.req) THEN Selected(Requests(last.req), Before) ELSE {}
    IN  /\ Facts(data) = Before
        /\ Known => /\ Keyless(FactsOf(last.out)) = Keyless(want)
                    /\ Visible(data) => FactsOf(last.out) = want

\* It returns as empty_req_tree the requests that some node they lead to has
\* no answer for.
EmptyRight ==
  Known /\ last.op \in {"get", "get_no_empty"} =>
    Whole(RequestsOf(last.rest)) =
      IF last.op = "get_no_empty" \/ ~SameNode(last.before, last.req) THEN {}
      ELSE {q \in Whole(Requests(last.req)) : Lacks(last.before, q.path)}

\* GetSubTree divides a request into what there is and what there is not.
GetSubTreeRight == TypeOK /\ GetRight /\ EmptyRight

\* A node that has nothing in it; the root stays when all of it is deleted.
RootEmpty == {f \in Facts(data) : Len(f.path) = 1 /\ f.val = -1}

\* DeleteSubTree removes what is asked for, the nodes that have no children
\* then, and the childless nodes that are asked for children; all else stays.
\* It returns 1 if and only if nothing is left (the whole tree is left to the
\* caller to delete).
DeleteRight ==
  Known /\ last.op = "delete" /\ SameNode(last.before, last.req) /\ last.before.kids # <<>> =>
    LET reqs == Whole(Requests(last.req))
        leaves == {f \in Before : ~\E g \in Before : Under(f.path, g)}
        kept == {f \in leaves : Len(f.path) = 1 \/ ~\E q \in reqs : Compatible(q.path, f.path)}
        stays == kept \union {f \in Before \ leaves : Len(f.path) = 1 \/ \E g \in kept : Under(f.path, g)}
    IN  IF last.req.kids = <<>> THEN last.ret = 1 /\ data = last.before
        ELSE /\ Facts(data) \ RootEmpty = stays
             /\ last.ret = 1 <=> \A f \in stays : Len(f.path) = 1

\* The match_req_tree is a part of the request that asks for the same: with it
\* the caller can fill in again what was removed.
MatchRight ==
  Known /\ last.op = "delete" /\ SameNode(last.before, last.req) =>
    LET asked == Whole(Requests(last.req))
    IN  /\ RequestsOf(last.rest) \subseteq asked
        /\ last.before.kids # <<>> =>
             Selected(RequestsOf(last.rest), Before) = Selected(asked, Before)

\* DeleteSubTree removes what is asked for and says what it removed.
DeleteSubTreeRight == DeleteRight /\ MatchRight

\* No two nodes above the last level have the same tag and key: of such nodes
\* (a repeated field without key) the last one alone is found and updated.
RECURSIVE Distinct(_, _)
Distinct(n, level) ==
  level > 0 => /\ IsInjective([i \in DOMAIN n.kids |-> <<n.kids[i].tag, n.kids[i].key>>])
               /\ \A i \in DOMAIN n.kids : Distinct(n.kids[i], level - 1)

Childless(facts, p) == \A g \in facts : ~Under(p, g)

\* UpdateSubTree: afterwards the tree has all facts of the other one, and of
\* its own those that it did not replace.  Replaced are metas by metas, fields
\* on the last level by fields of the same tag, and a node as a whole if it, or
\* the one that updates it, has no children.
UpdateRight ==
  Known /\ last.op = "update" /\ last.ret = 0
    /\ Distinct(last.before, last.level) /\ Distinct(last.req, last.level) =>
    LET new == Facts(last.req)
        end == last.level + 2
        Replaces(g, f) ==
          \/ /\ Len(g.path) >= end /\ Len(f.path) >= end
             /\ SubSeq(g.path, 1, end - 1) = SubSeq(f.path, 1, end - 1)
             /\ g.path[end][1] = f.path[end][1]
          \/ \E k \in 1 .. end - 1 :
               LET p == SubSeq(f.path, 1, k)
               IN  /\ k <= Len(f.path) /\ k <= Len(g.path) /\ p = SubSeq(g.path, 1, k)
                   /\ Childless(Before, p) \/ Childless(new, p)
          \/ f.meta # 0 /\ g.meta = f.meta /\ g.path = f.path
    IN  Facts(data) = IF last.before.tag # last.req.tag \/ last.before.key # last.req.key THEN Before
                      ELSE new \union {f \in Before : ~\E g \in new : Replaces(g, f)}

\* The tree that MakeRequestTree makes asks for all values of the data, and for
\* nothing that they do not have.
MakeRight ==
  Known /\ last.op = "make" =>
    /\ {f \in Before : f.meta = 0} \subseteq Selected(Requests(last.req), Before)
    /\ \A q \in Requests(last.req) : ~Lacks(last.before, q.path)
=============================================================================
