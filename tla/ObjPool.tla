------------------------------ MODULE ObjPool ------------------------------
(***************************************************************************)
(* obj_pool.h, the object pool of one thread, as KnvNode uses it.  A node  *)
(* owns two lists of nodes (metalist, childlist), and Delete, DeleteAll    *)
(* call its ReleaseObject(), which gives these lists back to the very pool *)
(* that is at work (knv_node.cc, ReleaseKnvNodeList): it walks the tree    *)
(* level by level and hangs one list behind the other, using next and prev *)
(* of the lists it takes apart.  One step is one round of a loop.          *)
(*                                                                         *)
(* list, free, loose and the sequences of job are auxiliary: what the      *)
(* pointers should say.  No step of the pool reads them.                   *)
(***************************************************************************)
EXTENDS ObjList

VARIABLES
  obj_freelist, \* head of the free list
  next, prev,   \* obj_base.h
  first,        \* <<o, kind>> -> first node of o's metalist or childlist
  unmade,       \* addresses at which no object has been made yet
  job,          \* the Delete or DeleteAll in progress
  free,         \* auxiliary: the nodes of the free list, in order
  list,         \* auxiliary: the nodes of each list, in order
  loose         \* auxiliary: standalone nodes (roots, detached nodes)

mem  == <<obj_freelist, next, prev, first>>
aux  == <<free, list, loose>>
vars == <<mem, unmade, job, aux>>

Kinds == {"meta", "child"}
Lists == Obj \X Kinds

Idle == [op |-> "idle", o |-> NULL, top |-> NULL, stage |-> "meta",
         clist |-> NULL, c |-> NULL, cclist |-> NULL, fclist |-> NULL,
         tops |-> <<>>, cq |-> <<>>, ccq |-> <<>>, fq |-> <<>>]

Init ==
  /\ obj_freelist = NULL
  /\ next = [o \in Obj |-> NULL] /\ prev = [o \in Obj |-> NULL]
  /\ first = [l \in Lists |-> NULL]
  /\ unmade = Obj
  /\ job = Idle
  /\ free = <<>> /\ list = [l \in Lists |-> <<>>] /\ loose = {}

\* Nodes in the hands of callers: the loose ones and those in lists.
Out == loose \union UNION {Members(list[l]) : l \in Lists}

\* The nodes below o, o included.
Below(o) ==
  LET below[m \in Obj] == {m} \union
        UNION {below[x] : x \in UNION {Members(list[<<m, k>>]) : k \in Kinds}}
  IN  below[o]

LinksOf(l) == [first |-> first[l], next |-> next, prev |-> prev]

-----------------------------------------------------------------------------
(***************************************************************************)
(* New.  A node comes from the free list, or from operator new when it is  *)
(* empty; a failing operator new changes nothing.  InitNode follows at     *)
(* once: it empties the two lists of the node (InitChildList).             *)
(***************************************************************************)
\* Mutant: next is cleared before the free list is moved on to it.
TakenLate(o) ==
  /\ job = Idle
  /\ IF obj_freelist # NULL
     THEN /\ o = obj_freelist
          /\ obj_freelist' = NULL
          /\ free' = <<>>
          /\ UNCHANGED unmade
     ELSE /\ o \in unmade
          /\ unmade' = unmade \ {o}
          /\ UNCHANGED <<obj_freelist, free>>

Taken(o) ==
  /\ job = Idle
  /\ IF obj_freelist # NULL
     THEN /\ o = obj_freelist
          /\ obj_freelist' = next[o]
          /\ free' = Tail(free)
          /\ UNCHANGED unmade
     ELSE /\ o \in unmade
          /\ unmade' = unmade \ {o}
          /\ UNCHANGED <<obj_freelist, free>>

InitChildList(f, o) == [l \in Lists |-> IF l[1] = o THEN NULL ELSE f[l]]

\* New()
New ==
  \E o \in Obj :
    /\ Taken(o)
    /\ LET L == Alone([first |-> NULL, next |-> next, prev |-> prev], o)
       IN  next' = L.next /\ prev' = L.prev
    /\ first' = InitChildList(first, o)
    /\ loose' = loose \union {o}
    /\ UNCHANGED <<job, list>>

\* The pointers become those of L, where l is the list that was changed.
Become(l, L) ==
  /\ next' = L.next /\ prev' = L.prev
  /\ first' = [first EXCEPT ![l] = L.first]

\* New(first)
NewTail(l) ==
  /\ l[1] \in Out
  /\ \E o \in Obj :
       /\ Taken(o)
       /\ LET L == InsertTail(LinksOf(l), o)
          IN  /\ next' = L.next /\ prev' = L.prev
              /\ first' = [InitChildList(first, o) EXCEPT ![l] = L.first]
       /\ list' = [list EXCEPT ![l] = Append(@, o)]
  /\ UNCHANGED <<job, loose>>

\* NewFront(first)
NewFront(l) ==
  /\ l[1] \in Out
  /\ \E o \in Obj :
       /\ Taken(o)
       /\ LET L == InsertHead(LinksOf(l), o)
          IN  /\ next' = L.next /\ prev' = L.prev
              /\ first' = [InitChildList(first, o) EXCEPT ![l] = L.first]
       /\ list' = [list EXCEPT ![l] = <<o>> \o @]
  /\ UNCHANGED <<job, loose>>

\* INSERT_CHILD: a standalone node is hung into a childlist.
InsertChild(l, o, at_tail) ==
  /\ job = Idle
  /\ o \in loose /\ l[1] \in Out \ Below(o) /\ l[2] = "child"
  /\ Become(l, IF at_tail THEN InsertTail(LinksOf(l), o) ELSE InsertHead(LinksOf(l), o))
  /\ list' = [list EXCEPT ![l] = IF at_tail THEN Append(@, o) ELSE <<o>> \o @]
  /\ loose' = loose \ {o}
  /\ UNCHANGED <<obj_freelist, unmade, job, free>>

\* Detach(first, obj)
Detach(l, o) ==
  /\ job = Idle
  /\ o \in Members(list[l])
  /\ LET L == Unlink(LinksOf(l), o)
     IN  Become(l, [L EXCEPT !.next[o] = NULL, !.prev[o] = NULL])
  /\ list' = [list EXCEPT ![l] = Without(@, o)]
  /\ loose' = loose \union {o}
  /\ UNCHANGED <<obj_freelist, unmade, job, free>>

-----------------------------------------------------------------------------
(***************************************************************************)
(* Delete and DeleteAll: ReleaseObject() of one node or of every node of a *)
(* list, then the node or the list joins the free list.  op says which.    *)
(***************************************************************************)
StartDelete(o) ==
  job' = [Idle EXCEPT !.op = "one", !.o = o, !.top = o, !.tops = <<o>>]

\* Delete(obj)
Delete(o) ==
  /\ job = Idle
  /\ o \in loose
  /\ StartDelete(o)
  /\ loose' = loose \ {o}
  /\ UNCHANGED <<mem, unmade, free, list>>

\* Delete(first, obj)
DeleteFrom(l, o) ==
  /\ job = Idle
  /\ o \in Members(list[l])
  /\ Become(l, Unlink(LinksOf(l), o))
  /\ StartDelete(o)
  /\ list' = [list EXCEPT ![l] = Without(@, o)]
  /\ UNCHANGED <<obj_freelist, unmade, free, loose>>

\* DeleteAll(first), which callers only use for a list that is not empty.
\* first is set to NULL in the end; nothing reads it before.
DeleteAll(l) ==
  /\ job = Idle
  /\ first[l] # NULL
  /\ job' = [Idle EXCEPT !.op = "all", !.o = first[l], !.top = first[l],
                         !.tops = list[l]]
  /\ first' = [first EXCEPT ![l] = NULL]
  /\ list' = [list EXCEPT ![l] = <<>>]
  /\ UNCHANGED <<obj_freelist, next, prev, unmade, free, loose>>

\* KnvNode::ReleaseObject: the metalist, then the childlist, then the node.
After(stage) == IF stage = "meta" THEN "child" ELSE "node"

Here == <<job.o, job.stage>>

ReleaseList ==
  /\ job.op # "idle" /\ job.stage # "node" /\ job.clist = NULL /\ job.fclist = NULL
  /\ IF first[Here] = NULL
     THEN job' = [job EXCEPT !.stage = After(@)] /\ UNCHANGED list
     ELSE /\ job' = [job EXCEPT !.clist = first[Here], !.c = first[Here], !.cq = list[Here]]
          /\ list' = [list EXCEPT ![Here] = <<>>]
  /\ UNCHANGED <<mem, unmade, free, loose>>

\* The list that starts at n is hung before the list that starts at cc; the
\* pointers are p.next, p.prev, and a NULL list is left alone.
Splice(p, n, cc) ==
  IF n = NULL THEN p
  ELSE [next |-> [p.next EXCEPT ![p.prev[n]] = cc],
        prev |-> IF cc = NULL THEN p.prev ELSE [p.prev EXCEPT ![n] = p.prev[cc]]]

Joined(n, cc) == IF n = NULL THEN cc ELSE n

\* Mutant: a node that has both lists loses its metas.
ReleaseKnvNodeLossy ==
  LET c == job.c
      m == first[<<c, "meta">>]
      n == first[<<c, "child">>]
      p == Splice([next |-> next, prev |-> prev], IF n = NULL THEN m ELSE n, job.cclist)
  IN  /\ c # NULL
      /\ next' = p.next /\ prev' = p.prev
      /\ first' = InitChildList(first, c)
      /\ job' = [job EXCEPT
           !.c = p.next[c],
           !.cclist = Joined(IF n = NULL THEN m ELSE n, @),
           !.ccq = (IF n = NULL THEN list[<<c, "meta">>] ELSE list[<<c, "child">>]) \o @]
      /\ list' = [list EXCEPT ![<<c, "meta">>] = <<>>, ![<<c, "child">>] = <<>>]
      /\ UNCHANGED <<obj_freelist, unmade, free, loose>>

\* One node of the level: its metas and then its children go before the nodes
\* collected for the next level, and ReleaseNode() leaves it without lists.
\* (child_num = -1 there; the list pointers are read no more.)
ReleaseKnvNode ==
  LET c  == job.c
      m  == first[<<c, "meta">>]
      n  == first[<<c, "child">>]
      p1 == Splice([next |-> next, prev |-> prev], m, job.cclist)
      p2 == Splice(p1, n, Joined(m, job.cclist))
  IN  /\ c # NULL
      /\ next' = p2.next /\ prev' = p2.prev
      /\ first' = InitChildList(first, c)
      /\ job' = [job EXCEPT !.c = p2.next[c],
                            !.cclist = Joined(n, Joined(m, @)),
                            !.ccq = list[<<c, "child">>] \o (list[<<c, "meta">>] \o @)]
      /\ list' = [list EXCEPT ![<<c, "meta">>] = <<>>, ![<<c, "child">>] = <<>>]
      /\ UNCHANGED <<obj_freelist, unmade, free, loose>>

\* Mutant: the head of the longer list keeps the tail pointer it had.
ReleaseLevelStale ==
  /\ job.clist # NULL /\ job.c = NULL
  /\ next' = [next EXCEPT ![prev[job.clist]] = job.fclist]
  /\ UNCHANGED prev
  /\ job' = [job EXCEPT !.fclist = job.clist, !.fq = job.cq \o @,
                        !.clist = job.cclist, !.c = job.cclist, !.cq = job.ccq,
                        !.cclist = NULL, !.ccq = <<>>]
  /\ UNCHANGED <<obj_freelist, first, unmade, free, list, loose>>

\* The end of a level: it goes before the levels that are done.
ReleaseLevel ==
  /\ job.clist # NULL /\ job.c = NULL
  /\ LET p == Splice([next |-> next, prev |-> prev], job.clist, job.fclist)
     IN  next' = p.next /\ prev' = p.prev
  /\ job' = [job EXCEPT !.fclist = job.clist, !.fq = job.cq \o @,
                        !.clist = job.cclist, !.c = job.cclist, !.cq = job.ccq,
                        !.cclist = NULL, !.ccq = <<>>]
  /\ UNCHANGED <<obj_freelist, first, unmade, free, list, loose>>

\* AddToFreeList(obj): q is the list that starts at o.
AddToFreeList(o, q) ==
  /\ next' = [next EXCEPT ![prev[o]] = obj_freelist]
  /\ obj_freelist' = o
  /\ free' = q \o free

\* The end of ReleaseKnvNodeList.
ReleaseListEnd ==
  /\ job.clist = NULL /\ job.fclist # NULL
  /\ AddToFreeList(job.fclist, job.fq)
  /\ first' = [first EXCEPT ![Here] = NULL]
  /\ job' = [job EXCEPT !.fclist = NULL, !.fq = <<>>, !.stage = After(@)]
  /\ UNCHANGED <<prev, unmade, list, loose>>

\* Mutant: on to the node after the first one, always.
ReleaseNodeAgain ==
  /\ job.op # "idle" /\ job.stage = "node"
  /\ IF job.op = "all" /\ next[job.o] # NULL
     THEN /\ job' = [job EXCEPT !.o = next[job.top], !.stage = "meta"]
          /\ UNCHANGED <<obj_freelist, next, free>>
     ELSE /\ next' = [next EXCEPT ![job.o] = obj_freelist]
          /\ obj_freelist' = job.top
          /\ free' = job.tops \o free
          /\ job' = Idle
  /\ UNCHANGED <<prev, first, unmade, list, loose>>

\* The end of ReleaseObject: on to the next node of the list, if DeleteAll
\* has one, or to the free list.
ReleaseNode ==
  /\ job.op # "idle" /\ job.stage = "node"
  /\ IF job.op = "all" /\ next[job.o] # NULL
     THEN /\ job' = [job EXCEPT !.o = next[job.o], !.stage = "meta"]
          /\ UNCHANGED <<obj_freelist, next, free>>
     ELSE /\ IF job.op = "all"
             THEN AddToFreeList(job.top, job.tops)
             ELSE /\ next' = [next EXCEPT ![job.o] = obj_freelist]
                  /\ obj_freelist' = job.o
                  /\ free' = <<job.o>> \o free
          /\ job' = Idle
  /\ UNCHANGED <<prev, first, unmade, list, loose>>

Release == ReleaseList \/ ReleaseKnvNode \/ ReleaseLevel \/ ReleaseListEnd \/ ReleaseNode

Next ==
  \/ New
  \/ \E l \in Lists : NewTail(l) \/ NewFront(l) \/ DeleteAll(l)
  \/ \E o \in Obj : Delete(o)
  \/ \E l \in Lists, o \in Obj : Detach(l, o) \/ DeleteFrom(l, o)
  \/ \E l \in Lists, o \in Obj, b \in BOOLEAN : InsertChild(l, o, b)
  \/ Release

Spec == Init /\ [][Next]_vars

\* A call in progress goes on: nothing in it waits for anything.
FairSpec == Spec /\ WF_vars(Release)

-----------------------------------------------------------------------------
\* Types; a call in progress always has a node to release.
TypeOK ==
  /\ obj_freelist \in Obj \union {NULL}
  /\ next \in [Obj -> Obj \union {NULL}] /\ prev \in [Obj -> Obj \union {NULL}]
  /\ first \in [Lists -> Obj \union {NULL}]
  /\ unmade \subseteq Obj /\ loose \subseteq Obj
  /\ free \in Seq(Obj) /\ list \in [Lists -> Seq(Obj)]
  /\ job.op \in {"idle", "one", "all"} /\ job.stage \in Kinds \union {"node"}
  /\ job.op # "idle" => {job.o, job.top} \subseteq Obj
  /\ {job.o, job.top, job.clist, job.c, job.cclist, job.fclist} \subseteq Obj \union {NULL}
  /\ {job.tops, job.cq, job.ccq, job.fq} \subseteq Seq(Obj)

(***************************************************************************)
(* Nothing is lost and nothing is handed out twice: at any time, also half *)
(* way through the release of a tree, every object is at one place only.   *)
(***************************************************************************)
Elsewhere ==
  [unmade |-> unmade, loose |-> loose, free |-> Members(free), top |-> Members(job.tops),
   level |-> Members(job.cq), below |-> Members(job.ccq), done |-> Members(job.fq)]

Places == Lists \union
  ({NULL} \X {"unmade", "loose", "free", "top", "level", "below", "done"})

At == [x \in Places |-> IF x \in Lists THEN Members(list[x]) ELSE Elsewhere[x[2]]]

\* The sets of A are disjoint and hold all objects.
IsPartition(A) ==
  \A o \in Obj : \E x \in Places : \A y \in Places : o \in A[y] <=> y = x

OnePlace == IsPartition(At)

\* The free list is linked from its head to NULL and holds exactly the objects
\* that were given back (obj_pool.h: Delete, DeleteAll, AddToFreeList), none of
\* which still owns a list.
FreeListIntact ==
  /\ Distinct(free) /\ Linked(obj_freelist, next, free, NULL)
  /\ \A o \in Members(free) \union unmade, k \in Kinds : list[<<o, k>>] = <<>>

\* Every list that a caller can reach is linked in both directions, with the
\* last node behind first->prev, also while another tree is released.  (The list
\* that ReleaseKnvNodeList was called for is in its hands.)
ListsIntact ==
  \A l \in Lists :
    (l = Here => job.clist = NULL /\ job.fclist = NULL) => ListOK(LinksOf(l), list[l])

\* The objects of q, from head through f to NULL, with the last one behind g of
\* the first.
IsChain(f, g, head, q) ==
  /\ Distinct(q) /\ Linked(head, f, q, NULL)
  /\ q # <<>> => g[head] = q[Len(q)]

Chain(head, q) == IsChain(next, prev, head, q)

\* ReleaseKnvNodeList keeps three lists in the pointers of the lists it takes
\* apart: the level it walks, the level below, and the levels that are done.
\* Each can be walked to its end, and its last node is found from the first one
\* (inside, prev is no longer kept).  The same holds of the list of DeleteAll.
ReleaseIntact ==
  /\ Chain(job.clist, job.cq) /\ Chain(job.cclist, job.ccq) /\ Chain(job.fclist, job.fq)
  /\ job.op = "all" => Chain(job.top, job.tops)

\* The pointers say what they should, at every step of a release: in the free
\* list, in the lists of the callers and in those of the release.
LinksIntact == TypeOK /\ FreeListIntact /\ ListsIntact /\ ReleaseIntact

(***************************************************************************)
(* The inductive invariant: besides the above, how far a release has come. *)
(***************************************************************************)
Ptr == Obj \union {NULL}

Jobs == [op : {"idle", "one", "all"}, o : Ptr, top : Ptr, stage : Kinds \union {"node"},
         clist : Ptr, c : Ptr, cclist : Ptr, fclist : Ptr,
         tops : Seq(Obj), cq : Seq(Obj), ccq : Seq(Obj), fq : Seq(Obj)]

\* The object o has no list, f being the lists.
Barren(f, o) == \A k \in Kinds : f[<<o, k>>] = <<>>

\* The walk through q has come to x: the nodes before it own nothing any more.
WalkedTo(f, q, x) ==
  \E k \in 1 .. Len(q) + 1 : /\ x = IF k <= Len(q) THEN q[k] ELSE NULL
                             /\ \A i \in 1 .. k - 1 : Barren(f, q[i])

Working == job.clist # NULL \/ job.fclist # NULL

Progress ==
  /\ job.op = "idle" => job = Idle
  /\ job.op # "idle" => /\ job.o # NULL /\ WalkedTo(list, job.tops, job.o)
                        /\ job.stage # "meta" => list[<<job.o, "meta">>] = <<>>
                        /\ job.stage = "node" => list[<<job.o, "child">>] = <<>> /\ ~Working
                        /\ Working => list[Here] = <<>>
  /\ job.op = "one" => job.tops = <<job.o>>
  /\ job.op = "all" => job.top # NULL
  /\ job.clist = NULL => job.cclist = NULL
  /\ WalkedTo(list, job.cq, job.c)
  /\ \A o \in Members(job.fq) : Barren(list, o)

IInv == LinksIntact /\ job \in Jobs /\ Progress /\ OnePlace

\* The pool does what its callers expect of one (PoolSpec), although a call of
\* Delete gives back the nodes of a tree in several portions.
Releasing == UNION {Members(q) : q \in {job.tops, job.cq, job.ccq, job.fq}}
Pool == INSTANCE PoolSpec WITH pooled <- free, out <- Out \union Releasing
PoolRefinement == Pool!Spec

\* Every Delete and DeleteAll returns: the levels of a tree come to an end.
ReleaseReturns == (job # Idle) ~> (job = Idle)
=============================================================================
