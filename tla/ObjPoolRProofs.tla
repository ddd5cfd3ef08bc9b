--------------------------- MODULE ObjPoolRProofs ---------------------------
(***************************************************************************)
(* With one thread that calls New* and any number of threads that put      *)
(* objects back, the lock-free pool of obj_pool_r.h is safe: for every     *)
(* number of threads and objects.                                          *)
(***************************************************************************)
EXTENDS ObjPoolR, ObjListProofs

-----------------------------------------------------------------------------
\* Initially nothing exists.
LEMMA InitIInv == Init => IInv
<1> SUFFICES ASSUME Init PROVE IInv
  OBVIOUS
<1>1. TypeOK
  BY EmptySeq DEF Init, TypeOK, PcNew, PcPush
<1>2. ExclusiveOwnership
  BY EmptySeq DEF Init, ExclusiveOwnership, Mine, Carried
<1>3. FreeListIntact
  BY EmptySeq DEF Init, FreeListIntact, Linked
<1>4. HeadFresh
  BY DEF Init, HeadFresh, HeadFreshAt, PcNew
<1>5. PushShape
  BY DEF Init, PushShape, PushShapeAt, PcPush
<1>6. ListsIntact
  BY EmptySeq DEF Init, ListsIntact, ListAt, ListOK, Linked, LinksOf
<1> QED BY <1>1, <1>2, <1>3, <1>4, <1>5, <1>6 DEF IInv

-----------------------------------------------------------------------------
(***************************************************************************)
(* Steps that only move a thread inside its call: the heap and the         *)
(* ownership are as before.                                                *)
(***************************************************************************)

\* The parts of the invariant that do not mention where the threads are.
LEMMA QuietStep ==
  ASSUME IInv, NEW t \in Threads,
         UNCHANGED <<obj_freelist, next, prev, first, free, unmade, held, list, push>>,
         \A u \in Threads \ {t} : pc'[u] = pc[u] /\ op'[u] = op[u] /\ o'[u] = o[u] /\ n'[u] = n[u],
         pc[t] # "newOut", pc'[t] # "newOut"
  PROVE  /\ ExclusiveOwnership'
         /\ FreeListIntact'
         /\ (op[t] # "DeleteAll" \/ op'[t] = "DeleteAll") => ListsIntact'
<1>1. \A u \in Threads : Carried(u)' = Carried(u)
  BY DEF Carried
<1>2. \A u \in Threads : Mine(u)' = Mine(u)
  BY <1>1 DEF Mine
<1>3. ExclusiveOwnership'
  BY <1>1, <1>2 DEF IInv, ExclusiveOwnership
<1>4. FreeListIntact'
  BY DEF IInv, FreeListIntact
<1>5. ASSUME op[t] # "DeleteAll" \/ op'[t] = "DeleteAll" PROVE ListsIntact'
  <2> SUFFICES ASSUME NEW u \in Threads, op'[u] # "DeleteAll"
               PROVE  ListOK(LinksOf(u), list[u])'
    BY DEF ListsIntact, ListAt
  <2>1. op[u] # "DeleteAll"
    BY <1>5
  <2> QED BY <2>1 DEF IInv, ListsIntact, ListAt, LinksOf
<1> QED BY <1>3, <1>4, <1>5

\* Entering New*, New(first), NewFront(first) keeps the invariant.
LEMMA NewCallIInv ==
  ASSUME IInv, NEW t \in Threads, NEW what \in NewOps, NewCall(t, what) PROVE IInv'
<1>1. TypeOK'
  BY DEF IInv, TypeOK, NewCall, shared, ghosts, PcNew, PcPush
<1>2. pc[t] = "idle" /\ op[t] = "none" /\ pc'[t] = "newRead"
  BY DEF IInv, TypeOK, NewCall
<1>3. ExclusiveOwnership' /\ FreeListIntact' /\ ListsIntact'
  BY <1>2, QuietStep DEF IInv, TypeOK, NewCall, shared, ghosts
<1>4. HeadFresh'
  BY DEF IInv, TypeOK, HeadFresh, HeadFreshAt, NewCall, shared, ghosts, PcNew
<1>5. PushShape'
  BY DEF IInv, TypeOK, PushShape, PushShapeAt, PushTail, NewCall, shared, ghosts, PcPush, NewOps, PushOps
<1> QED BY <1>1, <1>3, <1>4, <1>5 DEF IInv

\* Reading the head (lines 65, 77): the object read is in the free list.
LEMMA NewReadIInv ==
  ASSUME IInv, NEW t \in Threads, NewRead(t) PROVE IInv'
<1>1. TypeOK'
  BY DEF IInv, TypeOK, NewRead, shared, ghosts, PcNew, PcPush
<1>2. ExclusiveOwnership' /\ FreeListIntact' /\ ListsIntact'
  BY QuietStep DEF IInv, TypeOK, NewRead, shared, ghosts
<1>3. obj_freelist # NULL => obj_freelist \in Members(free)
  <2>1. obj_freelist # NULL => free # <<>> /\ obj_freelist = free[1]
    BY DEF IInv, FreeListIntact, Linked
  <2> QED BY <2>1, MembersTail DEF IInv, TypeOK, FreeListIntact
<1>4. HeadFresh'
  BY <1>3 DEF IInv, TypeOK, HeadFresh, HeadFreshAt, NewRead, shared, ghosts, PcNew
<1>5. PushShape'
  BY DEF IInv, TypeOK, PushShape, PushShapeAt, PushTail, NewRead, shared, ghosts, PcPush, PcNew
<1> QED BY <1>1, <1>2, <1>4, <1>5 DEF IInv

\* Reading o->next (line 68): the object is still in the free list.
LEMMA NewNextIInv ==
  ASSUME IInv, NEW t \in Threads, NewNext(t) PROVE IInv'
<1>1. TypeOK'
  BY DEF IInv, TypeOK, NewNext, shared, ghosts, PcNew, PcPush
<1>2. ExclusiveOwnership' /\ FreeListIntact' /\ ListsIntact'
  BY QuietStep DEF IInv, TypeOK, NewNext, shared, ghosts
<1>4. HeadFresh'
  BY DEF IInv, TypeOK, HeadFresh, HeadFreshAt, NewNext, shared, ghosts, PcNew
<1>5. PushShape'
  BY DEF IInv, TypeOK, PushShape, PushShapeAt, PushTail, NewNext, shared, ghosts, PcPush, PcNew
<1> QED BY <1>1, <1>2, <1>4, <1>5 DEF IInv

\* Reading the head before a push (line 101).
LEMMA PushReadIInv ==
  ASSUME IInv, NEW t \in Threads, PushRead(t) PROVE IInv'
<1>1. TypeOK'
  BY DEF IInv, TypeOK, PushRead, shared, ghosts, PcNew, PcPush
<1>2. ExclusiveOwnership' /\ FreeListIntact' /\ ListsIntact'
  BY QuietStep DEF IInv, TypeOK, PushRead, shared, ghosts
<1>4. HeadFresh'
  BY DEF IInv, TypeOK, HeadFresh, HeadFreshAt, PushRead, shared, ghosts, PcNew
<1>5. PushShape'
  BY DEF IInv, TypeOK, PushShape, PushShapeAt, PushTail, PushRead, shared, ghosts, PcPush, PcNew
<1> QED BY <1>1, <1>2, <1>4, <1>5 DEF IInv

\* operator new failed (lines 83-90): nothing was taken.
LEMMA NewFailIInv ==
  ASSUME IInv, NEW t \in Threads, NewFail(t) PROVE IInv'
<1>0. pc[t] = "newHeap" /\ op[t] \in NewOps /\ pc'[t] = "idle" /\ op'[t] = "none" /\ push[t] = <<>>
  BY DEF IInv, TypeOK, PushShape, PushShapeAt, NewFail, Return, PcNew, PcPush
<1>1. TypeOK'
  BY DEF IInv, TypeOK, NewFail, Return, shared, ghosts, PcNew, PcPush
<1>2. ExclusiveOwnership' /\ FreeListIntact' /\ ListsIntact'
  BY <1>0, QuietStep DEF IInv, TypeOK, NewFail, Return, shared, ghosts, NewOps
<1>4. HeadFresh'
  BY DEF IInv, TypeOK, HeadFresh, HeadFreshAt, NewFail, Return, shared, ghosts, PcNew
<1>5. PushShape'
  BY <1>0 DEF IInv, TypeOK, PushShape, PushShapeAt, PushTail, NewFail, Return, shared, ghosts, PcPush
<1> QED BY <1>1, <1>2, <1>4, <1>5 DEF IInv

-----------------------------------------------------------------------------
(***************************************************************************)
(* Steps that write the heap.  They write only objects of the thread that  *)
(* takes them, so the others' lists and pushes are framed.                 *)
(***************************************************************************)
\* A thread whose own objects and locals are not written keeps its list and
\* its push (used for every step of another thread).
LEMMA OthersFrame ==
  ASSUME IInv, NEW u \in Threads,
         \A x \in Mine(u) : next'[x] = next[x] /\ prev'[x] = prev[x],
         pc'[u] = pc[u], op'[u] = op[u], o'[u] = o[u], obj'[u] = obj[u],
         first'[u] = first[u], list'[u] = list[u], push'[u] = push[u]
  PROVE  PushShapeAt(u)' /\ ListAt(u)'
<1>0. list[u] \in Seq(Obj) /\ push[u] \in Seq(Obj)
  BY DEF IInv, TypeOK
<1>1. ListAt(u)'
  <2> SUFFICES ASSUME op[u] # "DeleteAll" PROVE ListOK(LinksOf(u)', list[u])
    BY DEF ListAt
  <2>1. ListOK(LinksOf(u), list[u])
    BY DEF IInv, ListsIntact, ListAt
  <2>2. LinksOf(u)'.first = LinksOf(u).first /\ SameLinks(LinksOf(u), LinksOf(u)', Members(list[u]))
    BY DEF LinksOf, SameLinks, Mine
  <2> QED BY <1>0, <2>1, <2>2, ListFrame
<1>2. PushShapeAt(u)'
  <2>0. PushShapeAt(u)
    BY DEF IInv, PushShape
  <2>1. CASE pc[u] \in PcPush
    <3>1. push[u] # <<>> /\ push[u][Len(push[u])] = PushTail(u)
      BY <2>0, <2>1 DEF PushShapeAt
    <3>2. PushTail(u) \in Members(push[u]) /\ obj[u] \in Members(push[u])
      <4>1. obj[u] = push[u][1]
        BY <2>0, <2>1 DEF PushShapeAt, Linked
      <4> QED BY <4>1, <3>1, <1>0 DEF Members
    <3>3. PushTail(u)' = PushTail(u)
      BY <3>2 DEF PushTail, Mine
    <3>4. next'[PushTail(u)] = next[PushTail(u)]
      BY <3>2 DEF Mine
    <3>5. Linked(obj[u], next', push[u], next[PushTail(u)])
      <4>1. Linked(obj[u], next, push[u], next[PushTail(u)])
        BY <2>0, <2>1 DEF PushShapeAt
      <4>2. \A x \in Members(push[u]) : next'[x] = next[x]
        BY DEF Mine
      <4> QED BY <4>1, <4>2, <1>0, LinkedFrame
    <3> QED BY <2>0, <2>1, <3>3, <3>4, <3>5 DEF PushShapeAt
  <2>2. CASE pc[u] \notin PcPush
    <3>1. pc[u] # "pushCas"
      BY <2>2 DEF PcPush
    <3> QED BY <2>0, <2>2, <3>1 DEF PushShapeAt
  <2> QED BY <2>1, <2>2
<1> QED BY <1>1, <1>2

\* The free list and a popper in the middle of New* do not notice writes to
\* objects outside the free list.
LEMMA FreeFrame ==
  ASSUME IInv, \A x \in Members(free) : next'[x] = next[x],
         obj_freelist' = obj_freelist, free' = free
  PROVE  /\ FreeListIntact'
         /\ \A u \in Threads : pc'[u] = pc[u] /\ o'[u] = o[u] /\ n'[u] = n[u] => HeadFreshAt(u)'
<1>1. FreeListIntact'
  <2>1. free \in Seq(Obj) /\ Distinct(free) /\ Linked(obj_freelist, next, free, NULL)
    BY DEF IInv, TypeOK, FreeListIntact
  <2>2. Linked(obj_freelist, next', free, NULL)
    BY <2>1, LinkedFrame
  <2> QED BY <2>1, <2>2 DEF FreeListIntact
<1>2. ASSUME NEW u \in Threads, pc'[u] = pc[u], o'[u] = o[u], n'[u] = n[u]
      PROVE  HeadFreshAt(u)'
  BY <1>2 DEF IInv, HeadFresh, HeadFreshAt
<1> QED BY <1>1, <1>2

\* The CAS of New* (line 69): the head it removes is the object it read, and
\* the head it installs is the second object of the free list.
LEMMA NewCasIInv ==
  ASSUME IInv, SinglePopper, NEW t \in Threads, NewCas(t) PROVE IInv'
<1>1. TypeOK'
  <2>1. free # <<>> => Tail(free) \in Seq(Obj)
    BY DEF IInv, TypeOK
  <2> QED BY <2>1 DEF IInv, TypeOK, NewCas, PcNew, PcPush
<1>2. t \in Poppers /\ o[t] \in Members(free) /\ n[t] = next[o[t]] /\ pc[t] = "newCas"
  BY DEF IInv, HeadFresh, HeadFreshAt, NewCas, PcNew
<1>3. PushShape'
  BY DEF IInv, TypeOK, PushShape, PushShapeAt, PushTail, NewCas, PcPush
<1>4. ListsIntact'
  BY DEF IInv, TypeOK, ListsIntact, ListAt, LinksOf, NewCas
<1>5. CASE obj_freelist # o[t]
  <2>1. ExclusiveOwnership' /\ FreeListIntact'
    BY <1>5, QuietStep DEF IInv, TypeOK, NewCas
  <2>2. HeadFresh'
    BY <1>5 DEF IInv, TypeOK, HeadFresh, HeadFreshAt, NewCas, PcNew
  <2> QED BY <1>1, <1>3, <1>4, <2>1, <2>2 DEF IInv
<1>6. CASE obj_freelist = o[t]
  <2>1. free \in Seq(Obj) /\ Distinct(free) /\ Linked(obj_freelist, next, free, NULL)
    BY DEF IInv, TypeOK, FreeListIntact
  <2>2. free # <<>>
    BY <1>2, EmptySeq
  <2>3. free' = Tail(free) /\ obj_freelist' = n[t] /\ pc' = [pc EXCEPT ![t] = "newOut"]
    BY <1>6, <2>2 DEF NewCas
  <2>4. obj_freelist = free[1] /\ Linked(next[obj_freelist], next, Tail(free), NULL)
    BY <2>1, <2>2, LinkedTail
  <2>5. Distinct(Tail(free)) /\ Members(Tail(free)) = Members(free) \ {o[t]}
    BY <2>1, <2>2, <2>4, <1>6, MembersTail
  <2>6. FreeListIntact'
    BY <1>2, <1>6, <2>3, <2>4, <2>5 DEF FreeListIntact, NewCas
  <2>7. HeadFresh'
    <3> SUFFICES ASSUME NEW u \in Threads PROVE HeadFreshAt(u)'
      BY DEF HeadFresh
    <3>1. CASE u = t
      BY <3>1, <1>2, <2>3 DEF IInv, TypeOK, HeadFreshAt, PcNew
    <3>2. CASE u # t
      <4>1. pc[u] \notin PcNew
        BY <3>2, <1>2 DEF SinglePopper, IInv, HeadFresh, HeadFreshAt
      <4>2. pc'[u] \notin PcNew
        BY <3>2, <4>1, <2>3 DEF IInv, TypeOK
      <4> QED BY <4>2 DEF HeadFreshAt, PcNew
    <3> QED BY <3>1, <3>2
  <2>8. ExclusiveOwnership'
    <3>1. /\ Carried(t)' = {o[t]} /\ Carried(t) = {}
          /\ \A u \in Threads \ {t} : Carried(u)' = Carried(u)
      BY <1>2, <2>3 DEF Carried, NewCas, IInv, TypeOK
    <3>2. /\ Mine(t)' = Mine(t) \union {o[t]}
          /\ \A u \in Threads \ {t} : Mine(u)' = Mine(u)
      BY <3>1 DEF Mine, NewCas
    <3>3. Members(free)' = Members(free) \ {o[t]}
      BY <2>3, <2>5
    <3>4. \A u \in Threads : o[t] \notin Mine(u)
      BY <1>2 DEF IInv, ExclusiveOwnership
    <3>5. o[t] \notin unmade
      BY <1>2 DEF IInv, ExclusiveOwnership
    <3>6. UNCHANGED <<held, list, push, unmade>>
      BY DEF NewCas
    <3>7. \A u \in Threads : o[t] \notin held[u] /\ o[t] \notin Members(list[u]) /\ o[t] \notin Members(push[u])
      BY <3>4 DEF Mine
    <3> QED BY <3>1, <3>2, <3>3, <3>4, <3>5, <3>6, <3>7 DEF IInv, ExclusiveOwnership
  <2> QED BY <1>1, <1>3, <1>4, <2>6, <2>7, <2>8 DEF IInv
<1> QED BY <1>5, <1>6

\* operator new (lines 81-85) returns an object nobody has.
LEMMA NewHeapIInv ==
  ASSUME IInv, NEW t \in Threads, NewHeap(t) PROVE IInv'
<1>0. PICK x \in unmade : unmade' = unmade \ {x} /\ o' = [o EXCEPT ![t] = x]
  BY DEF NewHeap
<1>1. TypeOK'
  BY <1>0 DEF IInv, TypeOK, NewHeap, shared, PcNew, PcPush
<1>2. FreeListIntact'
  BY DEF IInv, FreeListIntact, NewHeap, shared
<1>3. HeadFresh'
  BY DEF IInv, TypeOK, HeadFresh, HeadFreshAt, NewHeap, shared, PcNew
<1>4. PushShape'
  BY DEF IInv, TypeOK, PushShape, PushShapeAt, PushTail, NewHeap, shared, PcPush
<1>5. ListsIntact'
  BY DEF IInv, TypeOK, ListsIntact, ListAt, LinksOf, NewHeap, shared
<1>6. ExclusiveOwnership'
  <2>1. /\ Carried(t)' = {x} /\ Carried(t) = {}
        /\ \A u \in Threads \ {t} : Carried(u)' = Carried(u)
    BY <1>0 DEF Carried, NewHeap, IInv, TypeOK
  <2>2. /\ Mine(t)' = Mine(t) \union {x}
        /\ \A u \in Threads \ {t} : Mine(u)' = Mine(u)
    BY <2>1 DEF Mine, NewHeap
  <2>3. x \notin Members(free) /\ \A u \in Threads : x \notin Mine(u)
    BY <1>0 DEF IInv, ExclusiveOwnership
  <2>4. UNCHANGED <<held, list, push, free>>
    BY DEF NewHeap
  <2>5. \A u \in Threads : x \notin held[u] /\ x \notin Members(list[u]) /\ x \notin Members(push[u])
    BY <2>3 DEF Mine
  <2> QED BY <1>0, <2>1, <2>2, <2>3, <2>4, <2>5 DEF IInv, ExclusiveOwnership
<1> QED BY <1>1, <1>2, <1>3, <1>4, <1>5, <1>6 DEF IInv

\* Linking the object New* returns (lines 71-75, 118-133, 162-175).
LEMMA NewOutIInv ==
  ASSUME IInv, NEW t \in Threads, NewOut(t) PROVE IInv'
<1> DEFINE x == o[t]
           L == LinksOf(t)
           M == NewLinks(t)
           q == list'[t]
<1>0. /\ pc[t] = "newOut" /\ op[t] \in NewOps /\ x \in Obj
      /\ L \in Links /\ list[t] \in Seq(Obj) /\ push[t] = <<>> /\ x \in Mine(t)
  BY DEF IInv, TypeOK, PushShape, PushShapeAt, NewOut, PcNew, PcPush, LinksOf, Links, Mine, Carried
<1>1. x \notin Members(list[t]) /\ x \notin held[t] /\ x \notin Members(push[t])
  BY <1>0 DEF IInv, ExclusiveOwnership, Carried
<1>2. ListOK(L, list[t])
  BY <1>0 DEF IInv, ListsIntact, ListAt, NewOps
<1>3. /\ first' = [first EXCEPT ![t] = M.first] /\ next' = M.next /\ prev' = M.prev
      /\ pc' = [pc EXCEPT ![t] = "idle"] /\ op' = [op EXCEPT ![t] = "none"]
      /\ o' = [o EXCEPT ![t] = NULL] /\ n' = [n EXCEPT ![t] = NULL] /\ obj' = [obj EXCEPT ![t] = NULL]
      /\ UNCHANGED <<obj_freelist, unmade, free, push>>
  BY DEF NewOut, SetLinks, Return
<1> HIDE DEF M
<1>4. /\ M \in Links /\ ListOK(M, q) /\ SameLinks(L, M, Obj \ (Members(list[t]) \union {x}))
      /\ q \in Seq(Obj)
      /\ \/ op[t] = "New" /\ q = list[t] /\ held' = [held EXCEPT ![t] = @ \union {x}] /\ list' = list
         \/ op[t] # "New" /\ Members(q) = Members(list[t]) \union {x} /\ held' = held
            /\ list' = [list EXCEPT ![t] = q]
  <2>1. CASE op[t] = "New"
    <3>1. M = Alone(L, x) /\ q = list[t] /\ list' = list /\ held' = [held EXCEPT ![t] = @ \union {x}]
      BY <2>1 DEF NewOut, M, NewLinks
    <3>2. M \in Links /\ M.first = L.first /\ SameLinks(L, M, Obj \ {x})
      BY <3>1, <1>0 DEF Alone, Links, SameLinks
    <3>3. SameLinks(L, M, Members(list[t]))
      <4>1. Members(list[t]) \subseteq Obj \ {x}
        BY <1>0, <1>1 DEF Members
      <4> QED BY <4>1, <3>2 DEF SameLinks
    <3>4. ListOK(M, list[t])
      BY <3>2, <3>3, <1>0, <1>2, ListFrame
    <3> QED BY <2>1, <3>1, <3>2, <3>4, <1>0 DEF SameLinks
  <2>2. CASE op[t] = "NewTail"
    <3>1. M = InsertTail(L, x) /\ q = Append(list[t], x) /\ held' = held
          /\ list' = [list EXCEPT ![t] = q]
      BY <2>2 DEF NewOut, M, NewLinks, IInv, TypeOK
    <3>2. /\ InsertTail(L, x) \in Links /\ ListOK(InsertTail(L, x), Append(list[t], x))
          /\ SameLinks(L, InsertTail(L, x), Obj \ (Members(list[t]) \union {x}))
      BY <1>0, <1>1, <1>2, InsertTailOK
    <3>3. Append(list[t], x) = list[t] \o <<x>> /\ Append(list[t], x) \in Seq(Obj)
      BY <1>0
    <3>4. Members(Append(list[t], x)) = Members(list[t]) \union {x}
      <4>1. Members(<<x>>) = {x} /\ <<x>> \in Seq(Obj)
        BY <1>0, SingletonSeq
      <4>2. Members(list[t] \o <<x>>) = Members(list[t]) \union Members(<<x>>)
        BY <1>0, <4>1, MembersConcat
      <4> QED BY <3>3, <4>1, <4>2
    <3> QED BY <2>2, <3>1, <3>2, <3>3, <3>4
  <2>3. CASE op[t] = "NewFront"
    <3>1. M = InsertHead(L, x) /\ q = <<x>> \o list[t] /\ held' = held
          /\ list' = [list EXCEPT ![t] = q]
      BY <2>3 DEF NewOut, M, NewLinks, IInv, TypeOK
    <3>2. /\ InsertHead(L, x) \in Links /\ ListOK(InsertHead(L, x), <<x>> \o list[t])
          /\ SameLinks(L, InsertHead(L, x), Obj \ (Members(list[t]) \union {x}))
      BY <1>0, <1>1, <1>2, InsertHeadOK
    <3>3. <<x>> \o list[t] \in Seq(Obj)
      BY <1>0
    <3>4. Members(<<x>> \o list[t]) = {x} \union Members(list[t])
      <4>1. Members(<<x>>) = {x} /\ <<x>> \in Seq(Obj)
        BY <1>0, SingletonSeq
      <4>2. Members(<<x>> \o list[t]) = Members(<<x>>) \union Members(list[t])
        BY <1>0, <4>1, MembersConcat
      <4> QED BY <4>1, <4>2
    <3> QED BY <2>3, <3>1, <3>2, <3>3, <3>4
  <2> QED BY <1>0, <2>1, <2>2, <2>3 DEF NewOps
<1>5. TypeOK'
  <2>1. held' \in [Threads -> SUBSET Obj] /\ list' \in [Threads -> Seq(Obj)]
    <3>1. held \in [Threads -> SUBSET Obj] /\ list \in [Threads -> Seq(Obj)]
      BY DEF IInv, TypeOK
    <3> HIDE DEF x, q
    <3>2. held[t] \union {x} \subseteq Obj
      BY <1>0, <3>1
    <3> QED BY <1>4, <3>1, <3>2
  <2>2. first' \in [Threads -> Obj \union {NULL}] /\ next' \in [Obj -> Obj \union {NULL}]
        /\ prev' \in [Obj -> Obj \union {NULL}]
    BY <1>3, <1>4 DEF IInv, TypeOK, Links
  <2> HIDE DEF x, L, q
  <2>3. obj_freelist' \in Obj \union {NULL} /\ unmade' \in SUBSET Obj /\ free' \in Seq(Obj)
        /\ push' \in [Threads -> Seq(Obj)]
    BY <1>3 DEF IInv, TypeOK
  <2> QED BY <1>3, <2>1, <2>2, <2>3 DEF IInv, TypeOK, PcNew, PcPush
<1>6. Mine(t)' = Mine(t) /\ Carried(t)' = {} /\ \A u \in Threads \ {t} : Mine(u)' = Mine(u) /\ Carried(u)' = Carried(u)
  <2>1. Carried(t)' = {} /\ Carried(t) = {x} /\ \A u \in Threads \ {t} : Carried(u)' = Carried(u)
    BY <1>0, <1>3 DEF Carried, IInv, TypeOK
  <2>2. \A u \in Threads \ {t} : held'[u] = held[u] /\ list'[u] = list[u] /\ push'[u] = push[u]
    BY <1>3, <1>4 DEF IInv, TypeOK
  <2>3. held'[t] \union Members(list'[t]) = held[t] \union Members(list[t]) \union {x}
    BY <1>4 DEF IInv, TypeOK
  <2> QED BY <2>1, <2>2, <2>3, <1>3 DEF Mine
<1>7. \A u \in Threads \ {t} : \A y \in Mine(u) : y \in Obj \ (Members(list[t]) \union {x})
  <2>1. \A u \in Threads \ {t} : \A y \in Mine(u) : y \notin Mine(t)
    BY DEF IInv, ExclusiveOwnership
  <2>2. Members(list[t]) \union {x} \subseteq Mine(t)
    BY <1>0 DEF Mine
  <2>3. \A u \in Threads : Mine(u) \subseteq Obj
    BY DEF Mine, Carried, IInv, TypeOK, Members, PcNew
  <2> QED BY <2>1, <2>2, <2>3
<1>8. \A y \in Members(free) : y \in Obj \ (Members(list[t]) \union {x})
  <2>1. Members(list[t]) \union {x} \subseteq Mine(t)
    BY <1>0 DEF Mine
  <2>2. Members(free) \subseteq Obj
    BY DEF IInv, TypeOK, Members
  <2> QED BY <2>1, <2>2 DEF IInv, ExclusiveOwnership
<1>9. ExclusiveOwnership'
  <2>1. held'[t] \intersect Members(list'[t]) = {}
    BY <1>0, <1>1, <1>4 DEF IInv, TypeOK, ExclusiveOwnership
  <2>2. Members(push[t]) = {}
    BY <1>0, EmptySeq
  <2>3. \A u \in Threads \ {t} : held'[u] = held[u] /\ list'[u] = list[u]
    BY <1>4 DEF IInv, TypeOK
  <2> QED BY <1>3, <1>6, <2>1, <2>2, <2>3 DEF IInv, ExclusiveOwnership
<1>10. FreeListIntact' /\ HeadFresh'
  <2>1. \A y \in Members(free) : next'[y] = next[y]
    BY <1>3, <1>4, <1>8 DEF SameLinks, LinksOf
  <2>2. HeadFreshAt(t)'
    BY <1>3 DEF HeadFreshAt, PcNew, IInv, TypeOK
  <2>3. \A u \in Threads \ {t} : pc'[u] = pc[u] /\ o'[u] = o[u] /\ n'[u] = n[u]
    BY <1>3 DEF IInv, TypeOK
  <2> QED BY <1>3, <2>1, <2>2, <2>3, FreeFrame DEF HeadFresh
<1>11. PushShape' /\ ListsIntact'
  <2>1. ASSUME NEW u \in Threads \ {t} PROVE PushShapeAt(u)' /\ ListAt(u)'
    <3>1. \A y \in Mine(u) : next'[y] = next[y] /\ prev'[y] = prev[y]
      BY <1>3, <1>4, <1>7 DEF SameLinks, LinksOf
    <3>2. /\ pc'[u] = pc[u] /\ op'[u] = op[u] /\ o'[u] = o[u] /\ obj'[u] = obj[u]
          /\ first'[u] = first[u] /\ list'[u] = list[u] /\ push'[u] = push[u]
      BY <1>3, <1>4 DEF IInv, TypeOK
    <3> QED BY <3>1, <3>2, OthersFrame
  <2>2. PushShapeAt(t)'
    BY <1>0, <1>3 DEF PushShapeAt, PcPush, IInv, TypeOK
  <2>3. ListAt(t)'
    <3>1. LinksOf(t)' = M
      <4>1. first'[t] = M.first
        BY <1>3 DEF IInv, TypeOK
      <4> QED BY <1>3, <1>4, <4>1 DEF LinksOf, Links
    <3> QED BY <3>1, <1>4 DEF ListAt
  <2> QED BY <2>1, <2>2, <2>3 DEF PushShape, ListsIntact
<1> QED BY <1>5, <1>9, <1>10, <1>11 DEF IInv

-----------------------------------------------------------------------------
\* Everything a thread owns is an object.
LEMMA MineObj ==
  ASSUME TypeOK, NEW u \in Threads
  PROVE  Mine(u) \subseteq Obj /\ Members(free) \subseteq Obj
BY DEF Mine, Carried, TypeOK, Members

\* The invariant after a step of thread t that leaves the free list alone,
\* writes only objects t owns and ends outside New*.
LEMMA OwnStep ==
  ASSUME IInv, NEW t \in Threads, TypeOK',
         UNCHANGED <<obj_freelist, unmade, free>>,
         \A x \in Obj \ Mine(t) : next'[x] = next[x] /\ prev'[x] = prev[x],
         \A u \in Threads \ {t} :
           /\ pc'[u] = pc[u] /\ op'[u] = op[u] /\ o'[u] = o[u] /\ n'[u] = n[u]
           /\ obj'[u] = obj[u] /\ first'[u] = first[u]
           /\ held'[u] = held[u] /\ list'[u] = list[u] /\ push'[u] = push[u],
         pc'[t] \notin PcNew, Mine(t)' = Mine(t),
         held'[t] \intersect (Members(list'[t]) \union Members(push'[t])) = {},
         Members(list'[t]) \intersect Members(push'[t]) = {},
         PushShapeAt(t)', ListAt(t)'
  PROVE  IInv'
<1>1. \A u \in Threads \ {t} : Mine(u) \intersect Mine(t) = {}
  BY DEF IInv, ExclusiveOwnership
<1>2. ASSUME NEW u \in Threads \ {t} PROVE PushShapeAt(u)' /\ ListAt(u)'
  <2>1. \A x \in Mine(u) : next'[x] = next[x] /\ prev'[x] = prev[x]
    BY <1>1, MineObj DEF IInv
  <2> QED BY <2>1, OthersFrame
<1>3. PushShape' /\ ListsIntact'
  BY <1>2 DEF PushShape, ListsIntact
<1>4. \A x \in Members(free) : next'[x] = next[x]
  <2>1. \A x \in Members(free) : x \in Obj \ Mine(t)
    BY MineObj DEF IInv, ExclusiveOwnership
  <2> QED BY <2>1
<1>5. FreeListIntact' /\ \A u \in Threads \ {t} : HeadFreshAt(u)'
  BY <1>4, FreeFrame
<1>6. HeadFresh'
  <2>1. HeadFreshAt(t)'
    BY DEF HeadFreshAt, PcNew
  <2> QED BY <1>5, <2>1 DEF HeadFresh
<1>7. ExclusiveOwnership'
  <2>1. Carried(t)' = {}
    BY DEF Carried, PcNew
  <2>2. \A u \in Threads \ {t} : Carried(u)' = Carried(u) /\ Mine(u)' = Mine(u)
    BY DEF Carried, Mine
  <2> QED BY <2>1, <2>2 DEF IInv, ExclusiveOwnership
<1> QED BY <1>3, <1>5, <1>6, <1>7 DEF IInv

\* Delete(obj), up to its push loop (line 96).
LEMMA DeleteIInv ==
  ASSUME IInv, NEW t \in Threads, NEW x \in Obj, Delete(t, x) PROVE IInv'
<1>0. pc[t] = "idle" /\ op[t] = "none" /\ x \in held[t] /\ push[t] = <<>>
  BY DEF IInv, TypeOK, PushShape, PushShapeAt, Delete, PcPush
<1>1. /\ <<x>> \in Seq(Obj) /\ <<x>> # <<>> /\ Len(<<x>>) = 1 /\ <<x>>[1] = x
      /\ Members(<<x>>) = {x} /\ Distinct(<<x>>) /\ Members(<<>>) = {}
  BY SingletonSeq, EmptySeq
<1>2. TypeOK'
  BY <1>0, <1>1 DEF IInv, TypeOK, Delete, StartPush, PcNew, PcPush, PushOps
<1>3. /\ pc'[t] = "pushRead" /\ op'[t] = "Delete" /\ obj'[t] = x /\ push'[t] = <<x>>
      /\ held'[t] = held[t] \ {x} /\ list' = list
  BY DEF IInv, TypeOK, Delete, StartPush
<1>4. Mine(t)' = Mine(t)
  BY <1>0, <1>1, <1>3 DEF Mine, Carried
<1>5. PushShapeAt(t)'
  <2>1. PushTail(t)' = x
    BY <1>3 DEF PushTail
  <2>2. Linked(x, next', <<x>>, next'[x])
    BY <1>1 DEF Linked
  <2> QED BY <1>1, <1>3, <2>1, <2>2 DEF PushShapeAt, PcPush
<1>6. ListAt(t)'
  BY <1>0, <1>3 DEF IInv, ListsIntact, ListAt, LinksOf, Delete
<1>7. /\ held'[t] \intersect (Members(list'[t]) \union Members(push'[t])) = {}
      /\ Members(list'[t]) \intersect Members(push'[t]) = {}
  BY <1>0, <1>1, <1>3 DEF IInv, ExclusiveOwnership
<1>8. pc'[t] \notin PcNew
  BY <1>3 DEF PcNew
<1>9. \A u \in Threads \ {t} :
        /\ pc'[u] = pc[u] /\ op'[u] = op[u] /\ o'[u] = o[u] /\ n'[u] = n[u]
        /\ obj'[u] = obj[u] /\ first'[u] = first[u]
        /\ held'[u] = held[u] /\ list'[u] = list[u] /\ push'[u] = push[u]
  BY DEF IInv, TypeOK, Delete, StartPush
<1>10. UNCHANGED <<obj_freelist, unmade, free, next, prev>>
  BY DEF Delete, StartPush
<1> QED BY <1>2, <1>4, <1>5, <1>6, <1>7, <1>8, <1>9, <1>10, OwnStep

\* Delete(first, obj), up to its push loop (lines 199-214).
LEMMA DeleteFromIInv ==
  ASSUME IInv, NEW t \in Threads, NEW x \in Obj, DeleteFrom(t, x) PROVE IInv'
<1> DEFINE L == LinksOf(t)
           M == Unlink(LinksOf(t), x)
           q == list[t]
           w == Without(list[t], x)
<1>0. pc[t] = "idle" /\ op[t] = "none" /\ x \in Members(q) /\ push[t] = <<>> /\ q \in Seq(Obj)
  BY DEF IInv, TypeOK, PushShape, PushShapeAt, DeleteFrom, PcPush
<1>1. /\ <<x>> \in Seq(Obj) /\ <<x>> # <<>> /\ Len(<<x>>) = 1 /\ <<x>>[1] = x
      /\ Members(<<x>>) = {x} /\ Distinct(<<x>>) /\ Members(<<>>) = {}
  BY SingletonSeq, EmptySeq
<1>2. L \in Links /\ ListOK(L, q)
  BY <1>0 DEF IInv, TypeOK, ListsIntact, ListAt, LinksOf, Links
<1>3. M \in Links /\ ListOK(M, w) /\ SameLinks(L, M, Obj \ Members(q))
  BY <1>0, <1>2, UnlinkOK
<1>4. w \in Seq(Obj) /\ Members(w) = Members(q) \ {x}
  <2>1. PICK j \in 1 .. Len(q) : x = q[j]
    BY <1>0 DEF Members
  <2> QED BY <2>1, <1>0, <1>2, WithoutIsShift DEF ListOK
<1>5. /\ pc' = [pc EXCEPT ![t] = "pushRead"] /\ op' = [op EXCEPT ![t] = "Delete"]
      /\ obj' = [obj EXCEPT ![t] = x] /\ push' = [push EXCEPT ![t] = <<x>>]
      /\ list' = [list EXCEPT ![t] = w] /\ held' = held
      /\ first' = [first EXCEPT ![t] = M.first] /\ next' = M.next /\ prev' = M.prev
      /\ UNCHANGED <<obj_freelist, o, n, unmade, free>>
  BY DEF DeleteFrom, StartPush, SetLinks
<1> HIDE DEF M, w
<1>6. TypeOK'
  <2>1. first' \in [Threads -> Obj \union {NULL}] /\ next' \in [Obj -> Obj \union {NULL}]
        /\ prev' \in [Obj -> Obj \union {NULL}] /\ list' \in [Threads -> Seq(Obj)]
    BY <1>3, <1>4, <1>5 DEF IInv, TypeOK, Links
  <2> QED BY <2>1, <1>1, <1>5 DEF IInv, TypeOK, PcNew, PcPush, PushOps
<1>7. /\ pc'[t] = "pushRead" /\ op'[t] = "Delete" /\ obj'[t] = x /\ push'[t] = <<x>>
      /\ list'[t] = w /\ first'[t] = M.first
  BY <1>5 DEF IInv, TypeOK
<1>8. Mine(t)' = Mine(t)
  BY <1>0, <1>1, <1>4, <1>5, <1>7 DEF Mine, Carried
<1>9. PushShapeAt(t)'
  <2>1. PushTail(t)' = x
    BY <1>7 DEF PushTail
  <2>2. Linked(x, next', <<x>>, next'[x])
    BY <1>1 DEF Linked
  <2> QED BY <1>1, <1>7, <2>1, <2>2 DEF PushShapeAt, PcPush
<1>10. ListAt(t)'
  <2>1. LinksOf(t)' = M
    BY <1>3, <1>5, <1>7 DEF LinksOf, Links
  <2> QED BY <2>1, <1>3, <1>7 DEF ListAt
<1>11. /\ held'[t] \intersect (Members(list'[t]) \union Members(push'[t])) = {}
       /\ Members(list'[t]) \intersect Members(push'[t]) = {}
  BY <1>0, <1>1, <1>4, <1>5, <1>7 DEF IInv, ExclusiveOwnership
<1>12. pc'[t] \notin PcNew
  BY <1>7 DEF PcNew
<1>13. \A u \in Threads \ {t} :
        /\ pc'[u] = pc[u] /\ op'[u] = op[u] /\ o'[u] = o[u] /\ n'[u] = n[u]
        /\ obj'[u] = obj[u] /\ first'[u] = first[u]
        /\ held'[u] = held[u] /\ list'[u] = list[u] /\ push'[u] = push[u]
  BY <1>5 DEF IInv, TypeOK
<1>14. \A y \in Obj \ Mine(t) : next'[y] = next[y] /\ prev'[y] = prev[y]
  <2>1. Obj \ Mine(t) \subseteq Obj \ Members(q)
    BY DEF Mine
  <2> QED BY <2>1, <1>3, <1>5 DEF SameLinks, LinksOf
<1> QED BY <1>5, <1>6, <1>8, <1>9, <1>10, <1>11, <1>12, <1>13, <1>14, OwnStep

\* DeleteAll(first), up to AddToFreeList (lines 266-277).
LEMMA DeleteAllIInv ==
  ASSUME IInv, NEW t \in Threads, DeleteAll(t) PROVE IInv'
<1> DEFINE L == LinksOf(t)
           q == list[t]
<1>0. pc[t] = "idle" /\ op[t] = "none" /\ first[t] # NULL /\ push[t] = <<>> /\ q \in Seq(Obj)
  BY DEF IInv, TypeOK, PushShape, PushShapeAt, DeleteAll, PcPush
<1>1. ListOK(L, q)
  BY <1>0 DEF IInv, ListsIntact, ListAt
<1>2. q # <<>> /\ first[t] = q[1] /\ first[t] \in Obj
  <2>1. L.first = first[t]
    BY DEF LinksOf
  <2> QED BY <1>0, <1>1, <2>1 DEF ListOK, Linked, IInv, TypeOK
<1>3. /\ pc' = [pc EXCEPT ![t] = "pushRead"] /\ op' = [op EXCEPT ![t] = "DeleteAll"]
      /\ obj' = [obj EXCEPT ![t] = first[t]] /\ push' = [push EXCEPT ![t] = q]
      /\ list' = [list EXCEPT ![t] = <<>>]
      /\ UNCHANGED <<obj_freelist, o, n, unmade, free, next, prev, first, held>>
  BY DEF DeleteAll, StartPush
<1>4. TypeOK'
  BY <1>0, <1>2, <1>3 DEF IInv, TypeOK, PcNew, PcPush, PushOps
<1>5. /\ pc'[t] = "pushRead" /\ op'[t] = "DeleteAll" /\ obj'[t] = first[t] /\ push'[t] = q
      /\ list'[t] = <<>>
  BY <1>3 DEF IInv, TypeOK
<1>6. Mine(t)' = Mine(t)
  BY <1>0, <1>3, <1>5, EmptySeq DEF Mine, Carried
<1>7. PushShapeAt(t)'
  <2>1. PushTail(t)' = prev[first[t]]
    BY <1>3, <1>5 DEF PushTail
  <2>2. q[Len(q)] = prev[first[t]]
    BY <1>1, <1>2 DEF ListOK, LinksOf
  <2>3. Linked(first[t], next, q, next[prev[first[t]]])
    BY <1>1, <1>2, <2>2 DEF ListOK, Linked, LinksOf
  <2> QED BY <1>1, <1>2, <1>3, <1>5, <2>1, <2>2, <2>3 DEF PushShapeAt, PcPush, ListOK
<1>8. ListAt(t)'
  BY <1>5 DEF ListAt
<1>9. /\ held'[t] \intersect (Members(list'[t]) \union Members(push'[t])) = {}
      /\ Members(list'[t]) \intersect Members(push'[t]) = {}
  BY <1>3, <1>5, EmptySeq DEF IInv, ExclusiveOwnership
<1>10. pc'[t] \notin PcNew
  BY <1>5 DEF PcNew
<1>11. \A u \in Threads \ {t} :
        /\ pc'[u] = pc[u] /\ op'[u] = op[u] /\ o'[u] = o[u] /\ n'[u] = n[u]
        /\ obj'[u] = obj[u] /\ first'[u] = first[u]
        /\ held'[u] = held[u] /\ list'[u] = list[u] /\ push'[u] = push[u]
  BY <1>3 DEF IInv, TypeOK
<1> QED BY <1>3, <1>4, <1>6, <1>7, <1>8, <1>9, <1>10, <1>11, OwnStep

\* Detach(first, obj) (lines 230-251).
LEMMA DetachIInv ==
  ASSUME IInv, NEW t \in Threads, NEW x \in Obj, Detach(t, x) PROVE IInv'
<1> DEFINE L == LinksOf(t)
           M == Unlink(LinksOf(t), x)
           K == [M EXCEPT !.next[x] = NULL, !.prev[x] = NULL]
           q == list[t]
           w == Without(list[t], x)
<1>0. pc[t] = "idle" /\ op[t] = "none" /\ x \in Members(q) /\ push[t] = <<>> /\ q \in Seq(Obj)
  BY DEF IInv, TypeOK, PushShape, PushShapeAt, Detach, PcPush
<1>2. L \in Links /\ ListOK(L, q)
  BY <1>0 DEF IInv, TypeOK, ListsIntact, ListAt, LinksOf, Links
<1>3. M \in Links /\ ListOK(M, w) /\ SameLinks(L, M, Obj \ Members(q))
  BY <1>0, <1>2, UnlinkOK
<1>4. w \in Seq(Obj) /\ Members(w) = Members(q) \ {x}
  <2>1. PICK j \in 1 .. Len(q) : x = q[j]
    BY <1>0 DEF Members
  <2> QED BY <2>1, <1>0, <1>2, WithoutIsShift DEF ListOK
<1>5. /\ list' = [list EXCEPT ![t] = w] /\ held' = [held EXCEPT ![t] = @ \union {x}]
      /\ first' = [first EXCEPT ![t] = K.first] /\ next' = K.next /\ prev' = K.prev
      /\ UNCHANGED <<obj_freelist, pc, op, o, n, obj, unmade, free, push>>
  BY DEF Detach, SetLinks, locals
<1> HIDE DEF M, w
<1>6. /\ K \in Links /\ K.first = M.first
      /\ \A y \in Obj \ {x} : K.next[y] = M.next[y] /\ K.prev[y] = M.prev[y]
  BY <1>3 DEF Links
<1> HIDE DEF K
<1>7. ListOK(K, w)
  <2>1. SameLinks(M, K, Members(w))
    <3>1. Members(w) \subseteq Obj \ {x}
      BY <1>4 DEF Members
    <3> QED BY <3>1, <1>6 DEF SameLinks
  <2> QED BY <2>1, <1>3, <1>4, <1>6, ListFrame
<1>8. TypeOK'
  <2>1. first' \in [Threads -> Obj \union {NULL}] /\ next' \in [Obj -> Obj \union {NULL}]
        /\ prev' \in [Obj -> Obj \union {NULL}] /\ list' \in [Threads -> Seq(Obj)]
    BY <1>4, <1>5, <1>6 DEF IInv, TypeOK, Links
  <2> QED BY <2>1, <1>5 DEF IInv, TypeOK
<1>9. list'[t] = w /\ first'[t] = K.first /\ held'[t] = held[t] \union {x}
  BY <1>5 DEF IInv, TypeOK
<1>10. Mine(t)' = Mine(t)
  BY <1>0, <1>4, <1>5, <1>9 DEF Mine, Carried
<1>11. PushShapeAt(t)'
  BY <1>0, <1>5 DEF PushShapeAt, PcPush
<1>12. ListAt(t)'
  <2>1. LinksOf(t)' = K
    BY <1>5, <1>6, <1>9 DEF LinksOf, Links
  <2> QED BY <2>1, <1>7, <1>9 DEF ListAt
<1>13. /\ held'[t] \intersect (Members(list'[t]) \union Members(push'[t])) = {}
       /\ Members(list'[t]) \intersect Members(push'[t]) = {}
  BY <1>0, <1>4, <1>5, <1>9, EmptySeq DEF IInv, ExclusiveOwnership
<1>14. pc'[t] \notin PcNew
  BY <1>0, <1>5 DEF PcNew
<1>15. \A u \in Threads \ {t} :
        /\ pc'[u] = pc[u] /\ op'[u] = op[u] /\ o'[u] = o[u] /\ n'[u] = n[u]
        /\ obj'[u] = obj[u] /\ first'[u] = first[u]
        /\ held'[u] = held[u] /\ list'[u] = list[u] /\ push'[u] = push[u]
  BY <1>5 DEF IInv, TypeOK
<1>16. \A y \in Obj \ Mine(t) : next'[y] = next[y] /\ prev'[y] = prev[y]
  <2>1. \A y \in Obj \ Mine(t) : y \in Obj \ Members(q) /\ y # x
    BY <1>0 DEF Mine
  <2> QED BY <2>1, <1>3, <1>5, <1>6 DEF SameLinks, LinksOf
<1> QED BY <1>5, <1>8, <1>10, <1>11, <1>12, <1>13, <1>14, <1>15, <1>16, OwnStep

\* What PushShape says of a thread in the push loop.
LEMMA PushFacts ==
  ASSUME IInv, NEW t \in Threads, pc[t] \in PcPush
  PROVE  /\ push[t] \in Seq(Obj) /\ push[t] # <<>> /\ Distinct(push[t])
         /\ push[t][Len(push[t])] = PushTail(t)
         /\ PushTail(t) \in Members(push[t]) /\ obj[t] \in Members(push[t])
         /\ Linked(obj[t], next, push[t], next[PushTail(t)])
<1>1. /\ push[t] \in Seq(Obj) /\ push[t] # <<>> /\ Distinct(push[t])
      /\ push[t][Len(push[t])] = PushTail(t)
      /\ Linked(obj[t], next, push[t], next[PushTail(t)])
  BY DEF IInv, TypeOK, PushShape, PushShapeAt
<1>2. obj[t] = push[t][1]
  BY <1>1 DEF Linked
<1> QED BY <1>1, <1>2 DEF Members

\* Redirecting the last next to the head read (lines 102, 258).
LEMMA PushLinkIInv ==
  ASSUME IInv, NEW t \in Threads, PushLink(t) PROVE IInv'
<1> DEFINE q == push[t]
           z == PushTail(t)
<1>0. pc[t] = "pushLink" /\ pc[t] \in PcPush
  BY DEF PushLink, PcPush
<1>1. /\ q \in Seq(Obj) /\ q # <<>> /\ Distinct(q) /\ q[Len(q)] = z
      /\ z \in Members(q) /\ Linked(obj[t], next, q, next[z])
  BY <1>0, PushFacts
<1>2. z \in Obj
  BY <1>1 DEF Members
<1>3. /\ next' = [next EXCEPT ![z] = o[t]] /\ pc' = [pc EXCEPT ![t] = "pushCas"]
      /\ UNCHANGED <<obj_freelist, prev, first, op, o, n, obj, unmade, free, held, list, push>>
  BY DEF PushLink, ghosts
<1>4. TypeOK'
  BY <1>0, <1>2, <1>3 DEF IInv, TypeOK, PcNew, PcPush
<1>5. pc'[t] = "pushCas" /\ next'[z] = o[t] /\ \A x \in Obj \ {z} : next'[x] = next[x]
  BY <1>2, <1>3 DEF IInv, TypeOK
<1>6. Mine(t)' = Mine(t)
  BY <1>0, <1>3, <1>5 DEF Mine, Carried
<1>7. PushShapeAt(t)'
  <2>1. PushTail(t)' = z
    BY <1>3 DEF PushTail
  <2>2. Linked(obj[t], next', q, next'[z])
    <3>1. \A i \in 1 .. Len(q) - 1 : next'[q[i]] = q[i+1]
      <4> SUFFICES ASSUME NEW i \in 1 .. Len(q) - 1 PROVE next'[q[i]] = q[i+1]
        OBVIOUS
      <4>1. next[q[i]] = q[i+1]
        BY <1>1 DEF Linked
      <4>2. q[i] \in Obj /\ q[i] # z
        BY <1>1 DEF Distinct
      <4> QED BY <4>1, <4>2, <1>5
    <3> HIDE DEF q, z
    <3>2. obj[t] = q[1]
      BY <1>1 DEF Linked
    <3> QED BY <1>1, <3>1, <3>2 DEF Linked
  <2>3. op[t] = "DeleteAll" => first[t] = obj[t] /\ list[t] = <<>>
    BY <1>0 DEF IInv, PushShape, PushShapeAt
  <2> QED BY <1>1, <1>3, <1>5, <2>1, <2>2, <2>3 DEF PushShapeAt, PcPush
<1>8. z \in Mine(t) /\ z \notin Members(list[t])
  BY <1>1 DEF Mine, IInv, ExclusiveOwnership
<1>9. ListAt(t)'
  <2> SUFFICES ASSUME op[t] # "DeleteAll" PROVE ListOK(LinksOf(t)', list[t])
    BY <1>3 DEF ListAt
  <2>1. ListOK(LinksOf(t), list[t]) /\ list[t] \in Seq(Obj)
    BY DEF IInv, TypeOK, ListsIntact, ListAt
  <2>2. LinksOf(t)'.first = LinksOf(t).first
    BY <1>3 DEF LinksOf
  <2>3. SameLinks(LinksOf(t), LinksOf(t)', Members(list[t]))
    <3>1. Members(list[t]) \subseteq Obj \ {z}
      BY <1>8, <2>1 DEF Members
    <3> QED BY <3>1, <1>3, <1>5 DEF SameLinks, LinksOf
  <2> QED BY <2>1, <2>2, <2>3, ListFrame
<1>10. /\ held'[t] \intersect (Members(list'[t]) \union Members(push'[t])) = {}
       /\ Members(list'[t]) \intersect Members(push'[t]) = {}
  BY <1>3 DEF IInv, ExclusiveOwnership
<1>11. pc'[t] \notin PcNew
  BY <1>5 DEF PcNew
<1>12. \A u \in Threads \ {t} :
        /\ pc'[u] = pc[u] /\ op'[u] = op[u] /\ o'[u] = o[u] /\ n'[u] = n[u]
        /\ obj'[u] = obj[u] /\ first'[u] = first[u]
        /\ held'[u] = held[u] /\ list'[u] = list[u] /\ push'[u] = push[u]
  BY <1>3 DEF IInv, TypeOK
<1>13. \A y \in Obj \ Mine(t) : next'[y] = next[y] /\ prev'[y] = prev[y]
  BY <1>3, <1>5, <1>8
<1> HIDE DEF q, z
<1> QED BY <1>3, <1>4, <1>6, <1>7, <1>9, <1>10, <1>11, <1>12, <1>13, OwnStep

\* The CAS of a push (lines 103, 259): what was pushed is on top of the
\* free list, in its order.
LEMMA PushCasIInv ==
  ASSUME IInv, NEW t \in Threads, PushCas(t) PROVE IInv'
<1> DEFINE q == push[t]
<1>0. pc[t] = "pushCas" /\ pc[t] \in PcPush /\ next[PushTail(t)] = o[t]
  BY DEF PushCas, PcPush, IInv, PushShape, PushShapeAt
<1>1. /\ q \in Seq(Obj) /\ q # <<>> /\ Distinct(q) /\ obj[t] \in Members(q)
      /\ Linked(obj[t], next, q, o[t])
  BY <1>0, PushFacts
<1>2. CASE obj_freelist # o[t]
  <2>1. /\ pc' = [pc EXCEPT ![t] = "pushRead"]
        /\ UNCHANGED <<obj_freelist, next, prev, first, op, o, n, obj, unmade, free, held, list, push>>
    BY <1>2 DEF PushCas
  <2>2. TypeOK'
    BY <1>0, <2>1 DEF IInv, TypeOK, PcNew, PcPush
  <2>3. ExclusiveOwnership' /\ FreeListIntact' /\ ListsIntact'
    BY <1>0, <2>1, QuietStep DEF IInv, TypeOK
  <2>4. HeadFresh'
    BY <2>1 DEF IInv, TypeOK, HeadFresh, HeadFreshAt, PcNew
  <2>5. PushShape'
    BY <1>0, <2>1 DEF IInv, TypeOK, PushShape, PushShapeAt, PushTail, PcPush
  <2> QED BY <2>2, <2>3, <2>4, <2>5 DEF IInv
<1>3. CASE obj_freelist = o[t]
  <2>1. /\ obj_freelist' = obj[t] /\ free' = q \o free /\ push' = [push EXCEPT ![t] = <<>>]
        /\ first' = IF op[t] = "DeleteAll" THEN [first EXCEPT ![t] = NULL] ELSE first
        /\ pc' = [pc EXCEPT ![t] = "idle"] /\ op' = [op EXCEPT ![t] = "none"]
        /\ o' = [o EXCEPT ![t] = NULL] /\ n' = [n EXCEPT ![t] = NULL] /\ obj' = [obj EXCEPT ![t] = NULL]
        /\ UNCHANGED <<next, prev, unmade, held, list>>
    BY <1>3 DEF PushCas, Pushed, Return
  <2>2. free \in Seq(Obj) /\ Distinct(free) /\ Linked(obj_freelist, next, free, NULL)
    BY DEF IInv, TypeOK, FreeListIntact
  <2>3. Members(q) \intersect Members(free) = {}
    BY DEF IInv, ExclusiveOwnership, Mine
  <2>4. q \o free \in Seq(Obj) /\ Members(q \o free) = Members(q) \union Members(free) /\ Distinct(q \o free)
    BY <1>1, <2>2, <2>3, MembersConcat
  <2>5. Linked(obj[t], next, q \o free, NULL)
    BY <1>1, <1>3, <2>2, LinkedConcat
  <2>6. FreeListIntact'
    BY <2>1, <2>4, <2>5 DEF FreeListIntact
  <2> HIDE DEF q
  <2>7. TypeOK'
    <3>1. first' \in [Threads -> Obj \union {NULL}] /\ push' \in [Threads -> Seq(Obj)]
      BY <2>1 DEF IInv, TypeOK
    <3>2. obj_freelist' \in Obj \union {NULL} /\ free' \in Seq(Obj)
      BY <2>1, <2>4 DEF IInv, TypeOK
    <3> QED BY <2>1, <3>1, <3>2 DEF IInv, TypeOK, PcNew, PcPush
  <2>8. pc'[t] = "idle" /\ op'[t] = "none" /\ push'[t] = <<>>
    BY <2>1 DEF IInv, TypeOK
  <2>9. \A u \in Threads \ {t} :
          /\ pc'[u] = pc[u] /\ op'[u] = op[u] /\ o'[u] = o[u] /\ n'[u] = n[u]
          /\ obj'[u] = obj[u] /\ first'[u] = first[u]
          /\ held'[u] = held[u] /\ list'[u] = list[u] /\ push'[u] = push[u]
    BY <2>1 DEF IInv, TypeOK
  <2>10. HeadFresh'
    <3>1. HeadFreshAt(t)'
      BY <2>8 DEF HeadFreshAt, PcNew
    <3>2. ASSUME NEW u \in Threads \ {t} PROVE HeadFreshAt(u)'
      BY <2>1, <2>4, <2>9 DEF IInv, HeadFresh, HeadFreshAt
    <3> QED BY <3>1, <3>2 DEF HeadFresh
  <2>11. PushShape'
    <3>1. PushShapeAt(t)'
      BY <2>8 DEF PushShapeAt, PcPush
    <3>2. ASSUME NEW u \in Threads \ {t} PROVE PushShapeAt(u)'
      BY <2>1, <2>9, OthersFrame
    <3> QED BY <3>1, <3>2 DEF PushShape
  <2>12. ListsIntact'
    <3>1. ListAt(t)'
      <4>1. CASE op[t] = "DeleteAll"
        <5>1. list[t] = <<>> /\ first'[t] = NULL
          BY <1>0, <2>1, <4>1 DEF IInv, TypeOK, PushShape, PushShapeAt
        <5>2. LinksOf(t)'.first = NULL /\ list'[t] = <<>>
          BY <5>1, <2>1 DEF LinksOf
        <5>3. ListOK(LinksOf(t)', <<>>)
          BY <5>2, EmptySeq DEF ListOK, Linked
        <5> QED BY <5>2, <5>3 DEF ListAt
      <4>2. CASE op[t] # "DeleteAll"
        <5>1. LinksOf(t)' = LinksOf(t) /\ ListOK(LinksOf(t), list[t])
          BY <4>2, <2>1 DEF LinksOf, IInv, ListsIntact, ListAt
        <5> QED BY <5>1, <2>1 DEF ListAt
      <4> QED BY <4>1, <4>2
    <3>2. ASSUME NEW u \in Threads \ {t} PROVE ListAt(u)'
      BY <2>1, <2>9, OthersFrame
    <3> QED BY <3>1, <3>2 DEF ListsIntact
  <2>13. ExclusiveOwnership'
    <3>1. Carried(t)' = {} /\ Members(push'[t]) = {} /\ Carried(t) = {}
      BY <1>0, <2>8, EmptySeq DEF Carried
    <3>2. \A u \in Threads \ {t} : Carried(u)' = Carried(u) /\ Mine(u)' = Mine(u)
      BY <2>9 DEF Carried, Mine
    <3>3. Mine(t)' = held[t] \union Members(list[t]) /\ Members(q) \subseteq Mine(t)
      BY <3>1, <2>1 DEF Mine, q
    <3>4. Mine(t)' \subseteq Mine(t) /\ Mine(t)' \intersect Members(q) = {}
      BY <3>1, <3>3, <2>1 DEF Mine, IInv, ExclusiveOwnership, q
    <3>5. Members(free)' = Members(q) \union Members(free)
      BY <2>1, <2>4
    <3>6. \A u \in Threads \ {t} : Mine(u) \intersect Members(q) = {}
      BY <3>3 DEF IInv, ExclusiveOwnership
    <3>7. Members(q) \intersect unmade = {}
      BY <3>3 DEF IInv, ExclusiveOwnership
    <3>8. \A u \in Threads : Mine(u)' \intersect (Members(free)' \union unmade') = {}
      BY <2>1, <3>2, <3>4, <3>5, <3>6 DEF IInv, ExclusiveOwnership
    <3>9. \A u, v \in Threads : u # v => Mine(u)' \intersect Mine(v)' = {}
      BY <3>2, <3>4 DEF IInv, ExclusiveOwnership
    <3>10. unmade' \intersect Members(free)' = {}
      BY <2>1, <3>5, <3>7 DEF IInv, ExclusiveOwnership
    <3>11. ASSUME NEW u \in Threads
           PROVE  /\ held'[u] \intersect (Members(list'[u]) \union Members(push'[u]) \union Carried(u)') = {}
                  /\ Members(list'[u]) \intersect (Members(push'[u]) \union Carried(u)') = {}
                  /\ Members(push'[u]) \intersect Carried(u)' = {}
      BY <2>1, <2>9, <3>1, <3>2 DEF IInv, ExclusiveOwnership
    <3> QED BY <3>8, <3>9, <3>10, <3>11 DEF ExclusiveOwnership
  <2> QED BY <2>6, <2>7, <2>10, <2>11, <2>12, <2>13 DEF IInv
<1> QED BY <1>2, <1>3

-----------------------------------------------------------------------------
(***************************************************************************)
(* The callers pass objects and lists between threads.                     *)
(***************************************************************************)
\* A caller passes a standalone object to another thread.
LEMMA HandOverIInv ==
  ASSUME IInv, NEW t \in Threads, NEW u \in Threads, NEW x \in Obj, HandOver(t, u, x)
  PROVE  IInv'
<1>0. /\ t # u /\ x \in held[t]
      /\ held' = [held EXCEPT ![t] = held[t] \ {x}, ![u] = held[u] \union {x}]
      /\ UNCHANGED <<obj_freelist, next, prev, first, pc, op, o, n, obj, unmade, free, list, push>>
  BY DEF HandOver, shared, locals, IInv, TypeOK
<1>1. /\ held'[t] = held[t] \ {x} /\ held'[u] = held[u] \union {x}
      /\ \A v \in Threads \ {t, u} : held'[v] = held[v]
  BY <1>0 DEF IInv, TypeOK
<1>2. TypeOK'
  BY <1>0 DEF IInv, TypeOK
<1>3. FreeListIntact' /\ HeadFresh' /\ PushShape' /\ ListsIntact'
  BY <1>0 DEF IInv, FreeListIntact, HeadFresh, HeadFreshAt, PushShape, PushShapeAt, PushTail,
              ListsIntact, ListAt, LinksOf
<1>4. ExclusiveOwnership'
  <2>1. \A v \in Threads : Carried(v)' = Carried(v)
    BY <1>0 DEF Carried
  <2>2. /\ x \in Mine(t) /\ x \notin Members(list[t]) /\ x \notin Members(push[t]) /\ x \notin Carried(t)
        /\ \A v \in Threads \ {t} : x \notin Mine(v)
        /\ x \notin Members(free) /\ x \notin unmade
    BY <1>0 DEF IInv, ExclusiveOwnership, Mine
  <2>3. /\ Mine(t)' = Mine(t) \ {x} /\ Mine(u)' = Mine(u) \union {x}
        /\ \A v \in Threads \ {t, u} : Mine(v)' = Mine(v)
    <3>1. Mine(t)' = Mine(t) \ {x}
      <4>1. Mine(t)' = (held[t] \ {x}) \union Members(list[t]) \union Members(push[t]) \union Carried(t)
        BY <1>0, <1>1, <2>1 DEF Mine
      <4> QED BY <4>1, <2>2 DEF Mine
    <3>2. Mine(u)' = Mine(u) \union {x}
      BY <1>0, <1>1, <2>1 DEF Mine
    <3>3. \A v \in Threads \ {t, u} : Mine(v)' = Mine(v)
      BY <1>0, <1>1, <2>1 DEF Mine
    <3> QED BY <3>1, <3>2, <3>3
  <2>4. ASSUME NEW v \in Threads
        PROVE  /\ held'[v] \intersect (Members(list'[v]) \union Members(push'[v]) \union Carried(v)') = {}
               /\ Members(list'[v]) \intersect (Members(push'[v]) \union Carried(v)') = {}
               /\ Members(push'[v]) \intersect Carried(v)' = {}
    <3>1. x \in Mine(v) => v = t
      BY <2>2
    <3>2. v = u => x \notin Members(list[v]) /\ x \notin Members(push[v]) /\ x \notin Carried(v)
      BY <1>0, <3>1 DEF Mine
    <3>3. /\ held[v] \intersect (Members(list[v]) \union Members(push[v]) \union Carried(v)) = {}
          /\ Members(list[v]) \intersect (Members(push[v]) \union Carried(v)) = {}
          /\ Members(push[v]) \intersect Carried(v) = {}
      BY DEF IInv, ExclusiveOwnership
    <3>4. list'[v] = list[v] /\ push'[v] = push[v] /\ Carried(v)' = Carried(v)
      BY <1>0, <2>1
    <3>5. held'[v] \subseteq held[v] \/ (v = u /\ held'[v] = held[v] \union {x})
      BY <1>1
    <3> QED BY <3>2, <3>3, <3>4, <3>5
  <2>5. \A v \in Threads : Mine(v)' \intersect (Members(free)' \union unmade') = {}
    BY <1>0, <2>2, <2>3 DEF IInv, ExclusiveOwnership
  <2>6. \A v, w \in Threads : v # w => Mine(v)' \intersect Mine(w)' = {}
    <3> SUFFICES ASSUME NEW v \in Threads, NEW w \in Threads, v # w,
                        NEW y \in Mine(v)', y \in Mine(w)'
                 PROVE  FALSE
      OBVIOUS
    <3>1. CASE y = x
      BY <3>1, <1>0, <2>2, <2>3
    <3>2. CASE y # x
      <4>1. y \in Mine(v) /\ y \in Mine(w)
        BY <3>2, <2>3
      <4> QED BY <4>1 DEF IInv, ExclusiveOwnership
    <3> QED BY <3>1, <3>2
  <2> QED BY <1>0, <2>4, <2>5, <2>6 DEF IInv, ExclusiveOwnership
<1> QED BY <1>2, <1>3, <1>4 DEF IInv

\* A caller passes its list to another thread.
LEMMA HandOverListIInv ==
  ASSUME IInv, NEW t \in Threads, NEW u \in Threads, HandOverList(t, u)
  PROVE  IInv'
<1>0. /\ t # u /\ pc[t] = "idle" /\ pc[u] = "idle" /\ first[u] = NULL
      /\ first' = [first EXCEPT ![t] = NULL, ![u] = first[t]]
      /\ list' = [list EXCEPT ![t] = <<>>, ![u] = list[t]]
      /\ UNCHANGED <<obj_freelist, next, prev, pc, op, o, n, obj, unmade, free, held, push>>
  BY DEF HandOverList, shared, locals
<1>1. /\ list'[t] = <<>> /\ list'[u] = list[t] /\ first'[t] = NULL /\ first'[u] = first[t]
      /\ \A v \in Threads \ {t, u} : list'[v] = list[v] /\ first'[v] = first[v]
  BY <1>0 DEF IInv, TypeOK
<1>2. TypeOK'
  <2>1. list' \in [Threads -> Seq(Obj)] /\ first' \in [Threads -> Obj \union {NULL}]
    <3>1. list \in [Threads -> Seq(Obj)] /\ first \in [Threads -> Obj \union {NULL}]
      BY DEF IInv, TypeOK
    <3> QED BY <1>0, <3>1, EmptySeq
  <2> QED BY <1>0, <2>1 DEF IInv, TypeOK
<1>3. op[t] = "none" /\ op[u] = "none" /\ ListOK(LinksOf(t), list[t]) /\ ListOK(LinksOf(u), list[u])
      /\ list[u] \in Seq(Obj)
  BY <1>0 DEF IInv, TypeOK, ListsIntact, ListAt
<1>4. list[u] = <<>>
  <2>1. Linked(NULL, next, list[u], NULL)
    BY <1>0, <1>3 DEF ListOK, LinksOf
  <2>2. list[u] # <<>> => list[u][1] = NULL /\ list[u][1] \in Obj
    BY <2>1, <1>3 DEF Linked
  <2> QED BY <2>2, NullAssumption
<1>5. FreeListIntact' /\ HeadFresh'
  BY <1>0 DEF IInv, FreeListIntact, HeadFresh, HeadFreshAt
<1>6. PushShape'
  <2> SUFFICES ASSUME NEW v \in Threads PROVE PushShapeAt(v)'
    BY DEF PushShape
  <2>1. CASE v \in {t, u}
    BY <1>0, <2>1 DEF IInv, PushShape, PushShapeAt, PcPush
  <2>2. CASE v \notin {t, u}
    BY <1>0, <1>1, <2>2 DEF IInv, PushShape, PushShapeAt, PushTail
  <2> QED BY <2>1, <2>2
<1>7. ListsIntact'
  <2> SUFFICES ASSUME NEW v \in Threads PROVE ListAt(v)'
    BY DEF ListsIntact
  <2>1. CASE v = t
    <3>1. LinksOf(t)'.first = NULL
      BY <1>1 DEF LinksOf
    <3>2. ListOK(LinksOf(t)', <<>>)
      BY <3>1, EmptySeq DEF ListOK, Linked
    <3> QED BY <2>1, <3>2, <1>1 DEF ListAt
  <2>2. CASE v = u
    <3>1. LinksOf(u)' = LinksOf(t)
      BY <1>0, <1>1 DEF LinksOf
    <3> QED BY <2>2, <3>1, <1>1, <1>3 DEF ListAt
  <2>3. CASE v \notin {t, u}
    <3>1. LinksOf(v)' = LinksOf(v)
      BY <2>3, <1>0, <1>1 DEF LinksOf
    <3> QED BY <2>3, <3>1, <1>0, <1>1 DEF ListAt, IInv, ListsIntact
  <2> QED BY <2>1, <2>2, <2>3
<1>8. ExclusiveOwnership'
  <2> DEFINE S == Members(list[t])
  <2>1. /\ Members(list'[t]) = {} /\ Members(list'[u]) = S /\ Members(list[u]) = {}
        /\ \A v \in Threads \ {t, u} : Members(list'[v]) = Members(list[v])
    BY <1>1, <1>4, EmptySeq
  <2>2. \A v \in Threads : Carried(v)' = Carried(v)
    BY <1>0 DEF Carried
  <2>3. S \subseteq Mine(t) /\ S \intersect held[t] = {} /\ S \intersect Members(push[t]) = {}
        /\ S \intersect Carried(t) = {}
    BY DEF Mine, IInv, ExclusiveOwnership
  <2>4. /\ Mine(t)' = Mine(t) \ S /\ Mine(u)' = Mine(u) \union S
        /\ \A v \in Threads \ {t, u} : Mine(v)' = Mine(v)
    BY <1>0, <2>1, <2>2, <2>3 DEF Mine
  <2>5. /\ \A v \in Threads \ {t} : S \intersect Mine(v) = {}
        /\ S \intersect Members(free) = {} /\ S \intersect unmade = {}
    BY <2>3 DEF IInv, ExclusiveOwnership
  <2> HIDE DEF S
  <2>6. ASSUME NEW v \in Threads
        PROVE  /\ held'[v] \intersect (Members(list'[v]) \union Members(push'[v]) \union Carried(v)') = {}
               /\ Members(list'[v]) \intersect (Members(push'[v]) \union Carried(v)') = {}
               /\ Members(push'[v]) \intersect Carried(v)' = {}
    <3>1. v = u => S \intersect (held[v] \union Members(push[v]) \union Carried(v)) = {}
      BY <1>0, <2>5 DEF Mine
    <3>3. /\ held[v] \intersect (Members(list[v]) \union Members(push[v]) \union Carried(v)) = {}
          /\ Members(list[v]) \intersect (Members(push[v]) \union Carried(v)) = {}
          /\ Members(push[v]) \intersect Carried(v) = {}
      BY DEF IInv, ExclusiveOwnership
    <3>4. held'[v] = held[v] /\ push'[v] = push[v] /\ Carried(v)' = Carried(v)
      BY <1>0, <2>2
    <3>5. Members(list'[v]) \subseteq Members(list[v]) \/ (v = u /\ Members(list'[v]) = S)
      BY <2>1
    <3> QED BY <3>1, <3>3, <3>4, <3>5
  <2>7. \A v \in Threads : Mine(v)' \intersect (Members(free)' \union unmade') = {}
    BY <1>0, <2>4, <2>5 DEF IInv, ExclusiveOwnership
  <2>8. \A v, w \in Threads : v # w => Mine(v)' \intersect Mine(w)' = {}
    <3> SUFFICES ASSUME NEW v \in Threads, NEW w \in Threads, v # w,
                        NEW y \in Mine(v)', y \in Mine(w)'
                 PROVE  FALSE
      OBVIOUS
    <3>1. CASE y \in S
      BY <3>1, <1>0, <2>4, <2>5
    <3>2. CASE y \notin S
      <4>1. y \in Mine(v) /\ y \in Mine(w)
        BY <3>2, <2>4
      <4> QED BY <4>1 DEF IInv, ExclusiveOwnership
    <3> QED BY <3>1, <3>2
  <2> QED BY <1>0, <2>6, <2>7, <2>8 DEF IInv, ExclusiveOwnership
<1> QED BY <1>2, <1>5, <1>6, <1>7, <1>8 DEF IInv

-----------------------------------------------------------------------------
\* Every step keeps the invariant when only one thread pops.
LEMMA NextIInv ==
  ASSUME IInv, SinglePopper, [Next]_vars PROVE IInv'
<1>1. CASE UNCHANGED vars
  BY <1>1 DEF vars, shared, locals, ghosts, IInv, TypeOK, ExclusiveOwnership, Mine, Carried,
     FreeListIntact, HeadFresh, HeadFreshAt, PushShape, PushShapeAt, PushTail,
     ListsIntact, ListAt, LinksOf
<1>2. ASSUME NEW t \in Threads, Calls(t) PROVE IInv'
  BY <1>2, NewCallIInv, DeleteIInv, DeleteFromIInv, DetachIInv, DeleteAllIInv,
     HandOverIInv, HandOverListIInv DEF Calls
<1>3. ASSUME NEW t \in Threads, Steps(t) PROVE IInv'
  BY <1>3, NewReadIInv, NewNextIInv, NewCasIInv, NewOutIInv, NewHeapIInv, NewFailIInv,
     PushReadIInv, PushLinkIInv, PushCasIInv DEF Steps
<1> QED BY <1>1, <1>2, <1>3 DEF Next

\* The inductive invariant of the pool.  One thread calls New*, any number
\* of threads call Delete and DeleteAll (obj_pool_r.h 62-279).
THEOREM Invariance == SinglePopper => (Spec => []IInv)
<1> SUFFICES ASSUME SinglePopper PROVE Spec => []IInv
  OBVIOUS
<1>1. Init => IInv
  BY InitIInv
<1>2. IInv /\ [Next]_vars => IInv'
  BY NextIInv
<1> QED BY <1>1, <1>2, PTL DEF Spec

\* No object is in two hands: what "muti-thread safe" (obj_pool_r.h:10)
\* comes down to, under the one restriction the code needs.
THEOREM SafeOwnership == SinglePopper => (Spec => []ExclusiveOwnership)
<1>1. IInv => ExclusiveOwnership
  BY DEF IInv
<1> QED BY <1>1, Invariance, PTL

\* The free list is exactly the stack of the objects put back, whatever the
\* interleaving of its compare-and-swaps (obj_pool_r.h 62-107, 219-264).
THEOREM FreeListSafe == SinglePopper => (Spec => []FreeListIntact)
<1>1. IInv => FreeListIntact
  BY DEF IInv
<1> QED BY <1>1, Invariance, PTL

\* The threads' own lists keep their order and both directions of links
\* (obj_pool_r.h 109-251).
THEOREM ListsSafe == SinglePopper => (Spec => []ListsIntact)
<1>1. IInv => ListsIntact
  BY DEF IInv
<1> QED BY <1>1, Invariance, PTL

-----------------------------------------------------------------------------
(***************************************************************************)
(* The pool implements PoolSpec: what every step does to the objects in    *)
(* the hands of callers, and what that is in terms of the abstract pool.   *)
(***************************************************************************)
\* Steps inside a call that take nothing from the pool and give nothing to it.
LEMMA QuietMine ==
  ASSUME NEW t \in Threads, UNCHANGED <<held, list, push>>,
         pc[t] # "newOut", pc'[t] # "newOut",
         \A u \in Threads \ {t} : pc'[u] = pc[u] /\ o'[u] = o[u]
  PROVE  \A u \in Threads : Mine(u)' = Mine(u)
<1>1. \A u \in Threads : Carried(u)' = Carried(u)
  BY DEF Carried
<1> QED BY <1>1 DEF Mine

\* New* links the object it has taken: held or in the list, it stays with t.
LEMMA NewOutMine ==
  ASSUME IInv, NEW t \in Threads, NewOut(t)
  PROVE  \A u \in Threads : Mine(u)' = Mine(u)
<1>1. /\ pc[t] = "newOut" /\ o[t] \in Obj /\ list[t] \in Seq(Obj) /\ Carried(t) = {o[t]}
      /\ push' = push
  BY DEF IInv, TypeOK, NewOut, Carried
<1>2. Carried(t)' = {} /\ \A u \in Threads \ {t} : Carried(u)' = Carried(u)
  BY DEF IInv, TypeOK, NewOut, Return, Carried
<1>3. \A u \in Threads \ {t} : held'[u] = held[u] /\ list'[u] = list[u]
  BY DEF IInv, TypeOK, NewOut
<1>4. held'[t] \union Members(list'[t]) = held[t] \union Members(list[t]) \union {o[t]}
  <2>1. CASE op[t] = "New"
    <3>1. list' = list /\ held'[t] = held[t] \union {o[t]}
      BY <2>1 DEF IInv, TypeOK, NewOut
    <3> QED BY <3>1
  <2>2. CASE op[t] # "New"
    <3>1. held' = held /\ list'[t] \in {Append(list[t], o[t]), <<o[t]>> \o list[t]}
      BY <2>2 DEF IInv, TypeOK, NewOut
    <3>2. Append(list[t], o[t]) = list[t] \o <<o[t]>>
      BY <1>1
    <3>3. <<o[t]>> \in Seq(Obj) /\ Members(<<o[t]>>) = {o[t]}
      BY <1>1, SingletonSeq
    <3>4. /\ Members(list[t] \o <<o[t]>>) = Members(list[t]) \union {o[t]}
          /\ Members(<<o[t]>> \o list[t]) = {o[t]} \union Members(list[t])
      BY <1>1, <3>3, MembersConcat
    <3> QED BY <3>1, <3>2, <3>4
  <2> QED BY <2>1, <2>2
<1>5. Mine(t)' = Mine(t)
  BY <1>1, <1>2, <1>4 DEF Mine
<1> QED BY <1>1, <1>2, <1>3, <1>5 DEF Mine

\* A call that starts a push, or Detach, keeps the objects with the thread.
LEMMA CallMine ==
  ASSUME IInv, NEW t \in Threads, NEW x \in Obj,
         \/ Delete(t, x) \/ DeleteFrom(t, x) \/ Detach(t, x) \/ DeleteAll(t)
  PROVE  \A u \in Threads : Mine(u)' = Mine(u)
<1>1. /\ pc[t] = "idle" /\ push[t] = <<>> /\ list[t] \in Seq(Obj)
      /\ op[t] = "none" /\ Distinct(list[t])
  BY DEF IInv, TypeOK, Delete, DeleteFrom, Detach, DeleteAll, PushShape, PushShapeAt, PcPush,
     ListsIntact, ListAt, ListOK
<1>2. \A u \in Threads : Carried(u)' = Carried(u)
  BY <1>1 DEF IInv, TypeOK, Carried, Delete, DeleteFrom, Detach, DeleteAll, StartPush, locals
<1>3. \A u \in Threads \ {t} : held'[u] = held[u] /\ list'[u] = list[u] /\ push'[u] = push[u]
  BY DEF IInv, TypeOK, Delete, DeleteFrom, Detach, DeleteAll, StartPush
<1>4. Members(<<x>>) = {x} /\ Members(<<>>) = {}
  BY SingletonSeq, EmptySeq
<1>5. x \in Members(list[t]) => Members(Without(list[t], x)) = Members(list[t]) \ {x}
  <2> SUFFICES ASSUME x \in Members(list[t])
               PROVE  Members(Without(list[t], x)) = Members(list[t]) \ {x}
    OBVIOUS
  <2>1. PICK j \in 1 .. Len(list[t]) : x = list[t][j]
    BY <1>1 DEF Members
  <2> QED BY <2>1, <1>1, WithoutIsShift
<1>6. held'[t] \union Members(list'[t]) \union Members(push'[t])
        = held[t] \union Members(list[t]) \union Members(push[t])
  <2>1. CASE Delete(t, x)
    <3>1. x \in held[t] /\ held'[t] = held[t] \ {x} /\ list' = list /\ push'[t] = <<x>>
      BY <2>1 DEF IInv, TypeOK, Delete, StartPush
    <3> QED BY <3>1, <1>1, <1>4
  <2>2. CASE DeleteFrom(t, x)
    <3>1. x \in Members(list[t]) /\ held' = held /\ list'[t] = Without(list[t], x) /\ push'[t] = <<x>>
      BY <2>2 DEF IInv, TypeOK, DeleteFrom, StartPush
    <3> QED BY <3>1, <1>1, <1>4, <1>5
  <2>3. CASE Detach(t, x)
    <3>1. /\ x \in Members(list[t]) /\ held'[t] = held[t] \union {x}
          /\ list'[t] = Without(list[t], x) /\ push' = push
      BY <2>3 DEF IInv, TypeOK, Detach
    <3> QED BY <3>1, <1>5
  <2>4. CASE DeleteAll(t)
    <3>1. held' = held /\ list'[t] = <<>> /\ push'[t] = list[t]
      BY <2>4 DEF IInv, TypeOK, DeleteAll, StartPush
    <3> QED BY <3>1, <1>1, <1>4
  <2> QED BY <2>1, <2>2, <2>3, <2>4
<1> QED BY <1>2, <1>3, <1>6 DEF Mine

\* Callers that pass objects on keep them among the objects in use.
LEMMA HandOverHeld ==
  ASSUME IInv, NEW t \in Threads, NEW u \in Threads, NEW x \in Obj,
         HandOver(t, u, x) \/ HandOverList(t, u)
  PROVE  Held' = Held
<1>1. \A v \in Threads : Carried(v)' = Carried(v)
  BY DEF HandOver, HandOverList, locals, Carried
<1>2. push' = push /\ t # u
  BY DEF HandOver, HandOverList
<1>3. \A v \in Threads \ {t, u} : held'[v] = held[v] /\ list'[v] = list[v]
  BY DEF HandOver, HandOverList, IInv, TypeOK
<1>4. held'[t] \union held'[u] = held[t] \union held[u]
  BY DEF HandOver, HandOverList, IInv, TypeOK
<1>5. Members(list'[t]) \union Members(list'[u]) = Members(list[t]) \union Members(list[u])
  <2>1. CASE HandOver(t, u, x)
    BY <2>1 DEF HandOver
  <2>2. CASE HandOverList(t, u)
    <3>1. list'[t] = <<>> /\ list'[u] = list[t]
      BY <2>2 DEF HandOverList, IInv, TypeOK
    <3>2. list[u] \in Seq(Obj) /\ Linked(NULL, next, list[u], NULL)
      BY <2>2 DEF HandOverList, IInv, TypeOK, ListsIntact, ListAt, ListOK, LinksOf
    <3>3. list[u] = <<>>
      BY <3>2, NullAssumption DEF Linked
    <3> QED BY <3>1, <3>3, EmptySeq
  <2> QED BY <2>1, <2>2
<1>6. \A v \in Threads \ {t, u} : Mine(v)' = Mine(v)
  BY <1>1, <1>2, <1>3 DEF Mine
<1>7. Mine(t)' \union Mine(u)' = Mine(t) \union Mine(u)
  BY <1>1, <1>2, <1>4, <1>5 DEF Mine
<1> QED BY <1>6, <1>7 DEF Held

\* The four things a step can do to the free list and to the objects in use.
LEMMA StepHeld ==
  ASSUME IInv, NEW t \in Threads, Calls(t) \/ Steps(t)
  PROVE  \/ free' = free /\ unmade' = unmade /\ Held' = Held
         \/ \E x \in unmade : free' = free /\ unmade' = unmade \ {x} /\ Held' = Held \union {x}
         \/ /\ free # <<>> /\ free' = Tail(free) /\ unmade' = unmade
            /\ Head(free) \notin Held /\ Held' = Held \union {Head(free)}
         \/ /\ push[t] # <<>> /\ free' = push[t] \o free /\ unmade' = unmade
            /\ Members(push[t]) \subseteq Held /\ Held' = Held \ Members(push[t])
<1>0. (\A u \in Threads : Mine(u)' = Mine(u)) => Held' = Held
  BY DEF Held
<1>1. CASE Calls(t)
  <2>1. ASSUME NEW what \in NewOps, NewCall(t, what) PROVE free' = free /\ unmade' = unmade /\ Held' = Held
    BY <1>0, <2>1, QuietMine DEF NewCall, ghosts, IInv, TypeOK
  <2>2. ASSUME NEW x \in Obj, Delete(t, x) \/ DeleteFrom(t, x) \/ Detach(t, x) \/ DeleteAll(t)
        PROVE free' = free /\ unmade' = unmade /\ Held' = Held
    BY <1>0, <2>2, CallMine DEF Delete, DeleteFrom, Detach, DeleteAll, StartPush
  <2>3. ASSUME DeleteAll(t) PROVE free' = free /\ unmade' = unmade /\ Held' = Held
    <3>1. first[t] \in Obj
      BY <2>3 DEF DeleteAll, IInv, TypeOK
    <3> QED BY <3>1, <2>2, <2>3
  <2>4. ASSUME NEW u \in Threads, NEW x \in Obj, HandOver(t, u, x)
        PROVE free' = free /\ unmade' = unmade /\ Held' = Held
    BY <2>4, HandOverHeld DEF HandOver
  <2>5. ASSUME NEW u \in Threads, HandOverList(t, u)
        PROVE free' = free /\ unmade' = unmade /\ Held' = Held
    <3>1. first[t] \in Obj
      BY <2>5 DEF HandOverList, IInv, TypeOK
    <3> QED BY <3>1, <2>5, HandOverHeld DEF HandOverList
  <2> QED BY <1>1, <2>1, <2>2, <2>3, <2>4, <2>5 DEF Calls
<1>2. CASE NewRead(t) \/ NewNext(t) \/ NewFail(t) \/ PushRead(t) \/ PushLink(t)
  <2>1. free' = free /\ unmade' = unmade /\ UNCHANGED <<held, list, push>>
    BY <1>2 DEF NewRead, NewNext, NewFail, PushRead, PushLink, ghosts
  <2>2. /\ pc[t] # "newOut" /\ pc'[t] # "newOut"
        /\ \A u \in Threads \ {t} : pc'[u] = pc[u] /\ o'[u] = o[u]
    BY <1>2 DEF NewRead, NewNext, NewFail, PushRead, PushLink, Return, IInv, TypeOK
  <2> QED BY <1>0, <2>1, <2>2, QuietMine
<1>3. CASE NewOut(t)
  BY <1>0, <1>3, NewOutMine DEF NewOut
<1>4. CASE NewHeap(t)
  <2>1. PICK x \in unmade : unmade' = unmade \ {x} /\ o' = [o EXCEPT ![t] = x]
    BY <1>4 DEF NewHeap
  <2>2. /\ Carried(t)' = {x} /\ Carried(t) = {}
        /\ \A u \in Threads \ {t} : Carried(u)' = Carried(u)
    BY <1>4, <2>1 DEF Carried, NewHeap, IInv, TypeOK
  <2>3. Mine(t)' = Mine(t) \union {x} /\ \A u \in Threads \ {t} : Mine(u)' = Mine(u)
    BY <1>4, <2>2 DEF Mine, NewHeap
  <2>4. Held' = Held \union {x}
    BY <2>3 DEF Held
  <2> QED BY <1>4, <2>1, <2>4 DEF NewHeap
<1>5. CASE NewCas(t)
  <2>1. CASE obj_freelist # o[t]
    <3>1. free' = free /\ unmade' = unmade /\ UNCHANGED <<held, list, push>>
      BY <1>5, <2>1 DEF NewCas
    <3>2. /\ pc[t] # "newOut" /\ pc'[t] # "newOut"
          /\ \A u \in Threads \ {t} : pc'[u] = pc[u] /\ o'[u] = o[u]
      BY <1>5, <2>1 DEF NewCas, IInv, TypeOK
    <3> QED BY <1>0, <3>1, <3>2, QuietMine
  <2>2. CASE obj_freelist = o[t]
    <3>1. free \in Seq(Obj) /\ Linked(obj_freelist, next, free, NULL) /\ o[t] \in Members(free)
      BY <1>5 DEF IInv, TypeOK, FreeListIntact, HeadFresh, HeadFreshAt, NewCas
    <3>2. free # <<>>
      BY <3>1, EmptySeq
    <3>3. free' = Tail(free) /\ unmade' = unmade /\ Head(free) = o[t]
      BY <1>5, <2>2, <3>1, <3>2 DEF NewCas, Linked
    <3>4. /\ Carried(t)' = {o[t]} /\ Carried(t) = {}
          /\ \A u \in Threads \ {t} : Carried(u)' = Carried(u)
      BY <1>5, <2>2 DEF Carried, NewCas, IInv, TypeOK
    <3>5. Mine(t)' = Mine(t) \union {o[t]} /\ \A u \in Threads \ {t} : Mine(u)' = Mine(u)
      BY <1>5, <3>4 DEF Mine, NewCas
    <3>6. Held' = Held \union {o[t]}
      BY <3>5 DEF Held
    <3>7. o[t] \notin Held
      BY <3>1 DEF IInv, ExclusiveOwnership, Held
    <3> QED BY <3>2, <3>3, <3>6, <3>7
  <2> QED BY <2>1, <2>2
<1>6. CASE PushCas(t)
  <2>1. CASE obj_freelist # o[t]
    <3>1. free' = free /\ unmade' = unmade /\ UNCHANGED <<held, list, push>>
      BY <1>6, <2>1 DEF PushCas
    <3>2. /\ pc[t] # "newOut" /\ pc'[t] # "newOut"
          /\ \A u \in Threads \ {t} : pc'[u] = pc[u] /\ o'[u] = o[u]
      BY <1>6, <2>1 DEF PushCas, IInv, TypeOK
    <3> QED BY <1>0, <3>1, <3>2, QuietMine
  <2>2. CASE obj_freelist = o[t]
    <3>1. push[t] # <<>>
      BY <1>6, PushFacts DEF PushCas, PcPush
    <3>2. free' = push[t] \o free /\ unmade' = unmade /\ UNCHANGED <<held, list>>
      BY <1>6, <2>2 DEF PushCas, Pushed
    <3>3. push'[t] = <<>> /\ \A u \in Threads \ {t} : push'[u] = push[u]
      BY <1>6, <2>2 DEF PushCas, Pushed, IInv, TypeOK
    <3>4. Carried(t) = {} /\ \A u \in Threads : Carried(u)' = Carried(u)
      <4>1. /\ pc[t] = "pushCas" /\ pc'[t] = "idle"
            /\ \A u \in Threads \ {t} : pc'[u] = pc[u] /\ o'[u] = o[u]
        BY <1>6, <2>2 DEF PushCas, Pushed, Return, IInv, TypeOK
      <4> QED BY <4>1 DEF Carried
    <3>5. \A u \in Threads \ {t} : Mine(u)' = Mine(u) /\ Mine(u) \intersect Mine(t) = {}
      BY <3>2, <3>3, <3>4 DEF Mine, IInv, ExclusiveOwnership
    <3>6. Mine(t)' = Mine(t) \ Members(push[t]) /\ Members(push[t]) \subseteq Mine(t)
      BY <3>2, <3>3, <3>4, EmptySeq DEF Mine, IInv, ExclusiveOwnership
    <3>7. Members(push[t]) \subseteq Held
      BY <3>6 DEF Held
    <3>8. Held' = Held \ Members(push[t])
      BY <3>5, <3>6 DEF Held
    <3> QED BY <3>1, <3>2, <3>7, <3>8
  <2> QED BY <2>1, <2>2
<1> QED BY <1>1, <1>2, <1>3, <1>4, <1>5, <1>6 DEF Steps

\* Every step of the threads is a step of PoolSpec or leaves its state alone.
LEMMA StepRefines == IInv /\ [Next]_vars => [Pool!Next]_(Pool!vars)
<1> SUFFICES ASSUME IInv, [Next]_vars PROVE [Pool!Next]_(Pool!vars)
  OBVIOUS
<1>1. CASE UNCHANGED vars
  <2>1. \A u \in Threads : Mine(u)' = Mine(u)
    BY <1>1 DEF vars, locals, ghosts, Mine, Carried
  <2> QED BY <1>1, <2>1 DEF vars, ghosts, Pool!vars, Held
<1>2. CASE Next
  <2>1. PICK t \in Threads : Calls(t) \/ Steps(t)
    BY <1>2 DEF Next
  <2>2. CASE free' = free /\ unmade' = unmade /\ Held' = Held
    BY <2>2 DEF Pool!vars
  <2>3. CASE \E x \in unmade : free' = free /\ unmade' = unmade \ {x} /\ Held' = Held \union {x}
    <3>1. PICK x \in unmade : free' = free /\ unmade' = unmade \ {x} /\ Held' = Held \union {x}
      BY <2>3
    <3>2. x \in Obj /\ Pool!Make(x)
      BY <3>1 DEF Pool!Make, IInv, TypeOK
    <3> QED BY <3>2 DEF Pool!Next
  <2>4. CASE /\ free # <<>> /\ free' = Tail(free) /\ unmade' = unmade
             /\ Head(free) \notin Held /\ Held' = Held \union {Head(free)}
    <3>1. Pool!Reuse
      BY <2>4 DEF Pool!Reuse
    <3> QED BY <3>1 DEF Pool!Next
  <2>5. CASE /\ push[t] # <<>> /\ free' = push[t] \o free /\ unmade' = unmade
             /\ Members(push[t]) \subseteq Held /\ Held' = Held \ Members(push[t])
    <3>1. push[t] \in Seq(Obj) /\ free \in Seq(Obj)
      BY DEF IInv, TypeOK
    <3>2. /\ Len(push[t]) \in 1 .. Len(free')
          /\ {free'[i] : i \in 1 .. Len(push[t])} = Members(push[t])
          /\ SubSeq(free', Len(push[t]) + 1, Len(free')) = free
      <4>1. /\ Len(push[t]) \in 1 .. Len(push[t] \o free)
            /\ {(push[t] \o free)[i] : i \in 1 .. Len(push[t])} = Members(push[t])
            /\ SubSeq(push[t] \o free, Len(push[t]) + 1, Len(push[t] \o free)) = free
        BY <2>5, <3>1, AfterPart
      <4> QED BY <2>5, <4>1
    <3>3. Pool!GiveBack
      BY <2>5, <3>2 DEF Pool!GiveBack
    <3> QED BY <3>3 DEF Pool!Next
  <2> QED BY <2>1, <2>2, <2>3, <2>4, <2>5, StepHeld
<1> QED BY <1>1, <1>2

\* With one thread that calls New*, the lock-free pool does what PoolSpec
\* promises its callers, for any number of threads that give objects back: the
\* compare-and-swaps are where an object changes hands, and every other step
\* is invisible to the callers (obj_pool_r.h 62-279).
THEOREM Refinement == SinglePopper => (Spec => PoolRefinement)
<1> SUFFICES ASSUME SinglePopper PROVE Spec => PoolRefinement
  OBVIOUS
<1>1. Init => Pool!Init
  <2> SUFFICES ASSUME Init PROVE Pool!Init
    OBVIOUS
  <2>1. \A t \in Threads : Mine(t) = {}
    BY EmptySeq DEF Init, Mine, Carried
  <2>2. Held = {}
    BY <2>1 DEF Held
  <2> QED BY <2>2 DEF Init, Pool!Init
<1>2. IInv /\ [Next]_vars => [Pool!Next]_(Pool!vars)
  BY StepRefines
<1> QED BY <1>1, <1>2, Invariance, PTL DEF Spec, PoolRefinement, Pool!Spec
=============================================================================
