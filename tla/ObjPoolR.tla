------------------------------ MODULE ObjPoolR ------------------------------
(***************************************************************************)
(* obj_pool_r.h: the lock-free object pool shared by threads.  The free    *)
(* list is a stack linked through the objects' next fields and updated     *)
(* with compare-and-swap; every read of the shared head, every read of a   *)
(* next field that another thread may own by then, and every CAS is a step *)
(* of its own.  Lists (first) and standalone objects belong to one thread. *)
(***************************************************************************)
EXTENDS ObjList

CONSTANTS Threads,    \* threads that use the pool
          Poppers     \* the threads among them that call New*

ASSUME ThreadAssumption == Poppers \subseteq Threads

VARIABLES
  obj_freelist,  \* head of the free list
  next, prev,    \* pointer fields of every object
  first,         \* first[t]: head of the list thread t works on
  pc,            \* where each thread is inside its call
  op,            \* which call that is
  o,             \* local o of New*, Delete, AddToFreeList: head as read
  n,             \* local n of New*: o->next as read
  obj,           \* argument of Delete / AddToFreeList being pushed
  \* Auxiliary: who has which object.  None of these is read by a step of
  \* the pool, they only say what the callers were promised.
  unmade,        \* addresses not returned by operator new yet
  free,          \* objects in the free list, from the head on
  held,          \* held[t]: standalone objects of thread t
  list,          \* list[t]: objects of the list first[t]
  push           \* push[t]: objects thread t is putting into the free list

shared == <<obj_freelist, next, prev>>
locals == <<pc, op, o, n, obj>>
ghosts == <<unmade, free, held, list, push>>
vars   == <<shared, first, locals, ghosts>>

NewOps  == {"New", "NewTail", "NewFront"}
PushOps == {"Delete", "DeleteAll"}

Init ==
  /\ obj_freelist = NULL
  /\ next  = [x \in Obj |-> NULL]
  /\ prev  = [x \in Obj |-> NULL]
  /\ first = [t \in Threads |-> NULL]
  /\ pc    = [t \in Threads |-> "idle"]
  /\ op    = [t \in Threads |-> "none"]
  /\ o     = [t \in Threads |-> NULL]
  /\ n     = [t \in Threads |-> NULL]
  /\ obj   = [t \in Threads |-> NULL]
  /\ unmade = Obj
  /\ free   = <<>>
  /\ held   = [t \in Threads |-> {}]
  /\ list   = [t \in Threads |-> <<>>]
  /\ push   = [t \in Threads |-> <<>>]

\* The links thread t sees for its own list.
LinksOf(t) == [first |-> first[t], next |-> next, prev |-> prev]

SetLinks(t, L) ==
  /\ first' = [first EXCEPT ![t] = L.first]
  /\ next' = L.next
  /\ prev' = L.prev

\* A call returns; its locals die.
Return(t) ==
  /\ pc'  = [pc EXCEPT ![t] = "idle"]
  /\ op'  = [op EXCEPT ![t] = "none"]
  /\ o'   = [o EXCEPT ![t] = NULL]
  /\ n'   = [n EXCEPT ![t] = NULL]
  /\ obj' = [obj EXCEPT ![t] = NULL]

-----------------------------------------------------------------------------
(***************************************************************************)
(* New(), New(first), NewFront(first).                                     *)
(***************************************************************************)
NewCall(t, what) ==
  /\ pc[t] = "idle"
  /\ t \in Poppers
  /\ pc' = [pc EXCEPT ![t] = "newRead"]
  /\ op' = [op EXCEPT ![t] = what]
  /\ UNCHANGED <<shared, first, o, n, obj, ghosts>>

\* o = obj_freelist; while(o) ...
NewRead(t) ==
  /\ pc[t] = "newRead"
  /\ o' = [o EXCEPT ![t] = obj_freelist]
  /\ pc' = [pc EXCEPT ![t] = IF obj_freelist = NULL THEN "newHeap" ELSE "newNext"]
  /\ UNCHANGED <<shared, first, op, n, obj, ghosts>>

\* n = o->next; the object may have left the free list since it was read.
NewNext(t) ==
  /\ pc[t] = "newNext"
  /\ n' = [n EXCEPT ![t] = next[o[t]]]
  /\ pc' = [pc EXCEPT ![t] = "newCas"]
  /\ UNCHANGED <<shared, first, op, o, obj, ghosts>>

\* Mutant: a plain store where the code has a compare-and-swap.
NewStore(t) ==
  /\ pc[t] = "newCas"
  /\ obj_freelist' = n[t]
  /\ free' = IF free = <<>> THEN free ELSE Tail(free)
  /\ pc' = [pc EXCEPT ![t] = "newOut"]
  /\ UNCHANGED <<next, prev, first, op, o, n, obj, unmade, held, list, push>>

\* CAS(&obj_freelist, o, n); a failed CAS reads the head again.
NewCas(t) ==
  /\ pc[t] = "newCas"
  /\ IF obj_freelist = o[t]
     THEN /\ obj_freelist' = n[t]
          /\ free' = IF free = <<>> THEN free ELSE Tail(free)
          /\ pc' = [pc EXCEPT ![t] = "newOut"]
     ELSE /\ pc' = [pc EXCEPT ![t] = "newRead"]
          /\ UNCHANGED <<obj_freelist, free>>
  /\ UNCHANGED <<next, prev, first, op, o, n, obj, unmade, held, list, push>>

\* The free list was empty: new obj_type(), which may throw.
NewHeap(t) ==
  /\ pc[t] = "newHeap"
  /\ \E x \in unmade :
       /\ unmade' = unmade \ {x}
       /\ o' = [o EXCEPT ![t] = x]
  /\ pc' = [pc EXCEPT ![t] = "newOut"]
  /\ UNCHANGED <<shared, first, op, n, obj, free, held, list, push>>

NewFail(t) ==
  /\ pc[t] = "newHeap"
  /\ Return(t)
  /\ UNCHANGED <<shared, first, ghosts>>

\* out: link the object as the call asks and return it.
NewLinks(t) ==
  IF op[t] = "New" THEN Alone(LinksOf(t), o[t])
  ELSE IF op[t] = "NewTail" THEN InsertTail(LinksOf(t), o[t])
  ELSE InsertHead(LinksOf(t), o[t])

NewOut(t) ==
  /\ pc[t] = "newOut"
  /\ SetLinks(t, NewLinks(t))
  /\ IF op[t] = "New"
     THEN held' = [held EXCEPT ![t] = @ \union {o[t]}] /\ UNCHANGED list
     ELSE /\ list' = [list EXCEPT ![t] = IF op[t] = "NewTail" THEN Append(@, o[t])
                                         ELSE <<o[t]>> \o @]
          /\ UNCHANGED held
  /\ Return(t)
  /\ UNCHANGED <<obj_freelist, unmade, free, push>>

-----------------------------------------------------------------------------
(***************************************************************************)
(* Delete(obj), Delete(first, obj), DeleteAll(first) -> AddToFreeList.     *)
(* ReleaseObject() leaves next and prev alone (NOTE of line 96) and is not *)
(* visible here.  The three calls end in the same push loop.               *)
(***************************************************************************)
StartPush(t, what, x, q) ==
  /\ pc' = [pc EXCEPT ![t] = "pushRead"]
  /\ op' = [op EXCEPT ![t] = what]
  /\ obj' = [obj EXCEPT ![t] = x]
  /\ push' = [push EXCEPT ![t] = q]
  /\ UNCHANGED <<obj_freelist, o, n, unmade, free>>

Delete(t, x) ==
  /\ pc[t] = "idle"
  /\ x \in held[t]
  /\ held' = [held EXCEPT ![t] = @ \ {x}]
  /\ StartPush(t, "Delete", x, <<x>>)
  /\ UNCHANGED <<next, prev, first, list>>

DeleteFrom(t, x) ==
  /\ pc[t] = "idle"
  /\ x \in Members(list[t])
  /\ list' = [list EXCEPT ![t] = Without(@, x)]
  /\ SetLinks(t, Unlink(LinksOf(t), x))
  /\ StartPush(t, "Delete", x, <<x>>)
  /\ UNCHANGED held

\* Callers pass a non-empty list: AddToFreeList dereferences first->prev.
DeleteAll(t) ==
  /\ pc[t] = "idle"
  /\ first[t] # NULL
  /\ list' = [list EXCEPT ![t] = <<>>]
  /\ StartPush(t, "DeleteAll", first[t], list[t])
  /\ UNCHANGED <<next, prev, first, held>>

\* o = obj_freelist
PushRead(t) ==
  /\ pc[t] = "pushRead"
  /\ o' = [o EXCEPT ![t] = obj_freelist]
  /\ pc' = [pc EXCEPT ![t] = "pushLink"]
  /\ UNCHANGED <<shared, first, op, n, obj, ghosts>>

\* Mutant: AddToFreeList redirects the first object of the list.
PushFirst(t) == obj[t]

\* The object whose next is redirected: obj itself, or the list's last.
PushTail(t) == IF op[t] = "DeleteAll" THEN prev[obj[t]] ELSE obj[t]

\* obj->next = o, or ((obj_type *)obj->prev)->next = o
PushLink(t) ==
  /\ pc[t] = "pushLink"
  /\ next' = [next EXCEPT ![PushTail(t)] = o[t]]
  /\ pc' = [pc EXCEPT ![t] = "pushCas"]
  /\ UNCHANGED <<obj_freelist, prev, first, op, o, n, obj, ghosts>>

\* What a successful CAS installs; DeleteAll clears first after it.
Pushed(t) ==
  /\ obj_freelist' = obj[t]
  /\ free' = push[t] \o free
  /\ push' = [push EXCEPT ![t] = <<>>]
  /\ first' = IF op[t] = "DeleteAll" THEN [first EXCEPT ![t] = NULL] ELSE first
  /\ Return(t)

\* Mutant: a plain store where the code has a compare-and-swap.
PushStore(t) ==
  /\ pc[t] = "pushCas"
  /\ Pushed(t)
  /\ UNCHANGED <<next, prev, unmade, held, list>>

\* Mutant: a failed CAS retries with the head read before it.
PushStale(t) ==
  /\ pc[t] = "pushCas"
  /\ IF obj_freelist = o[t] THEN Pushed(t)
     ELSE /\ pc' = [pc EXCEPT ![t] = "pushLink"]
          /\ UNCHANGED <<obj_freelist, free, push, first, op, o, n, obj>>
  /\ UNCHANGED <<next, prev, unmade, held, list>>

\* CAS(&obj_freelist, o, obj); a failed CAS reads the head again.
PushCas(t) ==
  /\ pc[t] = "pushCas"
  /\ IF obj_freelist = o[t] THEN Pushed(t)
     ELSE /\ pc' = [pc EXCEPT ![t] = "pushRead"]
          /\ UNCHANGED <<obj_freelist, free, push, first, op, o, n, obj>>
  /\ UNCHANGED <<next, prev, unmade, held, list>>

\* Detach(first, obj): unlink and clear both pointers.
Detach(t, x) ==
  /\ pc[t] = "idle"
  /\ x \in Members(list[t])
  /\ LET L == Unlink(LinksOf(t), x) IN
       SetLinks(t, [L EXCEPT !.next[x] = NULL, !.prev[x] = NULL])
  /\ list' = [list EXCEPT ![t] = Without(@, x)]
  /\ held' = [held EXCEPT ![t] = @ \union {x}]
  /\ UNCHANGED <<obj_freelist, locals, unmade, free, push>>

\* The callers: an object made by one thread may be finished by another.
HandOver(t, u, x) ==
  /\ t # u
  /\ pc[t] = "idle"
  /\ x \in held[t]
  /\ held' = [held EXCEPT ![t] = @ \ {x}, ![u] = @ \union {x}]
  /\ UNCHANGED <<shared, first, locals, unmade, free, list, push>>

\* A whole list changes hands the same way, to a thread with none of its own.
HandOverList(t, u) ==
  /\ t # u
  /\ pc[t] = "idle" /\ pc[u] = "idle"
  /\ first[t] # NULL /\ first[u] = NULL
  /\ first' = [first EXCEPT ![t] = NULL, ![u] = first[t]]
  /\ list' = [list EXCEPT ![t] = <<>>, ![u] = list[t]]
  /\ UNCHANGED <<shared, locals, unmade, free, held, push>>

-----------------------------------------------------------------------------
Calls(t) ==
  \/ \E what \in NewOps : NewCall(t, what)
  \/ \E x \in Obj : Delete(t, x) \/ DeleteFrom(t, x) \/ Detach(t, x)
  \/ DeleteAll(t)
  \/ \E u \in Threads : HandOverList(t, u)
  \/ \E u \in Threads, x \in Obj : HandOver(t, u, x)

\* The steps of a thread inside a call.
Steps(t) ==
  \/ NewRead(t) \/ NewNext(t) \/ NewCas(t) \/ NewOut(t)
  \/ NewHeap(t) \/ NewFail(t)
  \/ PushRead(t) \/ PushLink(t) \/ PushCas(t)

Next == \E t \in Threads : Calls(t) \/ Steps(t)

Spec == Init /\ [][Next]_vars

\* The operating system schedules every thread that is inside a call.
FairSpec == Spec /\ \A t \in Threads : WF_vars(Steps(t))
-----------------------------------------------------------------------------
(***************************************************************************)
(* Properties.                                                             *)
(***************************************************************************)
PcNew  == {"newRead", "newNext", "newCas", "newHeap", "newOut"}
PcPush == {"pushRead", "pushLink", "pushCas"}

\* Types of all variables, and which locals are live at which point: New*
\* dereferences o from line 68 on and links it at out:, the push loops
\* dereference obj.
TypeOK ==
  /\ obj_freelist \in Obj \union {NULL}
  /\ next \in [Obj -> Obj \union {NULL}]
  /\ prev \in [Obj -> Obj \union {NULL}]
  /\ first \in [Threads -> Obj \union {NULL}]
  /\ pc \in [Threads -> {"idle"} \union PcNew \union PcPush]
  /\ op \in [Threads -> {"none"} \union NewOps \union PushOps]
  /\ o \in [Threads -> Obj \union {NULL}]
  /\ n \in [Threads -> Obj \union {NULL}]
  /\ obj \in [Threads -> Obj \union {NULL}]
  /\ unmade \in SUBSET Obj
  /\ free \in Seq(Obj)
  /\ held \in [Threads -> SUBSET Obj]
  /\ list \in [Threads -> Seq(Obj)]
  /\ push \in [Threads -> Seq(Obj)]
  /\ \A t \in Threads :
       /\ pc[t] = "idle" => op[t] = "none"
       /\ pc[t] \in PcNew => op[t] \in NewOps
       /\ pc[t] \in PcPush => op[t] \in PushOps /\ obj[t] \in Obj
       /\ pc[t] \in {"newNext", "newCas", "newOut"} => o[t] \in Obj

\* The object thread t has taken from the pool but not yet linked.
Carried(t) == IF pc[t] = "newOut" THEN {o[t]} ELSE {}

Mine(t) == held[t] \union Members(list[t]) \union Members(push[t]) \union Carried(t)

\* An object is in one place at a time: never made, in the free list, or in
\* the hands of one thread, there as a standalone object, in the list, on
\* its way in or on its way out.  This is what New* promises ("muti-thread
\* safe", line 10): no object reaches two callers.
ExclusiveOwnership ==
  /\ unmade \intersect Members(free) = {}
  /\ \A t \in Threads :
       /\ Mine(t) \intersect (Members(free) \union unmade) = {}
       /\ held[t] \intersect (Members(list[t]) \union Members(push[t]) \union Carried(t)) = {}
       /\ Members(list[t]) \intersect (Members(push[t]) \union Carried(t)) = {}
       /\ Members(push[t]) \intersect Carried(t) = {}
  /\ \A t, u \in Threads : t # u => Mine(t) \intersect Mine(u) = {}

\* Following next from obj_freelist meets every object that was put back
\* once, the last one first, and nothing else, and ends: concurrent New*,
\* Delete and AddToFreeList lose no object, and a New* never walks into a
\* live object.
FreeListIntact == Distinct(free) /\ Linked(obj_freelist, next, free, NULL)

\* The lists of the threads stay well linked in both directions although
\* the free list uses the same next fields.
ListAt(t) == op[t] # "DeleteAll" => ListOK(LinksOf(t), list[t])

ListsIntact == \A t \in Threads : ListAt(t)

\* Lock-freedom: a thread that never gets out of its call is overtaken
\* again and again by others that do change the head.
LockFree ==
  \A t \in Threads :
    \/ []<>(pc[t] = "idle")
    \/ []<><<obj_freelist' # obj_freelist>>_vars

\* The objects in the hands of all threads.
Held == UNION {Mine(t) : t \in Threads}

\* The pool implements the abstract pool: a stack of spare objects.
Pool == INSTANCE PoolSpec WITH pooled <- free, out <- Held

PoolRefinement == Pool!Spec

-----------------------------------------------------------------------------
(***************************************************************************)
(* The inductive invariant.  The conjunct that carries it is HeadFresh:    *)
(* between reading the head and the CAS the object read stays in the free  *)
(* list, so a CAS that succeeds installs its current successor.  It needs  *)
(* the popping thread to be alone (SinglePopper); pushers may be many.     *)
(***************************************************************************)
SinglePopper == \A t, u \in Poppers : t = u

HeadFreshAt(t) ==
  /\ pc[t] \in PcNew => t \in Poppers
  /\ pc[t] \in {"newNext", "newCas"} => o[t] \in Members(free)
  /\ pc[t] = "newCas" => n[t] = next[o[t]]

HeadFresh == \A t \in Threads : HeadFreshAt(t)

\* What a thread is pushing is one object, or a list whose last object is
\* prev of the first.  Before the link is redirected the last next may be
\* anything: NULL, or the head seen by an attempt that failed.
PushShapeAt(t) ==
  /\ pc[t] \notin PcPush => push[t] = <<>>
  /\ pc[t] \in PcPush =>
       /\ push[t] # <<>>
       /\ Distinct(push[t])
       /\ push[t][Len(push[t])] = PushTail(t)
       /\ Linked(obj[t], next, push[t], next[PushTail(t)])
       /\ op[t] = "DeleteAll" => first[t] = obj[t] /\ list[t] = <<>>
  /\ pc[t] = "pushCas" => next[PushTail(t)] = o[t]

PushShape == \A t \in Threads : PushShapeAt(t)

IInv ==
  /\ TypeOK
  /\ ExclusiveOwnership
  /\ FreeListIntact
  /\ HeadFresh
  /\ PushShape
  /\ ListsIntact
=============================================================================
