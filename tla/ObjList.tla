------------------------------ MODULE ObjList ------------------------------
(***************************************************************************)
(* The intrusive doubly linked lists of obj_pool.h and obj_pool_r.h.  An   *)
(* object carries the two pointers next and prev (obj_base.h); a list is   *)
(* the pointer first to its head.  The last object has next = NULL, and    *)
(* first->prev is the last object, so that insertion at the tail is one    *)
(* step.  Both pools run the same pointer surgery on their callers' lists, *)
(* so it is written once here, on the triple [first, next, prev].          *)
(***************************************************************************)
EXTENDS Integers, Sequences

CONSTANTS Obj,    \* addresses of pooled objects
          NULL    \* the null pointer

ASSUME NullAssumption == NULL \notin Obj

(***************************************************************************)
(* Pointer fields of a list: its head and the next/prev fields of every    *)
(* object of the heap.                                                     *)
(***************************************************************************)
Links == [first : Obj \union {NULL},
          next  : [Obj -> Obj \union {NULL}],
          prev  : [Obj -> Obj \union {NULL}]]

\* New(): the object stands alone (o->next = NULL; o->prev = o).
Alone(L, o) ==
  [first |-> L.first,
   next  |-> [L.next EXCEPT ![o] = NULL],
   prev  |-> [L.prev EXCEPT ![o] = o]]

\* Mutant: the head keeps pointing at the tail of before.
InsertTailStale(L, o) ==
  IF L.first = NULL
  THEN [first |-> o,
        next  |-> [L.next EXCEPT ![o] = NULL],
        prev  |-> [L.prev EXCEPT ![o] = o]]
  ELSE [first |-> L.first,
        next  |-> [L.next EXCEPT ![o] = NULL, ![L.prev[L.first]] = o],
        prev  |-> [L.prev EXCEPT ![o] = L.prev[L.first]]]

\* New(first): insertion at the tail, found through first->prev.
InsertTail(L, o) ==
  IF L.first = NULL
  THEN [first |-> o,
        next  |-> [L.next EXCEPT ![o] = NULL],
        prev  |-> [L.prev EXCEPT ![o] = o]]
  ELSE [first |-> L.first,
        next  |-> [L.next EXCEPT ![o] = NULL, ![L.prev[L.first]] = o],
        prev  |-> [L.prev EXCEPT ![o] = L.prev[L.first], ![L.first] = o]]

\* NewFront(first): insertion at the head, which inherits the tail pointer.
InsertHead(L, o) ==
  [first |-> o,
   next  |-> [L.next EXCEPT ![o] = L.first],
   prev  |-> IF L.first = NULL
             THEN [L.prev EXCEPT ![o] = o]
             ELSE [L.prev EXCEPT ![o] = L.prev[L.first], ![L.first] = o]]

\* Mutant: the new head does not inherit the tail pointer.
UnlinkStale(L, o) ==
  IF o = L.first
  THEN [L EXCEPT !.first = L.next[o]]
  ELSE [first |-> L.first,
        next  |-> [L.next EXCEPT ![L.prev[o]] = L.next[o]],
        prev  |-> IF L.next[o] = NULL
                  THEN [L.prev EXCEPT ![L.first] = L.prev[o]]
                  ELSE [L.prev EXCEPT ![L.next[o]] = L.prev[o]]]

\* The common first half of Delete(first, obj) and Detach(first, obj).
Unlink(L, o) ==
  IF o = L.first
  THEN [first |-> L.next[o],
        next  |-> L.next,
        prev  |-> IF L.next[o] = NULL THEN L.prev
                  ELSE [L.prev EXCEPT ![L.next[o]] = L.prev[L.first]]]
  ELSE [first |-> L.first,
        next  |-> [L.next EXCEPT ![L.prev[o]] = L.next[o]],
        prev  |-> IF L.next[o] = NULL
                  THEN [L.prev EXCEPT ![L.first] = L.prev[o]]
                  ELSE [L.prev EXCEPT ![L.next[o]] = L.prev[o]]]

-----------------------------------------------------------------------------
(***************************************************************************)
(* What the links must say: the objects of the sequence q, in this order.  *)
(***************************************************************************)
Members(q) == {q[i] : i \in DOMAIN q}

Distinct(q) == \A i, j \in DOMAIN q : q[i] = q[j] => i = j

\* q without the object x.
Without(q, x) ==
  LET j == CHOOSE i \in DOMAIN q : q[i] = x
  IN  [i \in 1 .. Len(q) - 1 |-> IF i < j THEN q[i] ELSE q[i+1]]

\* Following next from head meets the objects of q one after the other and
\* then arrives at end.
Linked(head, next, q, end) ==
  /\ head = IF q = <<>> THEN end ELSE q[1]
  /\ \A i \in 1 .. Len(q) - 1 : next[q[i]] = q[i+1]
  /\ q # <<>> => next[q[Len(q)]] = end

\* A list of the pool: linked both ways, first->prev being the last object.
ListOK(L, q) ==
  /\ Distinct(q)
  /\ Linked(L.first, L.next, q, NULL)
  /\ \A i \in 2 .. Len(q) : L.prev[q[i]] = q[i-1]
  /\ q # <<>> => L.prev[q[1]] = q[Len(q)]
=============================================================================
