------------------------------ MODULE MemPool ------------------------------
(***************************************************************************)
(* mem_pool.cc: buffers in size classes.  Each class (UcMemPool) recycles  *)
(* its UcMem elements through an ObjPool, counts what is handed out and    *)
(* what lies free, and has a limit; a class that reaches its limit takes   *)
(* limit away from the other classes (Shrink) and tries again.  The pools  *)
(* belong to one thread (__thread magics), so calls do not overlap; a call *)
(* of UcMemManager::Alloc is followed step by step, because its loops      *)
(* create pools on the way and stop at the first success.                  *)
(***************************************************************************)
EXTENDS MemClass, Sums, Sequences, FiniteSets

CONSTANTS
  MaxSizes,      \* arguments of SetMaxSize, the default of GetInstance too
  Requests,      \* arguments of UcMemManager::Alloc
  QuotaBound,    \* a class whose limit has grown past this takes no requests
  DirectBound    \* buffers above the biggest class, at a time

ASSUME MaxSizesAssumption == MaxSizes \subseteq Nat /\ MaxSizes # {}
ASSUME RequestsAssumption == Requests \subseteq Nat

VARIABLES
  mng_max,       \* UcMemManager::sz_max
  made,          \* classes whose pool exists
  sz_max,        \* per class: limit
  sz_total,      \*            bytes handed out
  sz_free,       \*            bytes lying free
  stack,         \*            free list of the ObjPool, top at the end; TRUE
                 \*            for an element with memory, FALSE for m->mem==NULL
  direct,        \* number of buffers allocated directly
  \* The call of UcMemManager::Alloc in progress.
  pc, magic,
  i,             \* Shrink: the class visited
  shk,           \* Shrink: limit collected so far
  max_free,      \* UcMemPool::Shrink: what may stay free
  got,           \* UcMemPool::Shrink: its shk
  retry,         \* this is the allocation after shrinking
  reported,      \* the "Bug" attributes the current call has reported
  \* Auxiliary.
  out,           \* per class: elements in the hands of callers
  peak,          \* per class: the highest limit it ever had
  granted        \* limit given to all classes at their creation

quota  == <<made, sz_max, peak, granted>>
elems  == <<sz_total, sz_free, stack, out>>
shrink == <<i, shk, max_free, got>>
call   == <<pc, magic, retry, reported, shrink>>
vars   == <<mng_max, direct, quota, elems, call>>

Init ==
  /\ mng_max \in MaxSizes
  /\ made = {}
  /\ direct = 0
  /\ sz_max   = [c \in Classes |-> 0]
  /\ sz_total = [c \in Classes |-> 0]
  /\ sz_free  = [c \in Classes |-> 0]
  /\ stack    = [c \in Classes |-> <<>>]
  /\ out      = [c \in Classes |-> 0]
  /\ peak     = [c \in Classes |-> 0]
  /\ granted = 0
  /\ pc = "idle" /\ magic = 0 /\ retry = FALSE /\ reported = {}
  /\ i = 0 /\ shk = 0 /\ max_free = 0 /\ got = 0

\* The call returns and its locals die; what it reported stays visible.
Return ==
  /\ pc' = "idle"
  /\ magic' = 0 /\ retry' = FALSE
  /\ i' = 0 /\ shk' = 0 /\ max_free' = 0 /\ got' = 0

Larger(a, b) == IF a < b THEN b ELSE a

Flag(bug, cond) == IF cond THEN {bug} ELSE {}

-----------------------------------------------------------------------------
(***************************************************************************)
(* GetPool: a pool comes to life with a share of the manager's limit.      *)
(***************************************************************************)
GetPool(c) ==
  IF c \in made THEN UNCHANGED quota
  ELSE LET share == mng_max \div nr_magics IN
       /\ made' = made \union {c}
       /\ sz_max' = [sz_max EXCEPT ![c] = share]
       /\ peak' = [peak EXCEPT ![c] = Larger(@, share)]
       /\ granted' = granted + share

-----------------------------------------------------------------------------
(***************************************************************************)
(* UcMemManager::Alloc up to the first UcMemPool::Alloc.                   *)
(***************************************************************************)
AllocCall(sz) ==
  /\ pc = "idle"
  /\ sz <= biggest_magic
  /\ \E c \in Classes :
       /\ IsClassOf(c, sz)
       /\ sz_max[c] <= QuotaBound
       /\ magic' = c
  /\ pc' = "getPool"
  /\ reported' = {}
  /\ UNCHANGED <<mng_max, direct, quota, elems, retry, shrink>>

\* Larger than every class: new UcMem(sz), outside the pools.
AllocDirect(sz) ==
  /\ pc = "idle"
  /\ sz > biggest_magic
  /\ direct < DirectBound
  /\ direct' = direct + 1
  /\ reported' = {}
  /\ UNCHANGED <<mng_max, quota, elems, pc, magic, retry, shrink>>

OpenPool ==
  /\ pc = "getPool"
  /\ GetPool(magic)
  /\ pc' = "alloc"
  /\ UNCHANGED <<mng_max, direct, elems, magic, retry, reported, shrink>>

\* new UcMemPool threw.
OpenPoolFail ==
  /\ pc = "getPool"
  /\ magic \notin made
  /\ Return
  /\ UNCHANGED <<mng_max, direct, quota, elems, reported>>

-----------------------------------------------------------------------------
(***************************************************************************)
(* UcMemPool::Alloc.  pool.New() takes the top of the free list, or makes  *)
(* an element without memory when the list is empty.                       *)
(***************************************************************************)
Top(c)   == stack[c][Len(stack[c])]
Below(c) == SubSeq(stack[c], 1, Len(stack[c]) - 1)
Blank(c) == stack[c] # <<>> => ~Top(c)

\* The free list after pool.New(), and after pool.New() and pool.Delete(m)
\* of an element without memory.
Taken(c)    == IF stack[c] = <<>> THEN <<>> ELSE Below(c)
GivenBack(c) == Append(Taken(c), FALSE)

HandOut(c) ==
  /\ sz_total' = [sz_total EXCEPT ![c] = @ + Size[c]]
  /\ stack' = [stack EXCEPT ![c] = Taken(c)]
  /\ out' = [out EXCEPT ![c] = @ + 1]
  /\ Return
  /\ UNCHANGED <<mng_max, direct, quota>>

\* Mutant: the element leaves the free list and its bytes do not.
PickUpKeepsFree ==
  /\ pc = "alloc" /\ ~Blank(magic)
  /\ HandOut(magic)
  /\ UNCHANGED <<sz_free, reported>>

\* pick up old one: there is no look at the limit on this path
PickUp ==
  /\ pc = "alloc" /\ ~Blank(magic)
  /\ reported' = reported \union Flag("SZ_FREE_BAD1", sz_free[magic] < Size[magic])
  /\ sz_free' = [sz_free EXCEPT ![magic] = IF @ < Size[magic] THEN @ ELSE @ - Size[magic]]
  /\ HandOut(magic)

\* Mutant: the limit is compared with what is handed out already.
LimitReachedLate(c) == sz_total[c] > sz_max[c]

LimitReached(c) == sz_total[c] + Size[c] > sz_max[c]

\* allocate memory here
Malloc ==
  /\ pc = "alloc" /\ Blank(magic) /\ ~LimitReached(magic)
  /\ HandOut(magic)
  /\ UNCHANGED <<sz_free, reported>>

MallocFail ==
  /\ pc = "alloc" /\ Blank(magic) /\ ~LimitReached(magic)
  /\ stack' = [stack EXCEPT ![magic] = GivenBack(magic)]
  /\ Return
  /\ UNCHANGED <<mng_max, direct, quota, sz_total, sz_free, out, reported>>

\* pool.New() returned NULL: new UcMem threw.
NewObjFail ==
  /\ pc = "alloc" /\ stack[magic] = <<>>
  /\ Return
  /\ UNCHANGED <<mng_max, direct, quota, elems, reported>>

-----------------------------------------------------------------------------
(***************************************************************************)
(* UcMemManager::Shrink(magic): the other classes, biggest first.          *)
(***************************************************************************)
Before(k) == IF k - 1 = magic THEN k - 2 ELSE k - 1

\* out of memory, exceed_limit = true
Exceed ==
  /\ pc = "alloc" /\ Blank(magic) /\ LimitReached(magic)
  /\ stack' = [stack EXCEPT ![magic] = GivenBack(magic)]
  /\ IF retry
     THEN Return /\ reported' = reported \union {"EXCEED_LIMIT_AFTER_SHRINK"}
     ELSE /\ pc' = "visit"
          /\ i' = Before(nr_magics)
          /\ UNCHANGED <<magic, retry, reported, shk, max_free, got>>
  /\ UNCHANGED <<mng_max, direct, quota, sz_total, sz_free, out>>

Visit ==
  /\ pc = "visit" /\ i >= 0
  /\ GetPool(i)
  /\ pc' = "shrink"
  /\ UNCHANGED <<mng_max, direct, elems, magic, retry, reported, shrink>>

\* GetPool failed: the class is passed over.
VisitFail ==
  /\ pc = "visit" /\ i >= 0
  /\ i \notin made
  /\ i' = Before(i)
  /\ UNCHANGED <<mng_max, direct, quota, elems, pc, magic, retry, reported, shk, max_free, got>>

\* UcMemPool::Shrink: half of the limit that is not allocated, a multiple
\* of the element size (a power of two), when it is worth more than one.
Spare(c) ==
  LET room == sz_max[c] - (sz_total[c] + sz_free[c])
      half == room \div 2
  IN  half - (half % Size[c])

HasSpace(c) ==
  /\ sz_max[c] > 2 * (sz_total[c] + sz_free[c])
  /\ Spare(c) > Size[c]

ShrinkSpace ==
  /\ pc = "shrink" /\ HasSpace(i)
  /\ sz_max' = [sz_max EXCEPT ![i] = @ - Spare(i)]
  /\ got' = Spare(i)
  /\ pc' = "collect"
  /\ UNCHANGED <<mng_max, direct, made, peak, granted, elems, magic, retry, reported,
                 i, shk, max_free>>

\* max_free = min(sz_max/4, sz_total)
ShrinkStart ==
  /\ pc = "shrink" /\ ~HasSpace(i)
  /\ max_free' = IF sz_max[i] \div 4 > sz_total[i] THEN sz_total[i] ELSE sz_max[i] \div 4
  /\ got' = 0
  /\ pc' = "release"
  /\ UNCHANGED <<mng_max, direct, quota, elems, magic, retry, reported, i, shk>>

\* Mutant: m->mem is not reset after free(m->mem).
ReleaseDangling ==
  /\ pc = "release" /\ sz_free[i] > max_free /\ ~Blank(i)
  /\ sz_free' = [sz_free EXCEPT ![i] = @ - Size[i]]
  /\ got' = got + Size[i]
  /\ UNCHANGED <<mng_max, direct, quota, sz_total, stack, out, pc, magic, retry, reported,
                 i, shk, max_free>>

\* One round of while(sz_free > max_free) that frees the memory of the
\* element on top, which goes back on top without it.
Release ==
  /\ pc = "release" /\ sz_free[i] > max_free /\ ~Blank(i)
  /\ stack' = [stack EXCEPT ![i] = Append(Below(i), FALSE)]
  /\ reported' = reported \union Flag("SZ_FREE_BAD3", sz_free[i] < Size[i])
  /\ sz_free' = [sz_free EXCEPT ![i] = IF @ < Size[i] THEN @ ELSE @ - Size[i]]
  /\ got' = got + Size[i]
  /\ UNCHANGED <<mng_max, direct, quota, sz_total, out, pc, magic, retry, i, shk, max_free>>

\* The loop is over, because enough was freed or because the element on top
\* has no memory, and the limit goes down by what was freed.  The list is
\* never empty while sz_free is above max_free (Accounting); BAD4 stands for
\* that case.
ReleaseEnd ==
  /\ pc = "release"
  /\ sz_free[i] <= max_free \/ Blank(i)
  /\ reported' = reported
       \union Flag("SZ_FREE_BAD2", sz_free[i] > max_free /\ stack[i] # <<>>)
       \union Flag("SZ_FREE_BAD4", sz_free[i] > max_free /\ stack[i] = <<>>)
       \union Flag("SZ_MAX_BAD", sz_max[i] < got)
  /\ sz_max' = [sz_max EXCEPT ![i] = IF @ < got THEN @ ELSE @ - got]
  /\ pc' = "collect"
  /\ UNCHANGED <<mng_max, direct, made, peak, granted, elems, magic, retry, i, shk, max_free, got>>

\* Mutant: the loop visits the same class again.
CollectSame ==
  /\ pc = "collect"
  /\ shk' = shk + got
  /\ pc' = IF i > magic /\ shk + got >= Size[magic] THEN "grant" ELSE "visit"
  /\ UNCHANGED <<mng_max, direct, quota, elems, magic, retry, reported, i, max_free, got>>

\* Back in UcMemManager::Shrink: stop when the larger classes gave enough.
Collect ==
  /\ pc = "collect"
  /\ shk' = shk + got
  /\ IF i > magic /\ shk + got >= Size[magic]
     THEN pc' = "grant" /\ UNCHANGED i
     ELSE pc' = "visit" /\ i' = Before(i)
  /\ UNCHANGED <<mng_max, direct, quota, elems, magic, retry, reported, max_free, got>>

ShrinkEnd ==
  /\ pc = "visit" /\ i < 0
  /\ pc' = "grant"
  /\ UNCHANGED <<mng_max, direct, quota, elems, magic, retry, reported, shrink>>

\* Mutant: the limit is replaced where it should be raised.
GrantReplaces ==
  /\ pc = "grant" /\ shk > 0
  /\ sz_max' = [sz_max EXCEPT ![magic] = shk]
  /\ peak' = [peak EXCEPT ![magic] = Larger(@, shk)]
  /\ retry' = TRUE
  /\ pc' = "alloc"
  /\ i' = 0 /\ shk' = 0 /\ max_free' = 0 /\ got' = 0
  /\ UNCHANGED <<mng_max, direct, made, granted, elems, magic, reported>>

\* pool->sz_max += shk, and pool->Alloc again
Grant ==
  /\ pc = "grant" /\ shk > 0
  /\ sz_max' = [sz_max EXCEPT ![magic] = @ + shk]
  /\ peak' = [peak EXCEPT ![magic] = Larger(@, sz_max[magic] + shk)]
  /\ retry' = TRUE
  /\ pc' = "alloc"
  /\ i' = 0 /\ shk' = 0 /\ max_free' = 0 /\ got' = 0
  /\ UNCHANGED <<mng_max, direct, made, granted, elems, magic, reported>>

\* still out of limit
NoSpace ==
  /\ pc = "grant" /\ shk = 0
  /\ Return
  /\ UNCHANGED <<mng_max, direct, quota, elems, reported>>

-----------------------------------------------------------------------------
(***************************************************************************)
(* UcMemManager::Free, UcMemPool::Free, SetMaxSize.                        *)
(***************************************************************************)
Free(c) ==
  /\ pc = "idle" /\ out[c] > 0
  /\ stack' = [stack EXCEPT ![c] = Append(@, TRUE)]
  /\ sz_free' = [sz_free EXCEPT ![c] = @ + Size[c]]
  /\ reported' = Flag("SZ_TOTAL_BAD", sz_total[c] < Size[c])
  /\ sz_total' = [sz_total EXCEPT ![c] = IF @ < Size[c] THEN @ ELSE @ - Size[c]]
  /\ out' = [out EXCEPT ![c] = @ - 1]
  /\ UNCHANGED <<mng_max, direct, quota, pc, magic, retry, shrink>>

FreeDirect ==
  /\ pc = "idle" /\ direct > 0
  /\ direct' = direct - 1
  /\ reported' = {}
  /\ UNCHANGED <<mng_max, quota, elems, pc, magic, retry, shrink>>

\* Classes that exist already keep the limit they have.
SetMaxSize(sz) ==
  /\ pc = "idle" /\ sz # mng_max
  /\ mng_max' = sz
  /\ reported' = {}
  /\ UNCHANGED <<direct, quota, elems, pc, magic, retry, shrink>>

-----------------------------------------------------------------------------
Calls ==
  \/ \E sz \in Requests : AllocCall(sz) \/ AllocDirect(sz)
  \/ \E c \in Classes : Free(c)
  \/ FreeDirect
  \/ \E sz \in MaxSizes : SetMaxSize(sz)

Steps ==
  \/ OpenPool \/ OpenPoolFail
  \/ PickUp \/ Malloc \/ MallocFail \/ NewObjFail \/ Exceed
  \/ Visit \/ VisitFail \/ ShrinkSpace \/ ShrinkStart \/ Release \/ ReleaseEnd
  \/ Collect \/ ShrinkEnd \/ Grant \/ NoSpace

Next == Calls \/ Steps

Spec == Init /\ [][Next]_vars

\* A call runs to its end: it waits for nothing.
FairSpec == Spec /\ WF_vars(Steps)
-----------------------------------------------------------------------------
(***************************************************************************)
(* Properties.                                                             *)
(***************************************************************************)
Bugs == {"SZ_FREE_BAD1", "SZ_FREE_BAD2", "SZ_FREE_BAD3", "SZ_FREE_BAD4", "SZ_MAX_BAD",
         "SZ_TOTAL_BAD", "EXCEED_LIMIT_AFTER_SHRINK"}
Pcs == {"idle", "getPool", "alloc", "visit", "shrink", "release", "collect", "grant"}

\* Types of all variables; no counter goes below zero (they are unsigned),
\* and Shrink never visits the class it shrinks for.
TypeOK ==
  /\ mng_max \in Nat /\ direct \in Nat /\ granted \in Nat
  /\ made \in SUBSET Classes
  /\ sz_max \in [Classes -> Nat]
  /\ sz_total \in [Classes -> Nat]
  /\ sz_free \in [Classes -> Nat]
  /\ stack \in [Classes -> Seq(BOOLEAN)]
  /\ out \in [Classes -> Nat]
  /\ peak \in [Classes -> Nat]
  /\ pc \in Pcs /\ magic \in Classes /\ retry \in BOOLEAN /\ reported \in SUBSET Bugs
  /\ i \in Int /\ shk \in Nat /\ max_free \in Nat /\ got \in Nat
  /\ pc \in {"shrink", "release", "collect"} => i \in Classes \ {magic}

\* Elements of the free list that have memory.
WithMem(s) == {k \in DOMAIN s : s[k]}
Count(s) == Cardinality(WithMem(s))

\* The counters say exactly what is handed out and what lies free, whatever
\* the sequence of allocations, failures, frees and shrinks.
AccountedAt(c) ==
  /\ sz_total[c] = Size[c] * out[c]
  /\ sz_free[c] = Size[c] * Count(stack[c])

Accounting == \A c \in Classes : AccountedAt(c)

\* The checks of the counters that report a "Bug" never do (lines 53, 70,
\* 119 and 131 of mem_pool.cc).
CountersSound ==
  reported \intersect {"SZ_FREE_BAD1", "SZ_FREE_BAD3", "SZ_FREE_BAD4", "SZ_TOTAL_BAD"} = {}

\* Picking up an old element never looks at the limit (line 51), but the
\* memory a class holds, in use or free, is never more than the highest
\* limit it has had.
HeldAt(c) == Size[c] * (out[c] + Count(stack[c])) <= peak[c]

HeldBounded == \A c \in Classes : HeldAt(c)

\* The limits of all classes.
Limits == SumTo([k \in 1 .. nr_magics |-> sz_max[k - 1]], nr_magics)

\* Shrink moves limit from class to class and loses none of it.
QuotaNeverLost == Limits + shk + (IF pc = "collect" THEN got ELSE 0) >= granted

\* UcMemManager::Alloc returns: the loops of both Shrinks end.
AllocReturns == pc # "idle" ~> pc = "idle"

(***************************************************************************)
(* The inductive invariant.  HeldBounded alone is not inductive: it has to *)
(* be known that the one element in excess of the limit, made by a call    *)
(* that then met the limit, stays at the bottom of the free list without   *)
(* memory until everything above it is handed out.                         *)
(***************************************************************************)
FootprintAt(c) ==
  /\ sz_max[c] <= peak[c]
  /\ \/ Size[c] * (out[c] + Len(stack[c])) <= peak[c]
     \/ /\ stack[c] # <<>> /\ ~stack[c][1]
        /\ Size[c] * (out[c] + Len(stack[c]) - 1) <= peak[c]

Footprint == \A c \in Classes : FootprintAt(c)

VisitOK == pc = "visit" => i < 0 \/ i \in Classes \ {magic}

IInv == TypeOK /\ VisitOK /\ Accounting /\ Footprint /\ CountersSound

\* For QuotaNeverLost: GetPool sets the limit of a new pool, which would lose
\* what it had, and a call that returns forgets what Shrink has collected.
LimitsOK ==
  /\ \A c \in Classes \ made : sz_max[c] = 0
  /\ pc \notin {"idle", "getPool"} => magic \in made
  /\ pc \in {"shrink", "release", "collect"} => i \in made
  /\ pc \in {"idle", "getPool", "alloc"} => shk = 0
=============================================================================
