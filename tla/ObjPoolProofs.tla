---------------------------- MODULE ObjPoolProofs ----------------------------
(***************************************************************************)
(* The object pool of one thread keeps its lists and loses no object, for  *)
(* any number of objects, any trees made of them and any order of calls,   *)
(* at every step of a release.                                             *)
(***************************************************************************)
EXTENDS ObjPool, ObjListProofs

-----------------------------------------------------------------------------
(***************************************************************************)
(* Places.                                                                 *)
(***************************************************************************)
\* A set of objects that goes from one place to another leaves every object at
\* one place.
LEMMA MovePart ==
  ASSUME NEW A, NEW B, IsPartition(A), NEW a \in Places, NEW b \in Places, a # b,
         NEW S, S \subseteq A[a], B[a] = A[a] \ S, B[b] = A[b] \union S,
         \A x \in Places \ {a, b} : B[x] = A[x]
  PROVE  IsPartition(B)
<1> SUFFICES ASSUME NEW o \in Obj
             PROVE  \E x \in Places : \A y \in Places : o \in B[y] <=> y = x
  BY DEF IsPartition
<1>1. PICK x \in Places : \A y \in Places : o \in A[y] <=> y = x
  BY DEF IsPartition
<1>2. CASE o \in S
  <2>1. x = a
    BY <1>1, <1>2
  <2>2. \A y \in Places : o \in B[y] <=> y = b
    BY <1>1, <1>2, <2>1
  <2> QED BY <2>2
<1>3. CASE o \notin S
  <2>1. \A y \in Places : o \in B[y] <=> y = x
    BY <1>1, <1>3
  <2> QED BY <2>1
<1> QED BY <1>2, <1>3

\* Two places are emptied into a third.
LEMMA MoveTwo ==
  ASSUME NEW A, NEW B, IsPartition(A), NEW a \in Places, NEW b \in Places, NEW c \in Places,
         a # b, a # c, b # c, B[a] = {}, B[b] = {}, B[c] = (A[c] \union A[b]) \union A[a],
         \A x \in Places \ {a, b, c} : B[x] = A[x]
  PROVE  IsPartition(B)
<1> DEFINE D == [x \in Places |-> IF x = b THEN {} ELSE IF x = c THEN A[c] \union A[b] ELSE A[x]]
<1>1. /\ D[b] = A[b] \ A[b] /\ D[c] = A[c] \union A[b] /\ D[a] = A[a]
      /\ \A x \in Places \ {b, c} : D[x] = A[x]
  OBVIOUS
<1> HIDE DEF D
<1>2. IsPartition(D)
  BY <1>1, MovePart
<1>3. /\ B[a] = D[a] \ D[a] /\ B[c] = D[c] \union D[a]
      /\ \A x \in Places \ {a, c} : B[x] = D[x]
  BY <1>1
<1> QED BY <1>2, <1>3, MovePart

\* One place is emptied into a second and then filled from a third.
LEMMA MoveUp ==
  ASSUME NEW A, NEW B, IsPartition(A), NEW a \in Places, NEW b \in Places, NEW c \in Places,
         a # b, a # c, b # c, B[a] = {}, B[b] = A[a], B[c] = A[c] \union A[b],
         \A x \in Places \ {a, b, c} : B[x] = A[x]
  PROVE  IsPartition(B)
<1> DEFINE D == [x \in Places |-> IF x = b THEN {} ELSE IF x = c THEN A[c] \union A[b] ELSE A[x]]
<1>1. /\ D[b] = A[b] \ A[b] /\ D[c] = A[c] \union A[b] /\ D[a] = A[a]
      /\ \A x \in Places \ {b, c} : D[x] = A[x]
  OBVIOUS
<1> HIDE DEF D
<1>2. IsPartition(D)
  BY <1>1, MovePart
<1>3. /\ B[a] = D[a] \ D[a] /\ B[b] = D[b] \union D[a]
      /\ \A x \in Places \ {a, b} : B[x] = D[x]
  BY <1>1
<1> QED BY <1>2, <1>3, MovePart

\* What is at the places.
LEMMA PlacesAre ==
  /\ \A l \in Lists : l \in Places /\ At[l] = Members(list[l]) /\ At'[l] = Members(list[l])'
  /\ At[<<NULL, "unmade">>] = unmade /\ At'[<<NULL, "unmade">>] = unmade'
  /\ At[<<NULL, "loose">>] = loose /\ At'[<<NULL, "loose">>] = loose'
  /\ At[<<NULL, "free">>] = Members(free) /\ At'[<<NULL, "free">>] = Members(free)'
  /\ At[<<NULL, "top">>] = Members(job.tops) /\ At'[<<NULL, "top">>] = Members(job.tops)'
  /\ At[<<NULL, "level">>] = Members(job.cq) /\ At'[<<NULL, "level">>] = Members(job.cq)'
  /\ At[<<NULL, "below">>] = Members(job.ccq) /\ At'[<<NULL, "below">>] = Members(job.ccq)'
  /\ At[<<NULL, "done">>] = Members(job.fq) /\ At'[<<NULL, "done">>] = Members(job.fq)'
BY NullAssumption DEF At, Places, Lists, Kinds, Elsewhere

-----------------------------------------------------------------------------
(***************************************************************************)
(* Chains: lists whose inner prev pointers are not kept.                   *)
(***************************************************************************)
\* The ends of a chain.
LEMMA ChainEnds ==
  ASSUME NEW q \in Seq(Obj), NEW f, NEW g, NEW h, IsChain(f, g, h, q)
  PROVE  /\ h = NULL <=> q = <<>>
         /\ q # <<>> => /\ h = q[1] /\ h \in Members(q) /\ q[Len(q)] \in Members(q)
                        /\ g[h] = q[Len(q)] /\ g[h] \in Obj /\ h \in Obj
<1>1. CASE q = <<>>
  BY <1>1 DEF IsChain, Linked
<1>2. CASE q # <<>>
  <2>1. Len(q) \in Nat \ {0} /\ q[1] \in Obj /\ q[Len(q)] \in Obj
    BY <1>2
  <2>2. h = q[1] /\ g[h] = q[Len(q)]
    BY <1>2 DEF IsChain, Linked
  <2> QED BY <1>2, <2>1, <2>2, NullAssumption DEF Members
<1> QED BY <1>1, <1>2

\* A chain does not notice writes to other objects.
LEMMA ChainFrame ==
  ASSUME NEW q \in Seq(Obj), NEW f, NEW g, NEW f2, NEW g2, NEW h, IsChain(f, g, h, q),
         \A x \in Members(q) : f2[x] = f[x] /\ g2[x] = g[x]
  PROVE  IsChain(f2, g2, h, q)
<1>1. Linked(h, f2, q, NULL)
  BY LinkedFrame DEF IsChain
<1>2. q # <<>> => g2[h] = q[Len(q)]
  BY ChainEnds
<1> QED BY <1>1, <1>2 DEF IsChain

\* A list of the pool is a chain.
LEMMA ListIsChain ==
  ASSUME NEW L, NEW q \in Seq(Obj), ListOK(L, q)
  PROVE  IsChain(L.next, L.prev, L.first, q)
BY DEF IsChain, ListOK, Linked

Disjoint(q, r) == Members(q) \intersect Members(r) = {}

\* f2 is f but for x, where it is e.
Redirected(f, f2, x, e) == f2[x] = e /\ \A y \in Obj : y # x => f2[y] = f[y]

\* The list q is hung before the list r by a write to its last object.
LEMMA Relink ==
  ASSUME NEW f, NEW f2, NEW q \in Seq(Obj), NEW r \in Seq(Obj),
         NEW h, NEW e, NEW d, q # <<>>, Distinct(q), Distinct(r),
         Disjoint(q, r), Linked(h, f, q, d), Linked(e, f, r, NULL),
         Redirected(f, f2, q[Len(q)], e)
  PROVE  /\ Linked(h, f2, q \o r, NULL)
         /\ Distinct(q \o r) /\ q \o r \in Seq(Obj)
         /\ q \o r # <<>> /\ (q \o r)[Len(q \o r)] = IF r = <<>> THEN q[Len(q)] ELSE r[Len(r)]
<1> DEFINE n == Len(q)
<1>1. n \in Nat \ {0} /\ \A i \in 1 .. n : q[i] \in Obj /\ q[i] \in Members(q)
  BY DEF Members
<1>2. \A i \in 1 .. n - 1 : q[i] # q[n]
  BY <1>1 DEF Distinct
<1>3. Linked(h, f2, q, e)
  BY <1>1, <1>2 DEF Linked, Redirected
<1>4. \A x \in Members(r) : f2[x] = f[x]
  <2>1. Members(r) \subseteq Obj
    BY DEF Members
  <2>2. q[n] \in Members(q)
    BY <1>1
  <2>3. \A x \in Members(r) : x # q[n]
    BY <2>2 DEF Disjoint
  <2> QED BY <2>1, <2>3 DEF Redirected
<1>5. Linked(e, f2, r, NULL)
  BY <1>4, LinkedFrame
<1>6. Linked(h, f2, q \o r, NULL)
  BY <1>3, <1>5, LinkedConcat
<1>7. Distinct(q \o r)
  BY MembersConcat DEF Disjoint
<1>8. q \o r \in Seq(Obj) /\ Len(q \o r) = n + Len(r) /\ Len(r) \in Nat
  OBVIOUS
<1>9. q \o r # <<>> /\ (q \o r)[Len(q \o r)] = IF r = <<>> THEN q[n] ELSE r[Len(r)]
  BY <1>1, <1>8
<1> QED BY <1>6, <1>7, <1>8, <1>9

\* The pointers p are f and g, with q hung before r in one chain that starts at h.
IsSplice(p, f, g, n, cc) == p = Splice([next |-> f, prev |-> g], n, cc)

Spliced(p, f, g, h, q, r) ==
  /\ p.next \in [Obj -> Obj \union {NULL}] /\ p.prev \in [Obj -> Obj \union {NULL}]
  /\ p = [next |-> p.next, prev |-> p.prev]
  /\ IsChain(p.next, p.prev, h, q \o r)
  /\ q \o r \in Seq(Obj) /\ Members(q \o r) = Members(q) \union Members(r)
  /\ \A x \in Obj \ (Members(q) \union Members(r)) : p.next[x] = f[x] /\ p.prev[x] = g[x]

\* Splice hangs one chain before another and writes nothing else.
LEMMA SpliceOK ==
  ASSUME NEW f \in [Obj -> Obj \union {NULL}], NEW g \in [Obj -> Obj \union {NULL}],
         NEW q \in Seq(Obj), NEW r \in Seq(Obj), NEW n, NEW cc,
         Disjoint(q, r), IsChain(f, g, n, q), IsChain(f, g, cc, r),
         NEW p, IsSplice(p, f, g, n, cc)
  PROVE  Spliced(p, f, g, Joined(n, cc), q, r)
<1>0. p = Splice([next |-> f, prev |-> g], n, cc)
  BY DEF IsSplice
<1>1. CASE q = <<>>
  <2>1. n = NULL /\ p = [next |-> f, prev |-> g] /\ Joined(n, cc) = cc
    BY <1>0, <1>1, ChainEnds DEF Splice, Joined
  <2>2. q \o r = r /\ Members(q) = {}
    BY <1>1, EmptySeq
  <2> QED BY <2>1, <2>2 DEF Spliced
<1>2. CASE q # <<>>
  <2>1. /\ n # NULL /\ n = q[1] /\ n \in Members(q) /\ q[Len(q)] \in Members(q)
        /\ g[n] = q[Len(q)] /\ n \in Obj /\ q[Len(q)] \in Obj
    BY <1>2, ChainEnds
  <2>2. p.next = [f EXCEPT ![q[Len(q)]] = cc] /\ Joined(n, cc) = n
        /\ p.prev = (IF cc = NULL THEN g ELSE [g EXCEPT ![n] = g[cc]])
        /\ p = [next |-> p.next, prev |-> p.prev]
    BY <1>0, <2>1 DEF Splice, Joined
  <2>3. cc \in Obj \union {NULL} /\ (cc = NULL <=> r = <<>>)
        /\ (cc # NULL => g[cc] = r[Len(r)] /\ g[cc] \in Obj)
    BY ChainEnds
  <2>4. /\ Linked(n, p.next, q \o r, NULL)
        /\ Distinct(q \o r) /\ q \o r \in Seq(Obj)
        /\ q \o r # <<>> /\ (q \o r)[Len(q \o r)] = IF r = <<>> THEN q[Len(q)] ELSE r[Len(r)]
    <3>1. /\ Distinct(q) /\ Distinct(r)
          /\ Linked(n, f, q, NULL) /\ Linked(cc, f, r, NULL)
      BY DEF IsChain
    <3>2. Redirected(f, p.next, q[Len(q)], cc)
      BY <2>1, <2>2 DEF Redirected
    <3> QED BY <1>2, <3>1, <3>2, Relink
  <2>5. p.prev[n] = (q \o r)[Len(q \o r)]
    BY <2>1, <2>2, <2>3, <2>4
  <2>6. p.next \in [Obj -> Obj \union {NULL}] /\ p.prev \in [Obj -> Obj \union {NULL}]
    <3>1. p.next \in [Obj -> Obj \union {NULL}]
      BY <2>2, <2>3
    <3>2. CASE cc = NULL
      BY <2>2, <3>1, <3>2
    <3>3. CASE cc # NULL
      <4>1. p.prev = [g EXCEPT ![n] = g[cc]] /\ g[cc] \in Obj \union {NULL}
        BY <2>2, <2>3, <3>3
      <4> QED BY <3>1, <4>1
    <3> QED BY <3>2, <3>3
  <2>7. \A x \in Obj \ (Members(q) \union Members(r)) : p.next[x] = f[x] /\ p.prev[x] = g[x]
    BY <2>1, <2>2, <2>3
  <2>8. IsChain(p.next, p.prev, Joined(n, cc), q \o r)
    BY <2>2, <2>4, <2>5 DEF IsChain
  <2>9. Members(q \o r) = Members(q) \union Members(r)
    BY MembersConcat
  <2> QED BY <2>2, <2>4, <2>6, <2>7, <2>8, <2>9 DEF Spliced
<1> QED BY <1>1, <1>2

-----------------------------------------------------------------------------
(***************************************************************************)
(* What the invariant says of a state.                                     *)
(***************************************************************************)
LEMMA PlaceNames ==
  /\ Lists \subseteq Places
  /\ \A s \in {"unmade", "loose", "free", "top", "level", "below", "done"} :
       <<NULL, s>> \in Places /\ <<NULL, s>> \notin Lists
BY NullAssumption DEF Places, Lists

\* A place keeps its objects when the variable behind it does.
LEMMA PlaceKept ==
  ASSUME NEW x \in Places,
         x \in Lists => list'[x] = list[x],
         x = <<NULL, "unmade">> => unmade' = unmade, x = <<NULL, "loose">> => loose' = loose,
         x = <<NULL, "free">> => free' = free, x = <<NULL, "top">> => job'.tops = job.tops,
         x = <<NULL, "level">> => job'.cq = job.cq, x = <<NULL, "below">> => job'.ccq = job.ccq,
         x = <<NULL, "done">> => job'.fq = job.fq
  PROVE  At'[x] = At[x]
<1>1. CASE x \in Lists
  BY <1>1, PlacesAre
<1>2. CASE x \notin Lists
  <2>1. \E s \in {"unmade", "loose", "free", "top", "level", "below", "done"} : x = <<NULL, s>>
    BY <1>2 DEF Places
  <2> QED BY <2>1, PlacesAre
<1> QED BY <1>1, <1>2

\* What is at a place are objects.
LEMMA PlacesHold ==
  ASSUME TypeOK, job \in Jobs, NEW x \in Places
  PROVE  At[x] \subseteq Obj
<1>1. CASE x \in Lists
  <2>1. list[x] \in Seq(Obj)
    BY <1>1 DEF TypeOK
  <2>2. At[x] = Members(list[x])
    BY <1>1, PlacesAre
  <2> QED BY <2>1, <2>2 DEF Members
<1>2. CASE x \notin Lists
  <2>1. /\ free \in Seq(Obj) /\ unmade \subseteq Obj /\ loose \subseteq Obj
        /\ job.tops \in Seq(Obj) /\ job.cq \in Seq(Obj) /\ job.ccq \in Seq(Obj) /\ job.fq \in Seq(Obj)
    BY DEF TypeOK, Jobs
  <2>2. /\ Members(free) \subseteq Obj /\ Members(job.tops) \subseteq Obj /\ Members(job.cq) \subseteq Obj
        /\ Members(job.ccq) \subseteq Obj /\ Members(job.fq) \subseteq Obj
    BY <2>1 DEF Members
  <2>3. \E s \in {"unmade", "loose", "free", "top", "level", "below", "done"} : x = <<NULL, s>>
    BY <1>2 DEF Places
  <2> QED BY <2>1, <2>2, <2>3, PlacesAre
<1> QED BY <1>1, <1>2

\* No object is at two places.
LEMMA Apart ==
  ASSUME TypeOK, job \in Jobs, OnePlace, NEW x \in Places, NEW y \in Places, x # y
  PROVE  At[x] \intersect At[y] = {}
<1> SUFFICES ASSUME NEW o \in At[x], o \in At[y] PROVE FALSE
  OBVIOUS
<1>1. o \in Obj
  BY PlacesHold
<1> QED BY <1>1 DEF OnePlace, IsPartition

\* Types and disjointness in the form the steps need.
LEMMA Facts ==
  ASSUME IInv
  PROVE  /\ TypeOK /\ job \in Jobs /\ OnePlace
         /\ free \in Seq(Obj) /\ job.tops \in Seq(Obj) /\ job.cq \in Seq(Obj)
         /\ job.ccq \in Seq(Obj) /\ job.fq \in Seq(Obj)
         /\ \A l \in Lists : list[l] \in Seq(Obj) /\ LinksOf(l) \in Links
         /\ next \in [Obj -> Obj \union {NULL}] /\ prev \in [Obj -> Obj \union {NULL}]
         /\ first \in [Lists -> Obj \union {NULL}] /\ list \in [Lists -> Seq(Obj)]
BY DEF IInv, LinksIntact, TypeOK, Jobs, LinksOf, Links, Ptr

\* The objects of a list of a caller are nowhere else.
LEMMA ListsApart ==
  ASSUME IInv, NEW l \in Lists
  PROVE  /\ \A m \in Lists \ {l} : Disjoint(list[l], list[m])
         /\ Members(list[l]) \intersect unmade = {} /\ Members(list[l]) \intersect loose = {}
         /\ Disjoint(list[l], free) /\ Disjoint(list[l], job.tops) /\ Disjoint(list[l], job.cq)
         /\ Disjoint(list[l], job.ccq) /\ Disjoint(list[l], job.fq)
<1>1. l \in Places /\ At[l] = Members(list[l])
  BY PlacesAre
<1>2. \A m \in Lists \ {l} : Disjoint(list[l], list[m])
  <2> SUFFICES ASSUME NEW m \in Lists \ {l} PROVE Members(list[l]) \intersect Members(list[m]) = {}
    BY DEF Disjoint
  <2>1. m \in Places /\ At[m] = Members(list[m]) /\ m # l
    BY PlacesAre
  <2>2. At[l] \intersect At[m] = {}
    BY <1>1, <2>1, Facts, Apart
  <2> QED BY <1>1, <2>1, <2>2
<1>3. ASSUME NEW s \in {"unmade", "loose", "free", "top", "level", "below", "done"}
      PROVE  At[l] \intersect At[<<NULL, s>>] = {}
  <2>1. <<NULL, s>> \in Places /\ <<NULL, s>> # l
    BY <1>1, PlaceNames
  <2> QED BY <1>1, <2>1, Facts, Apart
<1>4. Members(list[l]) \intersect unmade = {} /\ Members(list[l]) \intersect loose = {}
  BY <1>1, <1>3, PlacesAre
<1>5. /\ Members(list[l]) \intersect Members(free) = {}
      /\ Members(list[l]) \intersect Members(job.tops) = {}
      /\ Members(list[l]) \intersect Members(job.cq) = {}
      /\ Members(list[l]) \intersect Members(job.ccq) = {}
      /\ Members(list[l]) \intersect Members(job.fq) = {}
  BY <1>1, <1>3, PlacesAre
<1> QED BY <1>2, <1>4, <1>5 DEF Disjoint

\* The lists of a release, the free list and the standalone nodes share nothing.
LEMMA JobApart ==
  ASSUME IInv
  PROVE  /\ Disjoint(job.tops, job.cq) /\ Disjoint(job.tops, job.ccq) /\ Disjoint(job.tops, job.fq)
         /\ Disjoint(job.tops, free) /\ Disjoint(job.cq, job.ccq) /\ Disjoint(job.cq, job.fq)
         /\ Disjoint(job.cq, free) /\ Disjoint(job.ccq, job.fq) /\ Disjoint(job.ccq, free)
         /\ Disjoint(job.fq, free)
         /\ loose \intersect unmade = {} /\ loose \intersect Members(free) = {}
         /\ unmade \intersect Members(free) = {}
<1>1. ASSUME NEW s \in {"unmade", "loose", "free", "top", "level", "below", "done"},
             NEW t \in {"unmade", "loose", "free", "top", "level", "below", "done"}, s # t
      PROVE  At[<<NULL, s>>] \intersect At[<<NULL, t>>] = {}
  <2>1. <<NULL, s>> \in Places /\ <<NULL, t>> \in Places /\ <<NULL, s>> # <<NULL, t>>
    BY <1>1, PlaceNames
  <2> QED BY <2>1, Facts, Apart
<1>2. /\ Members(job.tops) \intersect Members(job.cq) = {}
      /\ Members(job.tops) \intersect Members(job.ccq) = {}
      /\ Members(job.tops) \intersect Members(job.fq) = {}
      /\ Members(job.tops) \intersect Members(free) = {}
  BY <1>1, PlacesAre
<1>3. /\ Members(job.cq) \intersect Members(job.ccq) = {}
      /\ Members(job.cq) \intersect Members(job.fq) = {}
      /\ Members(job.cq) \intersect Members(free) = {}
  BY <1>1, PlacesAre
<1>4. /\ Members(job.ccq) \intersect Members(job.fq) = {}
      /\ Members(job.ccq) \intersect Members(free) = {}
      /\ Members(job.fq) \intersect Members(free) = {}
  BY <1>1, PlacesAre
<1>5. /\ loose \intersect unmade = {} /\ loose \intersect Members(free) = {}
      /\ unmade \intersect Members(free) = {}
  BY <1>1, PlacesAre
<1> QED BY <1>2, <1>3, <1>4, <1>5 DEF Disjoint

-----------------------------------------------------------------------------
\* Initially no object has been made.
LEMMA InitIInv == Init => IInv
<1> SUFFICES ASSUME Init PROVE IInv
  OBVIOUS
<1>1. job \in Jobs /\ job = Idle
  BY DEF Init, Idle, Jobs, Kinds, Ptr
<1>2. TypeOK
  BY <1>1, EmptySeq DEF Init, TypeOK, Idle, Kinds
<1>3. FreeListIntact
  BY EmptySeq DEF Init, FreeListIntact, Linked, Lists
<1>4. ListsIntact
  BY EmptySeq DEF Init, ListsIntact, ListOK, Linked, LinksOf
<1>5. ReleaseIntact
  BY <1>1, EmptySeq DEF ReleaseIntact, Chain, IsChain, Linked, Idle
<1>6. Progress
  <2>1. WalkedTo(list, <<>>, NULL)
    BY DEF WalkedTo
  <2> QED BY <1>1, <2>1, EmptySeq DEF Progress, Idle
<1>7. OnePlace
  <2> SUFFICES ASSUME NEW o \in Obj
               PROVE  \E x \in Places : \A y \in Places : o \in At[y] <=> y = x
    BY DEF OnePlace, IsPartition
  <2>1. o \in At[<<NULL, "unmade">>] /\ <<NULL, "unmade">> \in Places
    BY PlacesAre, PlaceNames DEF Init
  <2>2. ASSUME NEW y \in Places, y # <<NULL, "unmade">> PROVE At[y] = {}
    <3>1. CASE y \in Lists
      BY <3>1, PlacesAre, EmptySeq DEF Init
    <3>2. CASE y \notin Lists
      <4>1. \E s \in {"loose", "free", "top", "level", "below", "done"} : y = <<NULL, s>>
        BY <2>2, <3>2 DEF Places
      <4>2. job.tops = <<>> /\ job.cq = <<>> /\ job.ccq = <<>> /\ job.fq = <<>>
        BY <1>1 DEF Idle
      <4> QED BY <4>1, <4>2, PlacesAre, EmptySeq DEF Init
    <3> QED BY <3>1, <3>2
  <2> QED BY <2>1, <2>2
<1> QED BY <1>1, <1>2, <1>3, <1>4, <1>5, <1>6, <1>7 DEF IInv, LinksIntact

-----------------------------------------------------------------------------
(***************************************************************************)
(* Calls that begin and end without a release in between.                  *)
(***************************************************************************)
\* Between calls nothing is being released and all lists are intact.
LEMMA IdleFacts ==
  ASSUME IInv, job = Idle
  PROVE  /\ \A l \in Lists : ListOK(LinksOf(l), list[l])
         /\ job.tops = <<>> /\ job.cq = <<>> /\ job.ccq = <<>> /\ job.fq = <<>>
         /\ \A o \in Members(free) \union unmade : \A k \in Kinds :
              list[<<o, k>>] = <<>> /\ first[<<o, k>>] = NULL
<1>1. \A l \in Lists : ListOK(LinksOf(l), list[l])
  <2>1. \A l \in Lists : l # Here
    BY NullAssumption DEF Here, Idle, Lists
  <2> QED BY <2>1 DEF IInv, LinksIntact, ListsIntact
<1>2. ASSUME NEW o \in Members(free) \union unmade, NEW k \in Kinds
      PROVE  list[<<o, k>>] = <<>> /\ first[<<o, k>>] = NULL
  <2>1. o \in Obj
    BY Facts DEF TypeOK, Members
  <2>2. <<o, k>> \in Lists
    BY <2>1 DEF Lists
  <2>3. list[<<o, k>>] = <<>>
    BY DEF IInv, LinksIntact, FreeListIntact
  <2> QED BY <1>1, <2>2, <2>3 DEF ListOK, Linked, LinksOf
<1> QED BY <1>1, <1>2 DEF Idle

\* The invariant after a step between calls.
LEMMA IdleStep ==
  ASSUME job' = Idle, TypeOK', OnePlace', FreeListIntact',
         \A l \in Lists : ListOK(LinksOf(l), list[l])'
  PROVE  IInv'
<1>1. job' \in Jobs
  BY DEF Idle, Jobs, Kinds, Ptr
<1>2. ReleaseIntact'
  BY EmptySeq DEF ReleaseIntact, Chain, IsChain, Linked, Idle
<1>3. Progress'
  <2>1. WalkedTo(list', <<>>, NULL)
    BY DEF WalkedTo
  <2> QED BY <2>1, EmptySeq DEF Progress, Idle
<1>4. ListsIntact'
  BY DEF ListsIntact
<1> QED BY <1>1, <1>2, <1>3, <1>4 DEF IInv, LinksIntact

\* New objects: from the free list, or made.
LEMMA TakenFacts ==
  ASSUME IInv, NEW o \in Obj, Taken(o)
  PROVE  /\ job = Idle
         /\ free' \in Seq(Obj) /\ Distinct(free') /\ unmade' \subseteq unmade
         /\ obj_freelist' \in Obj \union {NULL}
         /\ Linked(obj_freelist', next, free', NULL)
         /\ Members(free') \subseteq Members(free)
         /\ o \notin Members(free') /\ o \notin unmade' /\ o \in Members(free) \union unmade
         /\ \/ /\ o \in Members(free) /\ Members(free') = Members(free) \ {o} /\ unmade' = unmade
            \/ /\ o \in unmade /\ unmade' = unmade \ {o} /\ free' = free
<1>0. /\ job = Idle /\ free \in Seq(Obj) /\ Distinct(free) /\ Linked(obj_freelist, next, free, NULL)
      /\ obj_freelist \in Obj \union {NULL}
  BY DEF Taken, IInv, LinksIntact, FreeListIntact, TypeOK
<1>1. CASE obj_freelist # NULL
  <2>1. free # <<>> /\ o = obj_freelist /\ obj_freelist' = next[o] /\ free' = Tail(free) /\ unmade' = unmade
    BY <1>0, <1>1 DEF Taken, Linked
  <2>2. o = free[1] /\ Linked(next[o], next, Tail(free), NULL)
    BY <1>0, <2>1, LinkedTail
  <2>3. Tail(free) \in Seq(Obj) /\ Distinct(Tail(free)) /\ Members(Tail(free)) = Members(free) \ {free[1]}
    BY <1>0, <2>1, MembersTail
  <2>4. o \in Members(free)
    BY <1>0, <2>1, <2>2 DEF Members
  <2>5. o \notin unmade
    BY <2>4, JobApart
  <2>6. next[o] \in Obj \union {NULL}
    BY Facts
  <2> QED BY <1>0, <2>1, <2>2, <2>3, <2>4, <2>5, <2>6
<1>2. CASE obj_freelist = NULL
  <2>1. o \in unmade /\ unmade' = unmade \ {o} /\ obj_freelist' = obj_freelist /\ free' = free
    BY <1>2 DEF Taken
  <2>2. o \notin Members(free)
    BY <2>1, JobApart
  <2> QED BY <1>0, <2>1, <2>2
<1> QED BY <1>1, <1>2

\* A new object goes to place b.
LEMMA TakenMove ==
  ASSUME IInv, NEW o \in Obj, Taken(o), NEW b \in Places,
         b \notin {<<NULL, "free">>, <<NULL, "unmade">>}, At'[b] = At[b] \union {o},
         \A x \in Places \ {b, <<NULL, "free">>, <<NULL, "unmade">>} : At'[x] = At[x]
  PROVE  OnePlace'
<1> DEFINE F == <<NULL, "free">>
           U == <<NULL, "unmade">>
<1>0. F \in Places /\ U \in Places /\ F # U /\ b # F /\ b # U
  BY PlaceNames
<1>1. /\ At[F] = Members(free) /\ At'[F] = Members(free') /\ At[U] = unmade /\ At'[U] = unmade'
  BY PlacesAre
<1>2. IsPartition(At)
  BY Facts DEF OnePlace
<1> HIDE DEF F, U
<1>3. CASE /\ o \in Members(free) /\ Members(free') = Members(free) \ {o} /\ unmade' = unmade
  <2>1. /\ {o} \subseteq At[F] /\ At'[F] = At[F] \ {o}
        /\ \A x \in Places \ {F, b} : At'[x] = At[x]
    BY <1>0, <1>1, <1>3 DEF F, U
  <2>2. IsPartition(At')
    BY <1>0, <1>2, <2>1, MovePart
  <2> QED BY <2>2 DEF OnePlace, IsPartition
<1>4. CASE /\ o \in unmade /\ unmade' = unmade \ {o} /\ free' = free
  <2>1. /\ {o} \subseteq At[U] /\ At'[U] = At[U] \ {o}
        /\ \A x \in Places \ {U, b} : At'[x] = At[x]
    BY <1>0, <1>1, <1>4 DEF F, U
  <2>2. IsPartition(At')
    BY <1>0, <1>2, <2>1, MovePart
  <2> QED BY <2>2 DEF OnePlace, IsPartition
<1> QED BY <1>3, <1>4, TakenFacts

\* The links of l become M, its objects q; only objects of W are written, none of
\* which is in another list.
LEMMA ListWritten ==
  ASSUME IInv, job = Idle, NEW l \in Lists, NEW M \in Links, NEW q \in Seq(Obj), NEW W,
         next' = M.next, prev' = M.prev, first' = [first EXCEPT ![l] = M.first],
         list' = [list EXCEPT ![l] = q], ListOK(M, q),
         SameLinks(LinksOf(l), M, Obj \ W),
         \A m \in Lists \ {l} : Members(list[m]) \intersect W = {}
  PROVE  /\ next' \in [Obj -> Obj \union {NULL}] /\ prev' \in [Obj -> Obj \union {NULL}]
         /\ first' \in [Lists -> Obj \union {NULL}] /\ list' \in [Lists -> Seq(Obj)]
         /\ \A m \in Lists : ListOK(LinksOf(m), list[m])'
         /\ list'[l] = q /\ \A m \in Lists \ {l} : list'[m] = list[m]
<1>0. first \in [Lists -> Obj \union {NULL}] /\ list \in [Lists -> Seq(Obj)]
  BY Facts
<1>1. M.first \in Obj \union {NULL} /\ M.next \in [Obj -> Obj \union {NULL}]
      /\ M.prev \in [Obj -> Obj \union {NULL}] /\ M = [first |-> M.first, next |-> M.next, prev |-> M.prev]
  BY DEF Links
<1>2. first'[l] = M.first /\ list'[l] = q
  BY <1>0
<1>3. LinksOf(l)' = M
  BY <1>1, <1>2 DEF LinksOf
<1>4. ASSUME NEW m \in Lists \ {l} PROVE ListOK(LinksOf(m)', list'[m]) /\ list'[m] = list[m]
  <2>1. list[m] \in Seq(Obj) /\ ListOK(LinksOf(m), list[m])
    BY <1>0, IdleFacts
  <2>2. list'[m] = list[m] /\ first'[m] = first[m]
    BY <1>0
  <2>3. Members(list[m]) \subseteq Obj \ W
    BY <2>1 DEF Members
  <2>4. LinksOf(m)'.first = LinksOf(m).first /\ SameLinks(LinksOf(m), LinksOf(m)', Members(list[m]))
    BY <2>2, <2>3 DEF LinksOf, SameLinks
  <2> QED BY <2>1, <2>2, <2>4, ListFrame
<1>5. \A m \in Lists : ListOK(LinksOf(m)', list'[m])
  BY <1>2, <1>3, <1>4
<1> QED BY <1>0, <1>1, <1>2, <1>4, <1>5

\* An object x that is in no list is inserted into l.
LEMMA Inserted ==
  ASSUME IInv, job = Idle, NEW l \in Lists, NEW x \in Obj, \A m \in Lists : x \notin Members(list[m]),
         NEW M, NEW q,
         \/ M = InsertTail(LinksOf(l), x) /\ q = Append(list[l], x)
         \/ M = InsertHead(LinksOf(l), x) /\ q = <<x>> \o list[l],
         next' = M.next, prev' = M.prev, first' = [first EXCEPT ![l] = M.first],
         list' = [list EXCEPT ![l] = q]
  PROVE  /\ next' \in [Obj -> Obj \union {NULL}] /\ prev' \in [Obj -> Obj \union {NULL}]
         /\ first' \in [Lists -> Obj \union {NULL}] /\ list' \in [Lists -> Seq(Obj)]
         /\ \A m \in Lists : ListOK(LinksOf(m), list[m])'
         /\ Members(list'[l]) = Members(list[l]) \union {x}
         /\ \A m \in Lists \ {l} : list'[m] = list[m]
         /\ \A y \in Obj \ (Members(list[l]) \union {x}) : next'[y] = next[y]
<1> DEFINE W == Members(list[l]) \union {x}
<1>0. LinksOf(l) \in Links /\ list[l] \in Seq(Obj) /\ ListOK(LinksOf(l), list[l])
  BY Facts, IdleFacts
<1>1. <<x>> \in Seq(Obj) /\ Members(<<x>>) = {x}
  BY SingletonSeq
<1>2. /\ M \in Links /\ ListOK(M, q) /\ SameLinks(LinksOf(l), M, Obj \ W) /\ q \in Seq(Obj)
      /\ Members(q) = Members(list[l]) \union {x}
  <2>1. CASE M = InsertTail(LinksOf(l), x) /\ q = Append(list[l], x)
    <3>1. /\ InsertTail(LinksOf(l), x) \in Links /\ ListOK(InsertTail(LinksOf(l), x), Append(list[l], x))
          /\ SameLinks(LinksOf(l), InsertTail(LinksOf(l), x), Obj \ W)
      BY <1>0, InsertTailOK
    <3>2. q = list[l] \o <<x>> /\ q \in Seq(Obj)
      BY <1>0, <2>1
    <3>3. Members(list[l] \o <<x>>) = Members(list[l]) \union Members(<<x>>)
      BY <1>0, <1>1, MembersConcat
    <3> QED BY <1>1, <2>1, <3>1, <3>2, <3>3
  <2>2. CASE M = InsertHead(LinksOf(l), x) /\ q = <<x>> \o list[l]
    <3>1. /\ InsertHead(LinksOf(l), x) \in Links /\ ListOK(InsertHead(LinksOf(l), x), <<x>> \o list[l])
          /\ SameLinks(LinksOf(l), InsertHead(LinksOf(l), x), Obj \ W)
      BY <1>0, InsertHeadOK
    <3>2. q \in Seq(Obj)
      BY <1>0, <1>1, <2>2
    <3>3. Members(<<x>> \o list[l]) = Members(<<x>>) \union Members(list[l])
      BY <1>0, <1>1, MembersConcat
    <3> QED BY <1>1, <2>2, <3>1, <3>2, <3>3
  <2> QED BY <2>1, <2>2
<1>3. \A m \in Lists \ {l} : Members(list[m]) \intersect W = {}
  <2>1. ASSUME NEW m \in Lists \ {l} PROVE Members(list[m]) \intersect Members(list[l]) = {}
    BY ListsApart DEF Disjoint
  <2> QED BY <2>1
<1> HIDE DEF W
<1>4. /\ next' \in [Obj -> Obj \union {NULL}] /\ prev' \in [Obj -> Obj \union {NULL}]
      /\ first' \in [Lists -> Obj \union {NULL}] /\ list' \in [Lists -> Seq(Obj)]
      /\ \A m \in Lists : ListOK(LinksOf(m), list[m])'
      /\ list'[l] = q /\ \A m \in Lists \ {l} : list'[m] = list[m]
  BY <1>2, <1>3, ListWritten
<1>5. \A y \in Obj \ W : next'[y] = next[y]
  BY <1>2 DEF SameLinks, LinksOf
<1> QED BY <1>2, <1>4, <1>5 DEF W

\* New() keeps the invariant: the object is standalone.
LEMMA NewIInv == ASSUME IInv, New PROVE IInv'
<1>0. PICK o \in Obj :
        /\ Taken(o) /\ next' = [next EXCEPT ![o] = NULL] /\ prev' = [prev EXCEPT ![o] = o]
        /\ first' = InitChildList(first, o) /\ loose' = loose \union {o} /\ job' = job /\ list' = list
  BY DEF New, Alone
<1>1. job' = Idle
  BY <1>0, TakenFacts
<1>2. TypeOK'
  BY <1>0, <1>1, TakenFacts, Facts DEF TypeOK, InitChildList, Idle, Kinds
<1>3. \A m \in Lists : o \notin Members(list[m])
  BY <1>0, TakenFacts, ListsApart DEF Disjoint
<1>4. \A m \in Lists : first'[m] = first[m]
  <2>1. ASSUME NEW m \in Lists, m[1] = o PROVE first[m] = NULL
    <3>1. m = <<o, m[2]>> /\ m[2] \in Kinds
      BY <2>1 DEF Lists
    <3> QED BY <1>0, <3>1, TakenFacts, IdleFacts
  <2> QED BY <1>0, <2>1 DEF InitChildList
<1>5. \A m \in Lists : ListOK(LinksOf(m)', list'[m])
  <2> SUFFICES ASSUME NEW m \in Lists PROVE ListOK(LinksOf(m)', list[m])
    BY <1>0
  <2>1. list[m] \in Seq(Obj) /\ ListOK(LinksOf(m), list[m])
    BY <1>0, Facts, TakenFacts, IdleFacts
  <2>2. Members(list[m]) \subseteq Obj \ {o}
    BY <1>3, <2>1 DEF Members
  <2>3. SameLinks(LinksOf(m), LinksOf(m)', Members(list[m])) /\ LinksOf(m)'.first = LinksOf(m).first
    BY <1>0, <1>4, <2>2, Facts DEF SameLinks, LinksOf
  <2> QED BY <2>1, <2>3, ListFrame
<1>6. FreeListIntact'
  <2>1. Linked(obj_freelist', next', free', NULL)
    <3>1. /\ free' \in Seq(Obj) /\ Linked(obj_freelist', next, free', NULL) /\ o \notin Members(free')
      BY <1>0, TakenFacts
    <3>2. \A y \in Members(free') : next'[y] = next[y]
      <4>1. Members(free') \subseteq Obj \ {o}
        BY <3>1 DEF Members
      <4> QED BY <1>0, <4>1, Facts
    <3> QED BY <3>1, <3>2, LinkedFrame
  <2>2. \A y \in Members(free') \union unmade', k \in Kinds : list'[<<y, k>>] = <<>>
    BY <1>0, TakenFacts, IdleFacts
  <2> QED BY <1>0, <2>1, <2>2, TakenFacts DEF FreeListIntact, Members
<1>7. OnePlace'
  <2> DEFINE b == <<NULL, "loose">>
  <2>1. b \in Places /\ b \notin {<<NULL, "free">>, <<NULL, "unmade">>}
    BY PlaceNames
  <2>2. At'[b] = At[b] \union {o}
    BY <1>0, PlacesAre
  <2>3. \A x \in Places \ {b, <<NULL, "free">>, <<NULL, "unmade">>} : At'[x] = At[x]
    BY <1>0, PlaceKept
  <2> HIDE DEF b
  <2> QED BY <1>0, <2>1, <2>2, <2>3, TakenMove
<1> QED BY <1>1, <1>2, <1>5, <1>6, <1>7, IdleStep

\* A list that is not empty has a first object.
LEMMA HasFirst == ASSUME NEW q \in Seq(Obj), q # <<>> PROVE q[1] \in Members(q)
BY DEF Members

\* The objects of a list.
LEMMA MembersIn == ASSUME NEW q \in Seq(Obj) PROVE Members(q) \subseteq Obj
BY DEF Members

\* What callers hold is not in the free list.
LEMMA OutApart ==
  ASSUME IInv, NEW x \in Out
  PROVE  x \notin Members(free) /\ x \notin unmade
<1>1. CASE x \in loose
  BY <1>1, JobApart
<1>2. CASE \E m \in Lists : x \in Members(list[m])
  BY <1>2, ListsApart DEF Disjoint
<1> QED BY <1>1, <1>2 DEF Out

\* The free list after a step that wrote only objects outside of it and gave
\* a list to an object outside of it.
LEMMA FreeFrame ==
  ASSUME NEW r \in Seq(Obj), NEW f, NEW u, u \subseteq Obj, Distinct(r), Linked(f, next, r, NULL),
         obj_freelist' = f, free' = r, unmade' = u,
         \A y \in Members(r) : next'[y] = next[y],
         \A y \in Members(r) \union u, k \in Kinds : list'[<<y, k>>] = <<>>
  PROVE  FreeListIntact'
<1>1. Linked(f, next', r, NULL)
  BY LinkedFrame
<1> QED BY <1>1 DEF FreeListIntact, Members

\* A new object is inserted into a list of a caller.
LEMMA TakenInserted ==
  ASSUME IInv, NEW l \in Lists, l[1] \in Out, NEW o \in Obj, Taken(o), NEW M, NEW q,
         \/ M = InsertTail(LinksOf(l), o) /\ q = Append(list[l], o)
         \/ M = InsertHead(LinksOf(l), o) /\ q = <<o>> \o list[l],
         next' = M.next, prev' = M.prev, first' = [InitChildList(first, o) EXCEPT ![l] = M.first],
         list' = [list EXCEPT ![l] = q], job' = job, loose' = loose
  PROVE  IInv'
<1>1. job' = Idle /\ job = Idle
  BY TakenFacts
<1>3. \A m \in Lists : o \notin Members(list[m])
  BY TakenFacts, ListsApart DEF Disjoint
<1>4. InitChildList(first, o) = first
  <2>1. ASSUME NEW m \in Lists, m[1] = o PROVE first[m] = NULL
    <3>1. m = <<o, m[2]>> /\ m[2] \in Kinds
      BY <2>1 DEF Lists
    <3> QED BY <1>1, <3>1, TakenFacts, IdleFacts
  <2>2. \A m \in Lists : InitChildList(first, o)[m] = first[m]
    BY <2>1 DEF InitChildList
  <2>3. first \in [Lists -> Obj \union {NULL}] /\ InitChildList(first, o) \in [Lists -> Obj \union {NULL}]
    BY Facts DEF InitChildList
  <2> QED BY <2>2, <2>3
<1>5. /\ next' \in [Obj -> Obj \union {NULL}] /\ prev' \in [Obj -> Obj \union {NULL}]
      /\ first' \in [Lists -> Obj \union {NULL}] /\ list' \in [Lists -> Seq(Obj)]
      /\ \A m \in Lists : ListOK(LinksOf(m), list[m])'
      /\ Members(list'[l]) = Members(list[l]) \union {o}
      /\ \A m \in Lists \ {l} : list'[m] = list[m]
      /\ \A y \in Obj \ (Members(list[l]) \union {o}) : next'[y] = next[y]
  BY <1>1, <1>3, <1>4, Inserted
<1>2. TypeOK'
  <2>1. obj_freelist' \in Obj \union {NULL} /\ unmade' \subseteq Obj /\ loose' \subseteq Obj /\ free' \in Seq(Obj)
    BY TakenFacts, Facts DEF TypeOK
  <2> QED BY <1>1, <1>5, <2>1, EmptySeq DEF TypeOK, Idle, Kinds
<1>6. FreeListIntact'
  <2>1. /\ free' \in Seq(Obj) /\ Distinct(free') /\ Linked(obj_freelist', next, free', NULL)
        /\ o \notin Members(free') /\ Members(free') \subseteq Members(free) /\ unmade' \subseteq unmade
    BY TakenFacts
  <2>2. \A y \in Members(free') : next'[y] = next[y]
    <3>1. Members(free') \subseteq Obj \ (Members(list[l]) \union {o})
      <4>1. Members(list[l]) \intersect Members(free) = {}
        BY ListsApart DEF Disjoint
      <4>2. Members(free') \subseteq Obj
        BY <2>1, MembersIn
      <4> QED BY <2>1, <4>1, <4>2
    <3> QED BY <1>5, <3>1
  <2>3. \A y \in Members(free') \union unmade', k \in Kinds : list'[<<y, k>>] = <<>>
    <3> SUFFICES ASSUME NEW y \in Members(free') \union unmade', NEW k \in Kinds PROVE list'[<<y, k>>] = <<>>
      OBVIOUS
    <3>1. y # l[1] /\ y \in Obj /\ list[<<y, k>>] = <<>>
      <4>1. y \in Members(free) \union unmade
        BY <2>1
      <4>2. y # l[1]
        BY <4>1, OutApart
      <4>3. Members(free) \subseteq Obj /\ unmade \subseteq Obj
        BY MembersIn, Facts DEF TypeOK
      <4> QED BY <1>1, <4>1, <4>2, <4>3, IdleFacts
    <3>2. <<y, k>> \in Lists \ {l}
      BY <3>1 DEF Lists
    <3> QED BY <1>5, <3>1, <3>2
  <2>4. unmade' \subseteq Obj
    BY <1>2 DEF TypeOK
  <2> QED BY <2>1, <2>2, <2>3, <2>4, FreeFrame
<1>7. OnePlace'
  <2>1. l \in Places /\ l \notin {<<NULL, "free">>, <<NULL, "unmade">>}
    BY PlaceNames
  <2>2. At'[l] = At[l] \union {o}
    BY <1>5, PlacesAre
  <2>3. \A x \in Places \ {l, <<NULL, "free">>, <<NULL, "unmade">>} : At'[x] = At[x]
    BY <1>5, PlaceKept
  <2> QED BY <2>1, <2>2, <2>3, TakenMove
<1> QED BY <1>1, <1>2, <1>5, <1>6, <1>7, IdleStep

\* New(first) keeps the invariant.
LEMMA NewTailIInv == ASSUME IInv, NEW l \in Lists, NewTail(l) PROVE IInv'
<1>1. PICK o \in Obj :
        /\ Taken(o)
        /\ LET L == InsertTail(LinksOf(l), o)
           IN  /\ next' = L.next /\ prev' = L.prev
               /\ first' = [InitChildList(first, o) EXCEPT ![l] = L.first]
        /\ list' = [list EXCEPT ![l] = Append(@, o)]
  BY DEF NewTail
<1>2. list' = [list EXCEPT ![l] = Append(list[l], o)] /\ l[1] \in Out /\ job' = job /\ loose' = loose
  BY <1>1 DEF NewTail
<1> QED BY <1>1, <1>2, TakenInserted

\* NewFront(first) keeps the invariant.
LEMMA NewFrontIInv == ASSUME IInv, NEW l \in Lists, NewFront(l) PROVE IInv'
<1>1. PICK o \in Obj :
        /\ Taken(o)
        /\ LET L == InsertHead(LinksOf(l), o)
           IN  /\ next' = L.next /\ prev' = L.prev
               /\ first' = [InitChildList(first, o) EXCEPT ![l] = L.first]
        /\ list' = [list EXCEPT ![l] = <<o>> \o @]
  BY DEF NewFront
<1>2. list' = [list EXCEPT ![l] = <<o>> \o list[l]] /\ l[1] \in Out /\ job' = job /\ loose' = loose
  BY <1>1 DEF NewFront
<1> QED BY <1>1, <1>2, TakenInserted

\* INSERT_CHILD keeps the invariant.
LEMMA InsertChildIInv ==
  ASSUME IInv, NEW l \in Lists, NEW o \in Obj, NEW b \in BOOLEAN, InsertChild(l, o, b)
  PROVE  IInv'
<1> DEFINE M == IF b THEN InsertTail(LinksOf(l), o) ELSE InsertHead(LinksOf(l), o)
           q == IF b THEN Append(list[l], o) ELSE <<o>> \o list[l]
<1>1. /\ job = Idle /\ o \in loose /\ l[1] \in Out
      /\ next' = M.next /\ prev' = M.prev /\ first' = [first EXCEPT ![l] = M.first]
      /\ list' = [list EXCEPT ![l] = q] /\ loose' = loose \ {o}
      /\ obj_freelist' = obj_freelist /\ unmade' = unmade /\ job' = job /\ free' = free
  BY DEF InsertChild, Become
<1>2. \/ M = InsertTail(LinksOf(l), o) /\ q = Append(list[l], o)
      \/ M = InsertHead(LinksOf(l), o) /\ q = <<o>> \o list[l]
  OBVIOUS
<1> HIDE DEF M, q
<1>3. \A m \in Lists : o \notin Members(list[m])
  BY <1>1, ListsApart
<1>5. /\ next' \in [Obj -> Obj \union {NULL}] /\ prev' \in [Obj -> Obj \union {NULL}]
      /\ first' \in [Lists -> Obj \union {NULL}] /\ list' \in [Lists -> Seq(Obj)]
      /\ \A m \in Lists : ListOK(LinksOf(m), list[m])'
      /\ Members(list'[l]) = Members(list[l]) \union {o}
      /\ \A m \in Lists \ {l} : list'[m] = list[m]
      /\ \A y \in Obj \ (Members(list[l]) \union {o}) : next'[y] = next[y]
  BY <1>1, <1>2, <1>3, Inserted
<1>6. TypeOK'
  <2>1. obj_freelist' \in Obj \union {NULL} /\ unmade' \subseteq Obj /\ loose' \subseteq Obj /\ free' \in Seq(Obj)
    BY <1>1, Facts DEF TypeOK
  <2> QED BY <1>1, <1>5, <2>1, EmptySeq DEF TypeOK, Idle, Kinds
<1>7. FreeListIntact'
  <2>1. /\ free \in Seq(Obj) /\ Distinct(free) /\ Linked(obj_freelist, next, free, NULL) /\ unmade \subseteq Obj
    BY Facts DEF IInv, LinksIntact, FreeListIntact, TypeOK
  <2>2. \A y \in Members(free) : next'[y] = next[y]
    <3>1. Members(free) \subseteq Obj \ (Members(list[l]) \union {o})
      BY <1>1, <2>1, ListsApart, JobApart DEF Disjoint, Members
    <3> QED BY <1>5, <3>1
  <2>3. \A y \in Members(free) \union unmade, k \in Kinds : list'[<<y, k>>] = <<>>
    <3> SUFFICES ASSUME NEW y \in Members(free) \union unmade, NEW k \in Kinds PROVE list'[<<y, k>>] = <<>>
      OBVIOUS
    <3>1. y # l[1] /\ y \in Obj /\ list[<<y, k>>] = <<>>
      BY <1>1, <2>1, OutApart, IdleFacts DEF Members
    <3>2. <<y, k>> \in Lists \ {l}
      BY <3>1 DEF Lists
    <3> QED BY <1>5, <3>1, <3>2
  <2> QED BY <1>1, <2>1, <2>2, <2>3, FreeFrame
<1>8. OnePlace'
  <2> DEFINE a == <<NULL, "loose">>
  <2>1. l \in Places /\ a \in Places /\ l # a
    BY PlaceNames
  <2>2. At'[l] = At[l] \union {o} /\ At'[a] = At[a] \ {o} /\ {o} \subseteq At[a]
    BY <1>1, <1>5, PlacesAre
  <2>3. \A x \in Places \ {a, l} : At'[x] = At[x]
    BY <1>1, <1>5, PlaceKept
  <2> HIDE DEF a
  <2>4. IsPartition(At')
    BY <2>1, <2>2, <2>3, MovePart, Facts DEF OnePlace
  <2> QED BY <2>4 DEF OnePlace, IsPartition
<1> QED BY <1>1, <1>5, <1>6, <1>7, <1>8, IdleStep

\* The object x of l is taken out of it; its own pointers may be cleared.
LEMMA Unlinked ==
  ASSUME IInv, job = Idle, NEW l \in Lists, NEW x \in Members(list[l]), NEW M,
         \/ M = Unlink(LinksOf(l), x)
         \/ M = [Unlink(LinksOf(l), x) EXCEPT !.next[x] = NULL, !.prev[x] = NULL],
         next' = M.next, prev' = M.prev, first' = [first EXCEPT ![l] = M.first],
         list' = [list EXCEPT ![l] = Without(list[l], x)]
  PROVE  /\ next' \in [Obj -> Obj \union {NULL}] /\ prev' \in [Obj -> Obj \union {NULL}]
         /\ first' \in [Lists -> Obj \union {NULL}] /\ list' \in [Lists -> Seq(Obj)]
         /\ \A m \in Lists : ListOK(LinksOf(m), list[m])'
         /\ Members(list'[l]) = Members(list[l]) \ {x}
         /\ \A m \in Lists \ {l} : list'[m] = list[m]
         /\ \A y \in Obj \ Members(list[l]) : next'[y] = next[y]
<1> DEFINE U == Unlink(LinksOf(l), x)
           q == Without(list[l], x)
           W == Members(list[l])
<1>0. LinksOf(l) \in Links /\ list[l] \in Seq(Obj) /\ ListOK(LinksOf(l), list[l]) /\ x \in Obj
  BY Facts, IdleFacts, MembersIn
<1>1. U \in Links /\ ListOK(U, q) /\ SameLinks(LinksOf(l), U, Obj \ W)
  BY <1>0, UnlinkOK
<1>2. q \in Seq(Obj) /\ Members(q) = W \ {x}
  <2>1. PICK j \in 1 .. Len(list[l]) : x = list[l][j]
    BY <1>0 DEF Members
  <2>2. Distinct(list[l])
    BY <1>0 DEF ListOK
  <2> QED BY <1>0, <2>1, <2>2, WithoutIsShift
<1>3. M \in Links /\ ListOK(M, q) /\ SameLinks(LinksOf(l), M, Obj \ W)
  <2>1. CASE M = U
    BY <1>1, <2>1
  <2>2. CASE M = [U EXCEPT !.next[x] = NULL, !.prev[x] = NULL]
    <3> HIDE DEF U, q
    <3>1. U \in [first : Obj \union {NULL}, next : [Obj -> Obj \union {NULL}], prev : [Obj -> Obj \union {NULL}]]
      BY <1>1 DEF Links
    <3>2. /\ M.first = U.first /\ M.next = [U.next EXCEPT ![x] = NULL]
          /\ M.prev = [U.prev EXCEPT ![x] = NULL]
      BY <2>2, <3>1
    <3>3. M = [first |-> M.first, next |-> M.next, prev |-> M.prev]
      BY <2>2, <3>1
    <3>4. /\ M.first \in Obj \union {NULL} /\ M.next \in [Obj -> Obj \union {NULL}]
          /\ M.prev \in [Obj -> Obj \union {NULL}]
      BY <1>0, <3>1, <3>2
    <3>5. M \in Links
      BY <3>3, <3>4 DEF Links
    <3>6. \A y \in Obj \ {x} : M.next[y] = U.next[y] /\ M.prev[y] = U.prev[y]
      BY <3>1, <3>2
    <3>7. SameLinks(U, M, Members(q)) /\ SameLinks(LinksOf(l), M, Obj \ W)
      <4>1. Members(q) \subseteq Obj \ {x}
        BY <1>2, MembersIn
      <4>2. Obj \ W \subseteq Obj \ {x}
        OBVIOUS
      <4> QED BY <1>1, <3>6, <4>1, <4>2 DEF SameLinks
    <3>8. ListOK(M, q)
      BY <1>1, <1>2, <3>2, <3>7, ListFrame
    <3> QED BY <3>5, <3>7, <3>8
  <2> QED BY <2>1, <2>2
<1>4. \A m \in Lists \ {l} : Members(list[m]) \intersect W = {}
  BY ListsApart DEF Disjoint
<1> HIDE DEF W, q, U
<1>5. list' = [list EXCEPT ![l] = q]
  BY DEF q
<1>6. /\ next' \in [Obj -> Obj \union {NULL}] /\ prev' \in [Obj -> Obj \union {NULL}]
      /\ first' \in [Lists -> Obj \union {NULL}] /\ list' \in [Lists -> Seq(Obj)]
      /\ \A m \in Lists : ListOK(LinksOf(m), list[m])'
      /\ list'[l] = q /\ \A m \in Lists \ {l} : list'[m] = list[m]
  BY <1>2, <1>3, <1>4, <1>5, ListWritten
<1>7. \A y \in Obj \ W : next'[y] = next[y]
  BY <1>3 DEF SameLinks, LinksOf
<1> QED BY <1>2, <1>6, <1>7 DEF W

\* The free list after a step of a caller on the objects of l.
LEMMA FreeKept ==
  ASSUME IInv, obj_freelist' = obj_freelist, free' = free, unmade' = unmade,
         NEW W, \A y \in Obj \ W : next'[y] = next[y], Members(free) \intersect W = {},
         \A y \in Members(free) \union unmade, k \in Kinds : list'[<<y, k>>] = <<>>
  PROVE  FreeListIntact'
<1>1. /\ free \in Seq(Obj) /\ Distinct(free) /\ Linked(obj_freelist, next, free, NULL) /\ unmade \subseteq Obj
      /\ Members(free) \subseteq Obj
  BY Facts, MembersIn DEF IInv, LinksIntact, FreeListIntact, TypeOK
<1> QED BY <1>1, FreeFrame

\* What owned nothing owns nothing when the lists get no longer.
LEMMA StillBarren ==
  ASSUME IInv, list' \in [Lists -> Seq(Obj)],
         \A m \in Lists : Members(list'[m]) \subseteq Members(list[m]),
         NEW y \in Obj, NEW k \in Kinds, list[<<y, k>>] = <<>>
  PROVE  list'[<<y, k>>] = <<>>
<1>1. <<y, k>> \in Lists
  BY DEF Lists
<1>2. list'[<<y, k>>] \in Seq(Obj) /\ Members(list'[<<y, k>>]) = {}
  BY <1>1, EmptySeq
<1>3. ASSUME list'[<<y, k>>] # <<>> PROVE FALSE
  <2>1. list'[<<y, k>>][1] \in Members(list'[<<y, k>>])
    BY <1>2, <1>3, HasFirst
  <2> QED BY <1>2, <2>1
<1> QED BY <1>3

\* Detach keeps the invariant.
LEMMA DetachIInv ==
  ASSUME IInv, NEW l \in Lists, NEW o \in Obj, Detach(l, o)
  PROVE  IInv'
<1> DEFINE M == [Unlink(LinksOf(l), o) EXCEPT !.next[o] = NULL, !.prev[o] = NULL]
<1>1. /\ job = Idle /\ o \in Members(list[l])
      /\ next' = M.next /\ prev' = M.prev /\ first' = [first EXCEPT ![l] = M.first]
      /\ list' = [list EXCEPT ![l] = Without(list[l], o)] /\ loose' = loose \union {o}
      /\ obj_freelist' = obj_freelist /\ unmade' = unmade /\ job' = job /\ free' = free
  BY DEF Detach, Become
<1>2. M = [Unlink(LinksOf(l), o) EXCEPT !.next[o] = NULL, !.prev[o] = NULL]
  OBVIOUS
<1> HIDE DEF M
<1>3. /\ next' \in [Obj -> Obj \union {NULL}] /\ prev' \in [Obj -> Obj \union {NULL}]
      /\ first' \in [Lists -> Obj \union {NULL}] /\ list' \in [Lists -> Seq(Obj)]
      /\ \A m \in Lists : ListOK(LinksOf(m), list[m])'
      /\ Members(list'[l]) = Members(list[l]) \ {o}
      /\ \A m \in Lists \ {l} : list'[m] = list[m]
      /\ \A y \in Obj \ Members(list[l]) : next'[y] = next[y]
  BY <1>1, <1>2, Unlinked
<1>4. TypeOK'
  <2>1. obj_freelist' \in Obj \union {NULL} /\ unmade' \subseteq Obj /\ loose' \subseteq Obj /\ free' \in Seq(Obj)
    BY <1>1, Facts DEF TypeOK
  <2> QED BY <1>1, <1>3, <2>1, EmptySeq DEF TypeOK, Idle, Kinds
<1>5. FreeListIntact'
  <2>1. Members(free) \intersect Members(list[l]) = {}
    BY ListsApart DEF Disjoint
  <2>2. \A y \in Members(free) \union unmade, k \in Kinds : list'[<<y, k>>] = <<>>
    <3>1. Members(free) \union unmade \subseteq Obj
      BY Facts, MembersIn DEF TypeOK
    <3>2. \A m \in Lists : Members(list'[m]) \subseteq Members(list[m])
      BY <1>3
    <3>3. \A y \in Members(free) \union unmade, k \in Kinds : list[<<y, k>>] = <<>>
      BY <1>1, IdleFacts
    <3> QED BY <1>3, <3>1, <3>2, <3>3, StillBarren
  <2> QED BY <1>1, <1>3, <2>1, <2>2, FreeKept
<1>6. OnePlace'
  <2> DEFINE a == <<NULL, "loose">>
  <2>1. l \in Places /\ a \in Places /\ l # a
    BY PlaceNames
  <2>2. At'[l] = At[l] \ {o} /\ At'[a] = At[a] \union {o} /\ {o} \subseteq At[l]
    BY <1>1, <1>3, PlacesAre
  <2>3. \A x \in Places \ {l, a} : At'[x] = At[x]
    BY <1>1, <1>3, PlaceKept
  <2> HIDE DEF a
  <2>4. IsPartition(At')
    BY <2>1, <2>2, <2>3, MovePart, Facts DEF OnePlace
  <2> QED BY <2>4 DEF OnePlace, IsPartition
<1> QED BY <1>1, <1>3, <1>4, <1>5, <1>6, IdleStep

-----------------------------------------------------------------------------
(***************************************************************************)
(* The calls that begin a release.                                         *)
(***************************************************************************)
\* A release that has just begun.
LEMMA Started ==
  ASSUME NEW t \in Seq(Obj), t # <<>>, NEW op \in {"one", "all"},
         job' = [Idle EXCEPT !.op = op, !.o = t[1], !.top = t[1], !.tops = t],
         op = "one" => t = <<t[1]>>, op = "all" => IsChain(next', prev', t[1], t),
         OnePlace', FreeListIntact',
         obj_freelist' \in Ptr, next' \in [Obj -> Ptr], prev' \in [Obj -> Ptr],
         first' \in [Lists -> Ptr], unmade' \subseteq Obj, loose' \subseteq Obj,
         free' \in Seq(Obj), list' \in [Lists -> Seq(Obj)],
         \A l \in Lists : ListOK(LinksOf(l), list[l])'
  PROVE  IInv'
<1>0. t[1] \in Obj /\ Len(t) \in Nat \ {0} /\ t[1] # NULL
  BY NullAssumption
<1>1. /\ job'.op = op /\ job'.o = t[1] /\ job'.top = t[1] /\ job'.tops = t /\ job'.stage = "meta"
      /\ job'.clist = NULL /\ job'.c = NULL /\ job'.cclist = NULL /\ job'.fclist = NULL
      /\ job'.cq = <<>> /\ job'.ccq = <<>> /\ job'.fq = <<>>
  BY DEF Idle
<1>2. job' \in Jobs
  BY <1>0, EmptySeq DEF Idle, Jobs, Kinds, Ptr
<1>3. TypeOK'
  BY <1>0, <1>1, EmptySeq DEF TypeOK, Kinds, Ptr
<1>4. ReleaseIntact'
  BY <1>1, EmptySeq DEF ReleaseIntact, Chain, IsChain, Linked
<1>5. Progress'
  <2>1. WalkedTo(list', <<>>, NULL)
    BY DEF WalkedTo
  <2>2. WalkedTo(list', t, t[1])
    BY <1>0 DEF WalkedTo
  <2> QED BY <1>0, <1>1, <2>1, <2>2, EmptySeq DEF Progress, Working
<1>6. ListsIntact'
  BY DEF ListsIntact
<1> QED BY <1>2, <1>3, <1>4, <1>5, <1>6 DEF IInv, LinksIntact

\* Delete(obj) begins a release of a standalone node.
LEMMA DeleteIInv == ASSUME IInv, NEW o \in Obj, Delete(o) PROVE IInv'
<1>1. /\ job = Idle /\ o \in loose /\ loose' = loose \ {o}
      /\ job' = [Idle EXCEPT !.op = "one", !.o = o, !.top = o, !.tops = <<o>>]
      /\ obj_freelist' = obj_freelist /\ next' = next /\ prev' = prev /\ first' = first
      /\ unmade' = unmade /\ free' = free /\ list' = list
  BY DEF Delete, StartDelete, mem
<1>2. FreeListIntact' /\ \A l \in Lists : ListOK(LinksOf(l), list[l])'
  <2>1. FreeListIntact /\ \A l \in Lists : ListOK(LinksOf(l), list[l])
    BY <1>1, IdleFacts DEF IInv, LinksIntact
  <2> QED BY <1>1, <2>1 DEF FreeListIntact, LinksOf
<1>3. OnePlace'
  <2> DEFINE a == <<NULL, "loose">>
             b == <<NULL, "top">>
  <2>1. a \in Places /\ b \in Places /\ a # b
    BY PlaceNames
  <2>2. At'[a] = At[a] \ {o} /\ {o} \subseteq At[a]
    BY <1>1, PlacesAre
  <2>3. At'[b] = At[b] \union {o}
    <3>1. job.tops = <<>> /\ job'.tops = <<o>>
      BY <1>1 DEF Idle
    <3> QED BY <3>1, PlacesAre, EmptySeq, SingletonSeq
  <2>4. \A x \in Places \ {a, b} : At'[x] = At[x]
    <3>1. job'.cq = job.cq /\ job'.ccq = job.ccq /\ job'.fq = job.fq
      BY <1>1 DEF Idle
    <3> QED BY <1>1, <3>1, PlaceKept
  <2> HIDE DEF a, b
  <2>5. IsPartition(At')
    BY <2>1, <2>2, <2>3, <2>4, MovePart, Facts DEF OnePlace
  <2> QED BY <2>5 DEF OnePlace, IsPartition
<1>4. /\ obj_freelist' \in Ptr /\ next' \in [Obj -> Ptr] /\ prev' \in [Obj -> Ptr]
      /\ first' \in [Lists -> Ptr] /\ unmade' \subseteq Obj /\ loose' \subseteq Obj
      /\ free' \in Seq(Obj) /\ list' \in [Lists -> Seq(Obj)]
  BY <1>1, Facts DEF TypeOK, Ptr
<1>5. <<o>> \in Seq(Obj) /\ <<o>> # <<>> /\ <<o>>[1] = o
  BY SingletonSeq
<1> QED BY <1>1, <1>2, <1>3, <1>4, <1>5, Started

\* Delete(first, obj) begins a release of a node it takes out of its list.
LEMMA DeleteFromIInv == ASSUME IInv, NEW l \in Lists, NEW o \in Obj, DeleteFrom(l, o) PROVE IInv'
<1> DEFINE M == Unlink(LinksOf(l), o)
<1>1. /\ job = Idle /\ o \in Members(list[l])
      /\ next' = M.next /\ prev' = M.prev /\ first' = [first EXCEPT ![l] = M.first]
      /\ list' = [list EXCEPT ![l] = Without(list[l], o)] /\ loose' = loose
      /\ obj_freelist' = obj_freelist /\ unmade' = unmade /\ free' = free
      /\ job' = [Idle EXCEPT !.op = "one", !.o = o, !.top = o, !.tops = <<o>>]
  BY DEF DeleteFrom, Become, StartDelete
<1>2. M = Unlink(LinksOf(l), o)
  OBVIOUS
<1> HIDE DEF M
<1>3. /\ next' \in [Obj -> Obj \union {NULL}] /\ prev' \in [Obj -> Obj \union {NULL}]
      /\ first' \in [Lists -> Obj \union {NULL}] /\ list' \in [Lists -> Seq(Obj)]
      /\ \A m \in Lists : ListOK(LinksOf(m), list[m])'
      /\ Members(list'[l]) = Members(list[l]) \ {o}
      /\ \A m \in Lists \ {l} : list'[m] = list[m]
      /\ \A y \in Obj \ Members(list[l]) : next'[y] = next[y]
  BY <1>1, <1>2, Unlinked
<1>5. FreeListIntact'
  <2>1. Members(free) \intersect Members(list[l]) = {}
    BY ListsApart DEF Disjoint
  <2>2. \A y \in Members(free) \union unmade, k \in Kinds : list'[<<y, k>>] = <<>>
    <3>1. Members(free) \union unmade \subseteq Obj
      BY Facts, MembersIn DEF TypeOK
    <3>2. \A m \in Lists : Members(list'[m]) \subseteq Members(list[m])
      BY <1>3
    <3>3. \A y \in Members(free) \union unmade, k \in Kinds : list[<<y, k>>] = <<>>
      BY <1>1, IdleFacts
    <3> QED BY <1>3, <3>1, <3>2, <3>3, StillBarren
  <2> QED BY <1>1, <1>3, <2>1, <2>2, FreeKept
<1>6. OnePlace'
  <2> DEFINE b == <<NULL, "top">>
  <2>1. l \in Places /\ b \in Places /\ l # b
    BY PlaceNames
  <2>2. At'[l] = At[l] \ {o} /\ {o} \subseteq At[l]
    BY <1>1, <1>3, PlacesAre
  <2>3. At'[b] = At[b] \union {o}
    <3>1. job.tops = <<>> /\ job'.tops = <<o>>
      BY <1>1 DEF Idle
    <3> QED BY <3>1, PlacesAre, EmptySeq, SingletonSeq
  <2>4. \A x \in Places \ {l, b} : At'[x] = At[x]
    <3>1. job'.cq = job.cq /\ job'.ccq = job.ccq /\ job'.fq = job.fq
      BY <1>1 DEF Idle
    <3> QED BY <1>1, <1>3, <3>1, PlaceKept
  <2> HIDE DEF b
  <2>5. IsPartition(At')
    BY <2>1, <2>2, <2>3, <2>4, MovePart, Facts DEF OnePlace
  <2> QED BY <2>5 DEF OnePlace, IsPartition
<1>7. /\ obj_freelist' \in Ptr /\ next' \in [Obj -> Ptr] /\ prev' \in [Obj -> Ptr]
      /\ first' \in [Lists -> Ptr] /\ unmade' \subseteq Obj /\ loose' \subseteq Obj
      /\ free' \in Seq(Obj) /\ list' \in [Lists -> Seq(Obj)]
  BY <1>1, <1>3, Facts DEF TypeOK, Ptr
<1>8. <<o>> \in Seq(Obj) /\ <<o>> # <<>> /\ <<o>>[1] = o
  BY SingletonSeq
<1> QED BY <1>1, <1>3, <1>5, <1>6, <1>7, <1>8, Started

\* DeleteAll(first) begins a release of all nodes of a list.
LEMMA DeleteAllIInv == ASSUME IInv, NEW l \in Lists, DeleteAll(l) PROVE IInv'
<1> DEFINE t == list[l]
<1>1. /\ job = Idle /\ first[l] # NULL
      /\ job' = [Idle EXCEPT !.op = "all", !.o = first[l], !.top = first[l], !.tops = t]
      /\ first' = [first EXCEPT ![l] = NULL] /\ list' = [list EXCEPT ![l] = <<>>]
      /\ obj_freelist' = obj_freelist /\ next' = next /\ prev' = prev
      /\ unmade' = unmade /\ free' = free /\ loose' = loose
  BY DEF DeleteAll
<1>2. t \in Seq(Obj) /\ ListOK(LinksOf(l), t) /\ list \in [Lists -> Seq(Obj)]
      /\ first \in [Lists -> Obj \union {NULL}]
  BY <1>1, Facts, IdleFacts
<1>3. IsChain(next, prev, first[l], t)
  BY <1>2, ListIsChain DEF LinksOf
<1>4. t # <<>> /\ first[l] = t[1]
  BY <1>1, <1>2, <1>3, ChainEnds
<1>5. /\ list'[l] = <<>> /\ first'[l] = NULL
      /\ \A m \in Lists \ {l} : list'[m] = list[m] /\ first'[m] = first[m]
      /\ list' \in [Lists -> Seq(Obj)] /\ first' \in [Lists -> Obj \union {NULL}]
  BY <1>1, <1>2, EmptySeq
<1> HIDE DEF t
<1>6. \A m \in Lists : ListOK(LinksOf(m), list[m])'
  <2>1. ListOK(LinksOf(l), list[l])'
    BY <1>5, EmptySeq DEF ListOK, Linked, LinksOf
  <2>2. ASSUME NEW m \in Lists \ {l} PROVE ListOK(LinksOf(m), list[m])'
    BY <1>1, <1>5, IdleFacts DEF LinksOf
  <2> QED BY <2>1, <2>2
<1>7. FreeListIntact'
  <2>2. \A y \in Members(free) \union unmade, k \in Kinds : list'[<<y, k>>] = <<>>
    <3>1. Members(free) \union unmade \subseteq Obj
      BY Facts, MembersIn DEF TypeOK
    <3>2. \A m \in Lists : Members(list'[m]) \subseteq Members(list[m])
      BY <1>5, EmptySeq
    <3>3. \A y \in Members(free) \union unmade, k \in Kinds : list[<<y, k>>] = <<>>
      BY <1>1, IdleFacts
    <3> QED BY <1>5, <3>1, <3>2, <3>3, StillBarren
  <2> QED BY <1>1, <2>2, FreeKept
<1>8. OnePlace'
  <2> DEFINE b == <<NULL, "top">>
  <2>1. l \in Places /\ b \in Places /\ l # b
    BY PlaceNames
  <2>2. At'[l] = At[l] \ Members(t) /\ Members(t) \subseteq At[l]
    BY <1>5, PlacesAre, EmptySeq DEF t
  <2>3. At'[b] = At[b] \union Members(t)
    <3>1. job.tops = <<>> /\ job'.tops = t
      BY <1>1 DEF Idle
    <3> QED BY <3>1, PlacesAre, EmptySeq
  <2>4. \A x \in Places \ {l, b} : At'[x] = At[x]
    <3>1. job'.cq = job.cq /\ job'.ccq = job.ccq /\ job'.fq = job.fq
      BY <1>1 DEF Idle
    <3> QED BY <1>1, <1>5, <3>1, PlaceKept
  <2> HIDE DEF b
  <2>5. IsPartition(At')
    BY <2>1, <2>2, <2>3, <2>4, MovePart, Facts DEF OnePlace
  <2> QED BY <2>5 DEF OnePlace, IsPartition
<1>9. /\ obj_freelist' \in Ptr /\ next' \in [Obj -> Ptr] /\ prev' \in [Obj -> Ptr]
      /\ first' \in [Lists -> Ptr] /\ unmade' \subseteq Obj /\ loose' \subseteq Obj
      /\ free' \in Seq(Obj) /\ list' \in [Lists -> Seq(Obj)]
  BY <1>1, <1>5, Facts DEF TypeOK, Ptr
<1>10. IsChain(next', prev', t[1], t)
  BY <1>1, <1>3, <1>4
<1> QED BY <1>1, <1>2, <1>4, <1>6, <1>7, <1>8, <1>9, <1>10, Started

-----------------------------------------------------------------------------
(***************************************************************************)
(* The walk of a release.                                                  *)
(***************************************************************************)
\* How far a walk has come.
LEMMA Walked ==
  ASSUME NEW f, NEW q \in Seq(Obj), NEW x, WalkedTo(f, q, x)
  PROVE  /\ x # NULL => /\ x \in Members(q)
                        /\ \E k \in 1 .. Len(q) : x = q[k] /\ \A i \in 1 .. k - 1 : Barren(f, q[i])
         /\ x = NULL => \A y \in Members(q) : Barren(f, y)
<1>1. PICK k \in 1 .. Len(q) + 1 : /\ x = IF k <= Len(q) THEN q[k] ELSE NULL
                                   /\ \A i \in 1 .. k - 1 : Barren(f, q[i])
  BY DEF WalkedTo
<1>2. CASE k <= Len(q)
  <2>1. k \in 1 .. Len(q) /\ x = q[k] /\ q[k] \in Obj
    BY <1>1, <1>2
  <2>2. x # NULL /\ x \in Members(q)
    BY <2>1, NullAssumption DEF Members
  <2> QED BY <1>1, <2>1, <2>2
<1>3. CASE ~(k <= Len(q))
  <2>1. x = NULL /\ \A i \in 1 .. Len(q) : Barren(f, q[i])
    BY <1>1, <1>3
  <2> QED BY <2>1 DEF Members
<1> QED BY <1>2, <1>3

\* Lists that get no longer do not undo the walk.
LEMMA WalkedStays ==
  ASSUME NEW f, NEW g, NEW q \in Seq(Obj), NEW x, WalkedTo(f, q, x),
         \A y \in Obj : Barren(f, y) => Barren(g, y)
  PROVE  WalkedTo(g, q, x)
<1>1. PICK k \in 1 .. Len(q) + 1 : /\ x = IF k <= Len(q) THEN q[k] ELSE NULL
                                   /\ \A i \in 1 .. k - 1 : Barren(f, q[i])
  BY DEF WalkedTo
<1>2. \A i \in 1 .. k - 1 : q[i] \in Obj
  BY <1>1
<1>3. \A i \in 1 .. k - 1 : Barren(g, q[i])
  BY <1>1, <1>2
<1> QED BY <1>1, <1>3 DEF WalkedTo

\* A walk begins at the first node.
LEMMA WalkStarts ==
  ASSUME NEW f, NEW q \in Seq(Obj), NEW x, x = IF q = <<>> THEN NULL ELSE q[1]
  PROVE  WalkedTo(f, q, x)
<1>1. Len(q) \in Nat /\ (q = <<>> <=> Len(q) = 0)
  OBVIOUS
<1>2. 1 \in 1 .. Len(q) + 1 /\ x = (IF 1 <= Len(q) THEN q[1] ELSE NULL)
  BY <1>1
<1> QED BY <1>2 DEF WalkedTo

\* One node further.
LEMMA WalkedOn ==
  ASSUME NEW f, NEW q \in Seq(Obj), NEW x \in Obj, NEW h, NEW n, Distinct(q), Linked(h, n, q, NULL),
         WalkedTo(f, q, x), Barren(f, x)
  PROVE  WalkedTo(f, q, n[x]) /\ (n[x] = NULL => x = q[Len(q)] /\ \A y \in Members(q) : Barren(f, y))
<1>1. PICK k \in 1 .. Len(q) : x = q[k] /\ \A i \in 1 .. k - 1 : Barren(f, q[i])
  BY NullAssumption, Walked
<1>2. \A i \in 1 .. k : Barren(f, q[i])
  BY <1>1
<1>3. k + 1 \in 1 .. Len(q) + 1 /\ (k + 1) - 1 = k
  OBVIOUS
<1>4. n[x] = (IF k + 1 <= Len(q) THEN q[k + 1] ELSE NULL)
  BY <1>1 DEF Linked
<1>5. WalkedTo(f, q, n[x])
  BY <1>2, <1>3, <1>4 DEF WalkedTo
<1>6. ASSUME n[x] = NULL PROVE x = q[Len(q)] /\ \A y \in Members(q) : Barren(f, y)
  <2>1. k = Len(q)
    <3>1. k + 1 <= Len(q) => q[k + 1] \in Obj
      OBVIOUS
    <3> QED BY <1>4, <1>6, <3>1, NullAssumption
  <2> QED BY <1>1, <1>2, <2>1 DEF Members
<1> QED BY <1>5, <1>6

\* A release at work.
LEMMA ReleaseFacts ==
  ASSUME IInv, job.op # "idle"
  PROVE  /\ job.o \in Obj /\ job.o \in Members(job.tops) /\ WalkedTo(list, job.tops, job.o)
         /\ IsChain(next, prev, job.clist, job.cq) /\ IsChain(next, prev, job.cclist, job.ccq)
         /\ IsChain(next, prev, job.fclist, job.fq)
         /\ job.op = "all" => IsChain(next, prev, job.top, job.tops)
         /\ job.clist = NULL => job.cq = <<>> /\ job.cclist = NULL /\ job.ccq = <<>>
         /\ job.fclist = NULL => job.fq = <<>>
         /\ WalkedTo(list, job.cq, job.c) /\ \A y \in Members(job.fq) : Barren(list, y)
         /\ \A l \in Lists : l # Here \/ ~Working => ListOK(LinksOf(l), list[l])
         /\ Working => list[Here] = <<>> /\ job.stage # "node"
         /\ job.stage # "node" => Here \in Lists
<1>1. /\ job.tops \in Seq(Obj) /\ job.cq \in Seq(Obj) /\ job.ccq \in Seq(Obj) /\ job.fq \in Seq(Obj)
  BY Facts
<1>2. /\ Progress /\ ReleaseIntact /\ ListsIntact /\ TypeOK /\ job \in Jobs
  BY DEF IInv, LinksIntact
<1>3. job.o \in Obj /\ WalkedTo(list, job.tops, job.o) /\ job.o # NULL
  BY <1>2, NullAssumption DEF Progress, TypeOK
<1>4. job.o \in Members(job.tops)
  BY <1>1, <1>3, Walked
<1>5. /\ IsChain(next, prev, job.clist, job.cq) /\ IsChain(next, prev, job.cclist, job.ccq)
      /\ IsChain(next, prev, job.fclist, job.fq)
      /\ job.op = "all" => IsChain(next, prev, job.top, job.tops)
  BY <1>2 DEF ReleaseIntact, Chain
<1>6. /\ job.clist = NULL => job.cq = <<>> /\ job.cclist = NULL /\ job.ccq = <<>>
      /\ job.fclist = NULL => job.fq = <<>>
  BY <1>1, <1>2, <1>5, ChainEnds DEF Progress
<1>7. WalkedTo(list, job.cq, job.c) /\ \A y \in Members(job.fq) : Barren(list, y)
  BY <1>2 DEF Progress
<1>8. \A l \in Lists : l # Here \/ ~Working => ListOK(LinksOf(l), list[l])
  BY <1>2 DEF ListsIntact, Working
<1>9. Working => list[Here] = <<>> /\ job.stage # "node"
  BY <1>2 DEF Progress
<1>10. job.stage # "node" => Here \in Lists
  BY <1>2, <1>3 DEF TypeOK, Here, Lists
<1> QED BY <1>3, <1>4, <1>5, <1>6, <1>7, <1>8, <1>9, <1>10

\* The list that starts at first[l].
LEMMA FirstChain ==
  ASSUME NEW l \in Lists, list[l] \in Seq(Obj), ListOK(LinksOf(l), list[l])
  PROVE  IsChain(next, prev, first[l], list[l])
<1>1. IsChain(LinksOf(l).next, LinksOf(l).prev, LinksOf(l).first, list[l])
  BY ListIsChain
<1> QED BY <1>1 DEF LinksOf

\* A list keeps its links when only objects of W are written.
LEMMA ListKept ==
  ASSUME NEW m \in Lists, list[m] \in Seq(Obj), ListOK(LinksOf(m), list[m]), NEW W,
         \A y \in Obj \ W : next'[y] = next[y] /\ prev'[y] = prev[y],
         Members(list[m]) \intersect W = {}, first'[m] = first[m], list'[m] = list[m]
  PROVE  ListOK(LinksOf(m), list[m])'
<1>1. Members(list[m]) \subseteq Obj \ W
  BY MembersIn
<1>2. LinksOf(m)'.first = LinksOf(m).first /\ SameLinks(LinksOf(m), LinksOf(m)', Members(list[m]))
  BY <1>1 DEF LinksOf, SameLinks
<1>3. ListOK(LinksOf(m)', list[m])
  BY <1>2, ListFrame
<1> QED BY <1>3

\* A chain is kept when only objects of W are written.
LEMMA ChainKept ==
  ASSUME NEW q \in Seq(Obj), NEW h, IsChain(next, prev, h, q), NEW W,
         \A y \in Obj \ W : next'[y] = next[y] /\ prev'[y] = prev[y], Members(q) \intersect W = {}
  PROVE  IsChain(next', prev', h, q)
<1>1. Members(q) \subseteq Obj \ W
  BY MembersIn
<1> QED BY <1>1, ChainFrame

-----------------------------------------------------------------------------
(***************************************************************************)
(* The steps of a release.                                                 *)
(***************************************************************************)
\* Types after a step of a release.
LEMMA ReleaseTypes ==
  ASSUME job' \in Jobs, job'.o \in Obj, job'.top \in Obj, obj_freelist' \in Ptr,
         next' \in [Obj -> Ptr], prev' \in [Obj -> Ptr], first' \in [Lists -> Ptr],
         unmade' \subseteq Obj, loose' \subseteq Obj, free' \in Seq(Obj), list' \in [Lists -> Seq(Obj)]
  PROVE  TypeOK'
BY DEF TypeOK, Jobs, Ptr

\* The invariant, unfolded for the steps of a release.
LEMMA TypesBefore ==
  ASSUME IInv
  PROVE  /\ job \in Jobs /\ obj_freelist \in Ptr
         /\ next \in [Obj -> Ptr] /\ prev \in [Obj -> Ptr] /\ first \in [Lists -> Ptr]
         /\ unmade \subseteq Obj /\ loose \subseteq Obj /\ free \in Seq(Obj) /\ list \in [Lists -> Seq(Obj)]
         /\ job.op # "idle" => job.o \in Obj /\ job.top \in Obj
         /\ \A y \in Members(free) \union unmade, k \in Kinds : list[<<y, k>>] = <<>>
         /\ FreeListIntact /\ Progress
BY DEF IInv, LinksIntact, TypeOK, FreeListIntact, Ptr

\* The metalist or childlist of the node is taken in hand.
LEMMA ReleaseListIInv == ASSUME IInv, ReleaseList PROVE IInv'
<1>1. /\ job.op # "idle" /\ job.stage # "node" /\ job.clist = NULL /\ job.fclist = NULL /\ ~Working
      /\ obj_freelist' = obj_freelist /\ next' = next /\ prev' = prev /\ first' = first
      /\ unmade' = unmade /\ free' = free /\ loose' = loose
  BY DEF ReleaseList, mem, Working
<1>2. /\ Here \in Lists /\ job.o \in Obj /\ WalkedTo(list, job.tops, job.o)
      /\ job.cq = <<>> /\ job.cclist = NULL /\ job.ccq = <<>> /\ job.fq = <<>>
      /\ \A l \in Lists : ListOK(LinksOf(l), list[l])
  BY <1>1, ReleaseFacts
<1>3. list[Here] \in Seq(Obj) /\ IsChain(next, prev, first[Here], list[Here])
  BY <1>2, Facts, FirstChain
<1>4. job.stage \in Kinds /\ job.o # NULL
  BY <1>1, <1>2, Facts, NullAssumption DEF Jobs
<1>5. CASE first[Here] = NULL
  <2>1. job' = [job EXCEPT !.stage = After(job.stage)] /\ list' = list
    BY <1>5 DEF ReleaseList
  <2>2. list[Here] = <<>>
    BY <1>3, <1>5, ChainEnds
  <2>3. /\ job' \in Jobs /\ job'.stage = After(job.stage) /\ job'.op = job.op /\ job'.o = job.o /\ job'.top = job.top
        /\ job'.clist = job.clist /\ job'.c = job.c /\ job'.cclist = job.cclist /\ job'.fclist = job.fclist
        /\ job'.tops = job.tops /\ job'.cq = job.cq /\ job'.ccq = job.ccq /\ job'.fq = job.fq
    BY <2>1, Facts DEF Jobs, After, Kinds
  <2>4. TypeOK'
    BY <1>1, <2>1, <2>3, TypesBefore, ReleaseTypes
  <2>5. FreeListIntact'
    BY <1>1, <2>1, TypesBefore DEF FreeListIntact
  <2>6. ListsIntact'
    BY <1>1, <1>2, <2>1 DEF ListsIntact, LinksOf
  <2>7. ReleaseIntact'
    BY <1>1, <2>3 DEF IInv, LinksIntact, ReleaseIntact, Chain
  <2>8. Progress'
    <3>1. job.stage = "meta" => list[<<job.o, "meta">>] = <<>> /\ job'.stage = "child"
      BY <2>2, <2>3 DEF Here, After
    <3>2. job.stage = "child" => list[<<job.o, "child">>] = <<>> /\ list[<<job.o, "meta">>] = <<>>
      BY <1>1, <2>2, TypesBefore DEF Here, Progress
    <3>3. job.stage = "meta" \/ job.stage = "child"
      BY <1>4 DEF Kinds
    <3>4. ~Working'
      BY <1>1, <2>3 DEF Working
    <3> QED BY <1>1, <2>1, <2>3, <3>1, <3>2, <3>3, <3>4, TypesBefore DEF Progress
  <2>9. OnePlace'
    <3>1. \A x \in Places : At'[x] = At[x]
      BY <1>1, <2>1, <2>3, PlaceKept
    <3> QED BY <3>1, Facts DEF OnePlace, IsPartition
  <2> QED BY <2>3, <2>4, <2>5, <2>6, <2>7, <2>8, <2>9 DEF IInv, LinksIntact
<1>6. CASE first[Here] # NULL
  <2>1. /\ job' = [job EXCEPT !.clist = first[Here], !.c = first[Here], !.cq = list[Here]]
        /\ list' = [list EXCEPT ![Here] = <<>>]
    BY <1>6 DEF ReleaseList
  <2>2. list[Here] # <<>> /\ first[Here] = list[Here][1] /\ first[Here] \in Obj
    BY <1>3, <1>6, ChainEnds
  <2>3. /\ job' \in Jobs /\ job'.stage = job.stage /\ job'.op = job.op /\ job'.o = job.o /\ job'.top = job.top
        /\ job'.clist = first[Here] /\ job'.c = first[Here] /\ job'.cclist = job.cclist /\ job'.fclist = job.fclist
        /\ job'.tops = job.tops /\ job'.cq = list[Here] /\ job'.ccq = job.ccq /\ job'.fq = job.fq
    BY <1>3, <2>1, <2>2, Facts DEF Jobs, Ptr
  <2>4. /\ list' \in [Lists -> Seq(Obj)] /\ list'[Here] = <<>> /\ \A m \in Lists \ {Here} : list'[m] = list[m]
    BY <1>2, <2>1, Facts, EmptySeq
  <2>5. \A y \in Obj : \A k \in Kinds : list[<<y, k>>] = <<>> => list'[<<y, k>>] = <<>>
    BY <2>4 DEF Lists
  <2>6. TypeOK'
    BY <1>1, <2>3, <2>4, TypesBefore, ReleaseTypes
  <2>7. FreeListIntact'
    <3>1. Members(free) \subseteq Obj /\ unmade \subseteq Obj
      BY TypesBefore, MembersIn
    <3> QED BY <1>1, <2>5, <3>1, TypesBefore DEF FreeListIntact
  <2>8. Here' = Here
    BY <2>3 DEF Here
  <2>9. ListsIntact'
    BY <1>1, <1>2, <1>6, <2>3, <2>4, <2>8 DEF ListsIntact, LinksOf
  <2>10. ReleaseIntact'
    BY <1>1, <1>3, <2>3 DEF IInv, LinksIntact, ReleaseIntact, Chain
  <2>11. Progress'
    <3>1. \A y \in Obj : Barren(list, y) => Barren(list', y)
      BY <2>5 DEF Barren
    <3>2. WalkedTo(list', job.tops, job.o)
      BY <1>2, <3>1, Facts, WalkedStays
    <3>3. WalkedTo(list', list[Here], first[Here])
      BY <1>3, <2>2, WalkStarts
    <3>4. job.stage # "meta" => list'[<<job.o, "meta">>] = <<>>
      <4>1. "meta" \in Kinds
        BY DEF Kinds
      <4> QED BY <1>1, <1>2, <2>5, <4>1, TypesBefore DEF Progress
    <3>5. \A y \in Members(job.fq) : Barren(list', y)
      BY <1>2, EmptySeq
    <3> QED BY <1>1, <1>6, <2>3, <2>4, <2>8, <3>2, <3>3, <3>4, <3>5, TypesBefore DEF Progress
  <2>12. OnePlace'
    <3> DEFINE a == Here
               b == <<NULL, "level">>
               S == Members(list[Here])
    <3>1. a \in Places /\ b \in Places /\ a # b
      BY <1>2, PlaceNames
    <3>2. At'[a] = At[a] \ S /\ S \subseteq At[a]
      <4>1. At[a] = Members(list[a]) /\ At'[a] = Members(list'[a])
        BY <1>2, <2>8, PlacesAre
      <4> QED BY <2>4, <4>1, EmptySeq
    <3>3. At'[b] = At[b] \union S
      BY <1>2, <2>3, PlacesAre, EmptySeq
    <3>4. \A x \in Places \ {a, b} : At'[x] = At[x]
      BY <1>1, <2>3, <2>4, PlaceKept
    <3> HIDE DEF a, b, S
    <3>5. IsPartition(At')
      BY <3>1, <3>2, <3>3, <3>4, MovePart, Facts DEF OnePlace
    <3> QED BY <3>5 DEF OnePlace, IsPartition
  <2> QED BY <2>3, <2>6, <2>7, <2>9, <2>10, <2>11, <2>12 DEF IInv, LinksIntact
<1> QED BY <1>5, <1>6

\* The same with q before r before s.
SplicedTwo(p, f, g, h, q, r, s) ==
  /\ p.next \in [Obj -> Obj \union {NULL}] /\ p.prev \in [Obj -> Obj \union {NULL}]
  /\ IsChain(p.next, p.prev, h, q \o (r \o s))
  /\ q \o (r \o s) \in Seq(Obj)
  /\ Members(q \o (r \o s)) = Members(q) \union (Members(r) \union Members(s))
  /\ \A x \in Obj \ (Members(q) \union (Members(r) \union Members(s))) :
       p.next[x] = f[x] /\ p.prev[x] = g[x]

\* The two lists of a node of the level go before the level below.
LEMMA SpliceTwo ==
  ASSUME NEW f \in [Obj -> Obj \union {NULL}], NEW g \in [Obj -> Obj \union {NULL}],
         NEW q \in Seq(Obj), NEW r \in Seq(Obj), NEW s \in Seq(Obj), NEW n, NEW m, NEW cc,
         Disjoint(q, r), Disjoint(q, s), Disjoint(r, s),
         IsChain(f, g, n, q), IsChain(f, g, m, r), IsChain(f, g, cc, s),
         NEW p, NEW p1, IsSplice(p1, f, g, m, cc), p = Splice(p1, n, Joined(m, cc))
  PROVE  SplicedTwo(p, f, g, Joined(n, Joined(m, cc)), q, r, s)
<1> DEFINE rs == r \o s
           h  == Joined(m, cc)
<1>0. Spliced(p1, f, g, h, r, s)
  BY SpliceOK
<1>1. /\ p1.next \in [Obj -> Obj \union {NULL}] /\ p1.prev \in [Obj -> Obj \union {NULL}]
      /\ p1 = [next |-> p1.next, prev |-> p1.prev]
      /\ IsChain(p1.next, p1.prev, h, rs)
      /\ rs \in Seq(Obj) /\ Members(rs) = Members(r) \union Members(s)
      /\ \A x \in Obj \ (Members(r) \union Members(s)) : p1.next[x] = f[x] /\ p1.prev[x] = g[x]
  BY <1>0 DEF Spliced
<1>2. p = Splice(p1, n, h)
  OBVIOUS
<1> HIDE DEF rs, h
<1>3. IsChain(p1.next, p1.prev, n, q)
  <2>1. \A x \in Members(q) : p1.next[x] = f[x] /\ p1.prev[x] = g[x]
    BY <1>1, MembersIn DEF Disjoint
  <2> QED BY <2>1, ChainFrame
<1>4. Disjoint(q, rs)
  BY <1>1 DEF Disjoint
<1>5. IsSplice(p, p1.next, p1.prev, n, h)
  BY <1>1, <1>2 DEF IsSplice
<1>6. Spliced(p, p1.next, p1.prev, Joined(n, h), q, rs)
  BY <1>1, <1>3, <1>4, <1>5, SpliceOK
<1>7. /\ p.next \in [Obj -> Obj \union {NULL}] /\ p.prev \in [Obj -> Obj \union {NULL}]
      /\ IsChain(p.next, p.prev, Joined(n, h), q \o rs)
      /\ q \o rs \in Seq(Obj) /\ Members(q \o rs) = Members(q) \union Members(rs)
      /\ \A x \in Obj \ (Members(q) \union Members(rs)) : p.next[x] = p1.next[x] /\ p.prev[x] = p1.prev[x]
  BY <1>6 DEF Spliced
<1> QED BY <1>1, <1>7 DEF rs, h, SplicedTwo

\* One round of the loop over a level keeps the invariant.
LEMMA ReleaseKnvNodeIInv == ASSUME IInv, ReleaseKnvNode PROVE IInv'
<1> DEFINE c == job.c
           lm == <<c, "meta">>
           lc == <<c, "child">>
           p1 == Splice([next |-> next, prev |-> prev], first[lm], job.cclist)
           p == Splice(p1, first[lc], Joined(first[lm], job.cclist))
           cc2 == Joined(first[lc], Joined(first[lm], job.cclist))
           ccq2 == list[lc] \o (list[lm] \o job.ccq)
           W == Members(list[lc]) \union (Members(list[lm]) \union Members(job.ccq))
<1>1. /\ c # NULL /\ next' = p.next /\ prev' = p.prev /\ first' = InitChildList(first, c)
      /\ job' = [job EXCEPT !.c = p.next[c], !.cclist = cc2, !.ccq = ccq2]
      /\ list' = [list EXCEPT ![lm] = <<>>, ![lc] = <<>>]
      /\ obj_freelist' = obj_freelist /\ unmade' = unmade /\ free' = free /\ loose' = loose
  BY DEF ReleaseKnvNode
<1>2. job.op # "idle"
  BY <1>1, TypesBefore DEF Progress, Idle
<1>3. /\ job.o \in Obj /\ job.o \in Members(job.tops) /\ WalkedTo(list, job.tops, job.o)
      /\ IsChain(next, prev, job.clist, job.cq) /\ IsChain(next, prev, job.cclist, job.ccq)
      /\ IsChain(next, prev, job.fclist, job.fq)
      /\ job.op = "all" => IsChain(next, prev, job.top, job.tops)
      /\ job.clist = NULL => job.cq = <<>>
      /\ WalkedTo(list, job.cq, c) /\ \A y \in Members(job.fq) : Barren(list, y)
      /\ \A l \in Lists : l # Here => ListOK(LinksOf(l), list[l])
      /\ Working => list[Here] = <<>> /\ job.stage # "node"
      /\ job.stage # "node" => Here \in Lists
  BY <1>2, ReleaseFacts
<1>4. /\ job.tops \in Seq(Obj) /\ job.cq \in Seq(Obj) /\ job.ccq \in Seq(Obj) /\ job.fq \in Seq(Obj)
      /\ list \in [Lists -> Seq(Obj)] /\ free \in Seq(Obj)
      /\ next \in [Obj -> Obj \union {NULL}] /\ prev \in [Obj -> Obj \union {NULL}]
  BY Facts
<1>5. c \in Members(job.cq) /\ c \in Obj /\ c # job.o /\ job.clist # NULL
  <2>1. c \in Members(job.cq)
    BY <1>1, <1>3, <1>4, Walked
  <2>2. Members(job.cq) \intersect Members(job.tops) = {}
    BY JobApart DEF Disjoint
  <2> QED BY <1>3, <1>4, <2>1, <2>2, MembersIn, EmptySeq
<1>6. lm \in Lists /\ lc \in Lists /\ lm # lc /\ lm # Here /\ lc # Here
      /\ list[lm] \in Seq(Obj) /\ list[lc] \in Seq(Obj)
  BY <1>4, <1>5 DEF Lists, Kinds, Here
<1>61. IsSplice(p1, next, prev, first[lm], job.cclist)
       /\ p = Splice(p1, first[lc], Joined(first[lm], job.cclist))
  BY DEF IsSplice
<1> HIDE DEF c, lm, lc, cc2, ccq2, p, p1
<1>7. IsChain(next, prev, first[lm], list[lm]) /\ IsChain(next, prev, first[lc], list[lc])
  BY <1>3, <1>6, FirstChain
<1>8. Disjoint(list[lc], list[lm]) /\ Disjoint(list[lc], job.ccq) /\ Disjoint(list[lm], job.ccq)
  BY <1>6, ListsApart
<1>9. /\ p.next \in [Obj -> Obj \union {NULL}] /\ p.prev \in [Obj -> Obj \union {NULL}]
      /\ IsChain(p.next, p.prev, cc2, ccq2) /\ ccq2 \in Seq(Obj) /\ Members(ccq2) = W
      /\ \A x \in Obj \ W : p.next[x] = next[x] /\ p.prev[x] = prev[x]
  <2>1. SplicedTwo(p, next, prev, Joined(first[lc], Joined(first[lm], job.cclist)),
                   list[lc], list[lm], job.ccq)
    BY <1>3, <1>4, <1>6, <1>61, <1>7, <1>8, SpliceTwo
  <2> QED BY <2>1 DEF SplicedTwo, cc2, ccq2
<1>10. /\ Members(job.cq) \intersect W = {} /\ Members(job.fq) \intersect W = {}
       /\ Members(job.tops) \intersect W = {} /\ Members(free) \intersect W = {}
       /\ \A m \in Lists \ {lm, lc} : Members(list[m]) \intersect W = {}
  <2>1. /\ Members(job.cq) \intersect Members(job.ccq) = {} /\ Members(job.fq) \intersect Members(job.ccq) = {}
        /\ Members(job.tops) \intersect Members(job.ccq) = {} /\ Members(free) \intersect Members(job.ccq) = {}
    BY JobApart DEF Disjoint
  <2>2. ASSUME NEW l \in {lm, lc}
        PROVE  /\ Members(job.cq) \intersect Members(list[l]) = {} /\ Members(job.fq) \intersect Members(list[l]) = {}
               /\ Members(job.tops) \intersect Members(list[l]) = {} /\ Members(free) \intersect Members(list[l]) = {}
               /\ \A m \in Lists \ {l} : Members(list[m]) \intersect Members(list[l]) = {}
    BY <1>6, ListsApart DEF Disjoint
  <2>3. \A m \in Lists : Members(list[m]) \intersect Members(job.ccq) = {}
    BY ListsApart DEF Disjoint
  <2> QED BY <1>6, <2>1, <2>2, <2>3
<1> HIDE DEF W
<1>11. \A y \in Obj \ W : next'[y] = next[y] /\ prev'[y] = prev[y]
  BY <1>1, <1>9
<1>12. p.next[c] = next[c] /\ next[c] \in Obj \union {NULL} /\ cc2 \in Obj \union {NULL}
  BY <1>4, <1>5, <1>9, <1>10, ChainEnds
<1>13. /\ job' \in Jobs /\ job'.op = job.op /\ job'.o = job.o /\ job'.top = job.top /\ job'.stage = job.stage
       /\ job'.clist = job.clist /\ job'.c = next[c] /\ job'.cclist = cc2 /\ job'.fclist = job.fclist
       /\ job'.tops = job.tops /\ job'.cq = job.cq /\ job'.ccq = ccq2 /\ job'.fq = job.fq
  BY <1>1, <1>9, <1>12, Facts DEF Jobs, Ptr
<1>14. /\ list' \in [Lists -> Seq(Obj)] /\ list'[lm] = <<>> /\ list'[lc] = <<>>
       /\ \A m \in Lists \ {lm, lc} : list'[m] = list[m]
  BY <1>1, <1>4, <1>6, EmptySeq
<1>15. /\ first' \in [Lists -> Ptr] /\ first'[lm] = NULL /\ first'[lc] = NULL
       /\ \A m \in Lists \ {lm, lc} : first'[m] = first[m]
  <2>1. ASSUME NEW m \in Lists \ {lm, lc} PROVE m[1] # c
    BY DEF Lists, Kinds, lm, lc
  <2>2. lm[1] = c /\ lc[1] = c
    BY DEF lm, lc
  <2>3. first \in [Lists -> Ptr]
    BY TypesBefore
  <2> QED BY <1>1, <1>6, <2>1, <2>2, <2>3 DEF InitChildList, Ptr
<1>16. \A y \in Obj : \A k \in Kinds : list[<<y, k>>] = <<>> => list'[<<y, k>>] = <<>>
  BY <1>14 DEF Lists
<1>17. TypeOK'
  BY <1>1, <1>2, <1>9, <1>13, <1>14, <1>15, TypesBefore, ReleaseTypes DEF Ptr
<1>18. FreeListIntact'
  <2>1. Members(free) \union unmade \subseteq Obj
    BY TypesBefore, MembersIn
  <2>2. \A y \in Members(free) \union unmade, k \in Kinds : list'[<<y, k>>] = <<>>
    BY <1>16, <2>1, TypesBefore
  <2> QED BY <1>1, <1>10, <1>11, <2>2, FreeKept
<1>19. Here' = Here /\ (Working' <=> Working)
  BY <1>13 DEF Here, Working
<1>20. ListsIntact'
  <2> SUFFICES ASSUME NEW m \in Lists, m # Here PROVE ListOK(LinksOf(m), list[m])'
    BY <1>5, <1>13, <1>19 DEF ListsIntact
  <2>1. CASE m \in {lm, lc}
    BY <1>14, <1>15, <2>1, EmptySeq DEF ListOK, Linked, LinksOf
  <2>2. CASE m \notin {lm, lc}
    BY <1>3, <1>4, <1>10, <1>11, <1>14, <1>15, <2>2, ListKept
  <2> QED BY <2>1, <2>2
<1>21. ReleaseIntact'
  <2>1. /\ IsChain(next', prev', job.clist, job.cq) /\ IsChain(next', prev', job.fclist, job.fq)
        /\ job.op = "all" => IsChain(next', prev', job.top, job.tops)
    BY <1>3, <1>4, <1>10, <1>11, ChainKept
  <2>2. IsChain(next', prev', cc2, ccq2)
    BY <1>1, <1>9
  <2> QED BY <1>13, <2>1, <2>2 DEF ReleaseIntact, Chain
<1>22. Progress'
  <2>1. \A y \in Obj : Barren(list, y) => Barren(list', y)
    BY <1>16 DEF Barren
  <2>2. WalkedTo(list', job.tops, job.o)
    BY <1>3, <1>4, <2>1, WalkedStays
  <2>3. WalkedTo(list', job.cq, next[c])
    <3>1. WalkedTo(list', job.cq, c)
      BY <1>3, <1>4, <2>1, WalkedStays
    <3>2. Barren(list', c)
      BY <1>14 DEF Barren, Kinds, lm, lc
    <3>3. Distinct(job.cq) /\ Linked(job.clist, next, job.cq, NULL)
      BY <1>3 DEF IsChain
    <3> QED BY <1>4, <1>5, <3>1, <3>2, <3>3, WalkedOn
  <2>4. \A y \in Members(job.fq) : Barren(list', y)
    BY <1>3, <1>4, <2>1, MembersIn
  <2>5. /\ job.stage # "meta" => list'[<<job.o, "meta">>] = <<>>
        /\ job.stage = "node" => list'[<<job.o, "child">>] = <<>> /\ ~Working
    BY <1>2, <1>3, <1>16, TypesBefore DEF Progress, Kinds
  <2>6. Working => list'[Here] = <<>>
    BY <1>3, <1>6, <1>14
  <2> QED BY <1>2, <1>5, <1>13, <1>19, <2>2, <2>3, <2>4, <2>5, <2>6, TypesBefore DEF Progress
<1>23. OnePlace'
  <2> DEFINE b == <<NULL, "below">>
  <2>1. lm \in Places /\ lc \in Places /\ b \in Places /\ b # lm /\ b # lc
    BY <1>6, PlaceNames
  <2>2. At'[lc] = {} /\ At'[lm] = {}
    <3>1. lm' = lm /\ lc' = lc => At'[lc] = Members(list'[lc]) /\ At'[lm] = Members(list'[lm])
      BY <1>6, PlacesAre
    <3>2. \A l \in Lists : list'[l] = <<>> => At'[l] = {}
      BY PlacesAre, EmptySeq
    <3> QED BY <1>6, <1>14, <3>2
  <2>3. At'[b] = (At[b] \union At[lm]) \union At[lc]
    BY <1>6, <1>9, <1>13, PlacesAre DEF W
  <2>4. \A x \in Places \ {lc, lm, b} : At'[x] = At[x]
    BY <1>1, <1>13, <1>14, PlaceKept
  <2> HIDE DEF b
  <2>5. IsPartition(At')
    BY <1>6, <2>1, <2>2, <2>3, <2>4, MoveTwo, Facts DEF OnePlace
  <2> QED BY <2>5 DEF OnePlace, IsPartition
<1> QED BY <1>13, <1>17, <1>18, <1>20, <1>21, <1>22, <1>23 DEF IInv, LinksIntact

\* A level that has been walked goes before the levels that are done.
LEMMA ReleaseLevelIInv == ASSUME IInv, ReleaseLevel PROVE IInv'
<1> DEFINE p == Splice([next |-> next, prev |-> prev], job.clist, job.fclist)
           W == Members(job.cq) \union Members(job.fq)
<1>1. /\ job.clist # NULL /\ job.c = NULL /\ next' = p.next /\ prev' = p.prev
      /\ job' = [job EXCEPT !.fclist = job.clist, !.fq = job.cq \o job.fq,
                            !.clist = job.cclist, !.c = job.cclist, !.cq = job.ccq,
                            !.cclist = NULL, !.ccq = <<>>]
      /\ obj_freelist' = obj_freelist /\ first' = first /\ unmade' = unmade /\ free' = free
      /\ list' = list /\ loose' = loose
  BY DEF ReleaseLevel
<1>2. job.op # "idle" /\ Working
  BY <1>1, TypesBefore DEF Progress, Idle, Working
<1>3. /\ job.o \in Obj /\ WalkedTo(list, job.tops, job.o)
      /\ IsChain(next, prev, job.clist, job.cq) /\ IsChain(next, prev, job.cclist, job.ccq)
      /\ IsChain(next, prev, job.fclist, job.fq)
      /\ job.op = "all" => IsChain(next, prev, job.top, job.tops)
      /\ WalkedTo(list, job.cq, job.c) /\ \A y \in Members(job.fq) : Barren(list, y)
      /\ \A l \in Lists : l # Here => ListOK(LinksOf(l), list[l])
      /\ list[Here] = <<>> /\ job.stage # "node"
  BY <1>2, ReleaseFacts
<1>4. /\ job.tops \in Seq(Obj) /\ job.cq \in Seq(Obj) /\ job.ccq \in Seq(Obj) /\ job.fq \in Seq(Obj)
      /\ list \in [Lists -> Seq(Obj)] /\ free \in Seq(Obj)
      /\ next \in [Obj -> Obj \union {NULL}] /\ prev \in [Obj -> Obj \union {NULL}]
  BY Facts
<1>5. Disjoint(job.cq, job.fq) /\ IsSplice(p, next, prev, job.clist, job.fclist)
  BY JobApart DEF IsSplice
<1> HIDE DEF p
<1>6. Joined(job.clist, job.fclist) = job.clist
  BY <1>1 DEF Joined
<1>7. Spliced(p, next, prev, Joined(job.clist, job.fclist), job.cq, job.fq)
  BY <1>3, <1>4, <1>5, SpliceOK
<1>8. /\ p.next \in [Obj -> Obj \union {NULL}] /\ p.prev \in [Obj -> Obj \union {NULL}]
      /\ IsChain(p.next, p.prev, job.clist, job.cq \o job.fq)
      /\ job.cq \o job.fq \in Seq(Obj) /\ Members(job.cq \o job.fq) = W
      /\ \A x \in Obj \ W : p.next[x] = next[x] /\ p.prev[x] = prev[x]
  BY <1>6, <1>7 DEF Spliced
<1>9. /\ Members(job.ccq) \intersect W = {} /\ Members(job.tops) \intersect W = {}
      /\ Members(free) \intersect W = {} /\ \A m \in Lists : Members(list[m]) \intersect W = {}
  <2>1. /\ Members(job.ccq) \intersect Members(job.cq) = {} /\ Members(job.ccq) \intersect Members(job.fq) = {}
        /\ Members(job.tops) \intersect Members(job.cq) = {} /\ Members(job.tops) \intersect Members(job.fq) = {}
        /\ Members(free) \intersect Members(job.cq) = {} /\ Members(free) \intersect Members(job.fq) = {}
    BY JobApart DEF Disjoint
  <2>2. \A m \in Lists : /\ Members(list[m]) \intersect Members(job.cq) = {}
                         /\ Members(list[m]) \intersect Members(job.fq) = {}
    BY ListsApart DEF Disjoint
  <2> QED BY <2>1, <2>2
<1> HIDE DEF W
<1>10. \A y \in Obj \ W : next'[y] = next[y] /\ prev'[y] = prev[y]
  BY <1>1, <1>8
<1>11. /\ job' \in Jobs /\ job'.op = job.op /\ job'.o = job.o /\ job'.top = job.top /\ job'.stage = job.stage
       /\ job'.clist = job.cclist /\ job'.c = job.cclist /\ job'.cclist = NULL /\ job'.fclist = job.clist
       /\ job'.tops = job.tops /\ job'.cq = job.ccq /\ job'.ccq = <<>> /\ job'.fq = job.cq \o job.fq
  BY <1>1, <1>8, Facts, EmptySeq DEF Jobs, Ptr
<1>12. TypeOK'
  BY <1>1, <1>2, <1>8, <1>11, TypesBefore, ReleaseTypes DEF Ptr
<1>13. FreeListIntact'
  <2>1. \A y \in Members(free) \union unmade, k \in Kinds : list'[<<y, k>>] = <<>>
    BY <1>1, TypesBefore
  <2> QED BY <1>1, <1>9, <1>10, <2>1, FreeKept
<1>14. Here' = Here /\ Working'
  BY <1>1, <1>11 DEF Here, Working
<1>15. ListsIntact'
  <2> SUFFICES ASSUME NEW m \in Lists, m # Here PROVE ListOK(LinksOf(m), list[m])'
    BY <1>1, <1>11, <1>14 DEF ListsIntact
  <2> QED BY <1>1, <1>3, <1>4, <1>9, <1>10, ListKept
<1>16. ReleaseIntact'
  <2>1. /\ IsChain(next', prev', job.cclist, job.ccq)
        /\ job.op = "all" => IsChain(next', prev', job.top, job.tops)
    BY <1>3, <1>4, <1>9, <1>10, ChainKept
  <2>2. IsChain(next', prev', job.clist, job.cq \o job.fq)
    BY <1>1, <1>8
  <2>3. IsChain(next', prev', NULL, <<>>)
    BY EmptySeq DEF IsChain, Linked
  <2> QED BY <1>11, <2>1, <2>2, <2>3 DEF ReleaseIntact, Chain
<1>17. Progress'
  <2>1. WalkedTo(list, job.ccq, job.cclist)
    <3>1. job.cclist = IF job.ccq = <<>> THEN NULL ELSE job.ccq[1]
      BY <1>3 DEF IsChain, Linked
    <3> QED BY <1>4, <3>1, WalkStarts
  <2>2. \A y \in Members(job.cq) : Barren(list, y)
    BY <1>1, <1>3, <1>4, Walked
  <2>3. \A y \in Members(job.cq \o job.fq) : Barren(list, y)
    BY <1>3, <1>8, <2>2 DEF W
  <2> QED BY <1>1, <1>2, <1>3, <1>11, <1>14, <2>1, <2>3, TypesBefore DEF Progress
<1>18. OnePlace'
  <2> DEFINE a == <<NULL, "below">>
             b == <<NULL, "level">>
             c == <<NULL, "done">>
  <2>1. a \in Places /\ b \in Places /\ c \in Places /\ a # b /\ a # c /\ b # c
    BY PlaceNames
  <2>2. At'[a] = {} /\ At'[b] = At[a] /\ At'[c] = At[c] \union At[b]
    BY <1>8, <1>11, PlacesAre, EmptySeq DEF W
  <2>3. \A x \in Places \ {a, b, c} : At'[x] = At[x]
    BY <1>1, <1>11, PlaceKept
  <2> HIDE DEF a, b, c
  <2>4. IsPartition(At')
    BY <2>1, <2>2, <2>3, MoveUp, Facts DEF OnePlace
  <2> QED BY <2>4 DEF OnePlace, IsPartition
<1> QED BY <1>11, <1>12, <1>13, <1>15, <1>16, <1>17, <1>18 DEF IInv, LinksIntact

\* The list q that starts at h joins the free list: nobody else notices.
LEMMA JoinFree ==
  ASSUME IInv, NEW q \in Seq(Obj), q # <<>>, Distinct(q), NEW h \in Obj, NEW d, Linked(h, next, q, d),
         Disjoint(q, free), \A y \in Members(q) : Barren(list, y),
         obj_freelist' = h, free' = q \o free, next' = [next EXCEPT ![q[Len(q)]] = obj_freelist],
         prev' = prev, list' = list, unmade' = unmade
  PROVE  /\ FreeListIntact' /\ next' \in [Obj -> Ptr] /\ free' \in Seq(Obj)
         /\ Members(free') = Members(free) \union Members(q)
         /\ \A y \in Obj \ Members(q) : next'[y] = next[y] /\ prev'[y] = prev[y]
<1>1. /\ free \in Seq(Obj) /\ Distinct(free) /\ Linked(obj_freelist, next, free, NULL)
      /\ next \in [Obj -> Ptr] /\ obj_freelist \in Ptr
  BY TypesBefore DEF FreeListIntact
<1>2. q[Len(q)] \in Obj /\ q[Len(q)] \in Members(q)
  BY DEF Members
<1>3. /\ Redirected(next, next', q[Len(q)], obj_freelist) /\ next' \in [Obj -> Ptr]
      /\ \A y \in Obj \ Members(q) : next'[y] = next[y]
  BY <1>1, <1>2 DEF Redirected
<1>4. /\ Linked(h, next', q \o free, NULL) /\ Distinct(q \o free) /\ q \o free \in Seq(Obj)
  BY <1>1, <1>3, Relink
<1>5. Members(q \o free) = Members(q) \union Members(free)
  BY <1>1, MembersConcat
<1>6. \A y \in Members(free') \union unmade', k \in Kinds : list'[<<y, k>>] = <<>>
  BY <1>5, TypesBefore DEF Barren
<1> QED BY <1>3, <1>4, <1>5, <1>6 DEF FreeListIntact

\* The levels that were walked join the free list.
LEMMA ReleaseListEndIInv == ASSUME IInv, ReleaseListEnd PROVE IInv'
<1>1. /\ job.clist = NULL /\ job.fclist # NULL
      /\ next' = [next EXCEPT ![prev[job.fclist]] = obj_freelist]
      /\ obj_freelist' = job.fclist /\ free' = job.fq \o free
      /\ first' = [first EXCEPT ![Here] = NULL]
      /\ job' = [job EXCEPT !.fclist = NULL, !.fq = <<>>, !.stage = After(job.stage)]
      /\ prev' = prev /\ unmade' = unmade /\ list' = list /\ loose' = loose
  BY DEF ReleaseListEnd, AddToFreeList
<1>2. job.op # "idle" /\ Working
  BY <1>1, TypesBefore DEF Progress, Idle, Working
<1>3. /\ job.o \in Obj /\ WalkedTo(list, job.tops, job.o)
      /\ IsChain(next, prev, job.fclist, job.fq)
      /\ job.op = "all" => IsChain(next, prev, job.top, job.tops)
      /\ job.cq = <<>> /\ job.cclist = NULL /\ job.ccq = <<>>
      /\ WalkedTo(list, job.cq, job.c) /\ \A y \in Members(job.fq) : Barren(list, y)
      /\ \A l \in Lists : l # Here => ListOK(LinksOf(l), list[l])
      /\ list[Here] = <<>> /\ job.stage # "node" /\ Here \in Lists
  BY <1>1, <1>2, ReleaseFacts
<1>4. /\ job.tops \in Seq(Obj) /\ job.fq \in Seq(Obj) /\ list \in [Lists -> Seq(Obj)] /\ free \in Seq(Obj)
      /\ next \in [Obj -> Obj \union {NULL}] /\ prev \in [Obj -> Obj \union {NULL}]
      /\ first \in [Lists -> Obj \union {NULL}]
  BY Facts
<1>5. /\ job.fq # <<>> /\ prev[job.fclist] = job.fq[Len(job.fq)] /\ job.fclist \in Obj
  BY <1>1, <1>3, <1>4, ChainEnds
<1>6. Distinct(job.fq) /\ Linked(job.fclist, next, job.fq, NULL) /\ Disjoint(job.fq, free)
  BY <1>3, JobApart DEF IsChain
<1>7. /\ FreeListIntact' /\ next' \in [Obj -> Ptr] /\ free' \in Seq(Obj)
      /\ Members(free') = Members(free) \union Members(job.fq)
      /\ \A y \in Obj \ Members(job.fq) : next'[y] = next[y] /\ prev'[y] = prev[y]
  BY <1>1, <1>3, <1>4, <1>5, <1>6, JoinFree
<1>8. job.stage \in Kinds
  BY <1>3, Facts DEF Jobs
<1>9. /\ job' \in Jobs /\ job'.op = job.op /\ job'.o = job.o /\ job'.top = job.top
      /\ job'.stage = After(job.stage)
      /\ job'.clist = job.clist /\ job'.c = job.c /\ job'.cclist = job.cclist /\ job'.fclist = NULL
      /\ job'.tops = job.tops /\ job'.cq = job.cq /\ job'.ccq = job.ccq /\ job'.fq = <<>>
  <2>1. After(job.stage) \in Kinds \union {"node"}
    BY DEF After, Kinds
  <2>2. job \in Jobs
    BY Facts
  <2> QED BY <1>1, <2>1, <2>2, EmptySeq DEF Jobs, Ptr
<1>10. /\ first' \in [Lists -> Ptr] /\ first'[Here] = NULL /\ \A m \in Lists \ {Here} : first'[m] = first[m]
  BY <1>1, <1>3, <1>4 DEF Ptr
<1>11. TypeOK'
  BY <1>1, <1>2, <1>5, <1>7, <1>9, <1>10, TypesBefore, ReleaseTypes DEF Ptr
<1>12. ListsIntact'
  <2> SUFFICES ASSUME NEW m \in Lists PROVE ListOK(LinksOf(m), list[m])'
    BY DEF ListsIntact
  <2>1. CASE m = Here
    <3>1. first'[m] = NULL /\ list'[m] = <<>>
      BY <1>1, <1>3, <1>10, <2>1
    <3> QED BY <3>1, EmptySeq DEF ListOK, Linked, LinksOf
  <2>2. CASE m # Here
    <3>1. Members(list[m]) \intersect Members(job.fq) = {}
      BY ListsApart DEF Disjoint
    <3> QED BY <1>1, <1>3, <1>4, <1>7, <1>10, <2>2, <3>1, ListKept
  <2> QED BY <2>1, <2>2
<1>13. ReleaseIntact'
  <2>1. Members(job.tops) \intersect Members(job.fq) = {}
    BY JobApart DEF Disjoint
  <2>2. job.op = "all" => IsChain(next', prev', job.top, job.tops)
    BY <1>3, <1>4, <1>7, <2>1, ChainKept
  <2>3. IsChain(next', prev', NULL, <<>>)
    BY EmptySeq DEF IsChain, Linked
  <2> QED BY <1>1, <1>3, <1>9, <2>2, <2>3 DEF ReleaseIntact, Chain
<1>14. Progress'
  <2>1. job.stage = "meta" => list[<<job.o, "meta">>] = <<>> /\ job'.stage = "child"
    BY <1>3, <1>9 DEF Here, After
  <2>2. job.stage = "child" => list[<<job.o, "child">>] = <<>> /\ list[<<job.o, "meta">>] = <<>>
    BY <1>2, <1>3, TypesBefore DEF Here, Progress
  <2>3. job.stage = "meta" \/ job.stage = "child"
    BY <1>8 DEF Kinds
  <2>4. ~Working'
    BY <1>1, <1>9 DEF Working
  <2>5. \A y \in Members(<<>>) : Barren(list, y)
    BY EmptySeq
  <2> QED BY <1>1, <1>2, <1>3, <1>9, <2>1, <2>2, <2>3, <2>4, <2>5, TypesBefore DEF Progress
<1>15. OnePlace'
  <2> DEFINE a == <<NULL, "done">>
             b == <<NULL, "free">>
             S == Members(job.fq)
  <2>1. a \in Places /\ b \in Places /\ a # b
    BY PlaceNames
  <2>2. At'[a] = At[a] \ S /\ S \subseteq At[a] /\ At'[b] = At[b] \union S
    BY <1>7, <1>9, PlacesAre, EmptySeq
  <2>3. \A x \in Places \ {a, b} : At'[x] = At[x]
    BY <1>1, <1>9, PlaceKept
  <2> HIDE DEF a, b, S
  <2>4. IsPartition(At')
    BY <2>1, <2>2, <2>3, MovePart, Facts DEF OnePlace
  <2> QED BY <2>4 DEF OnePlace, IsPartition
<1> QED BY <1>7, <1>9, <1>11, <1>12, <1>13, <1>14, <1>15 DEF IInv, LinksIntact

\* On to the next node of the list, or all of them join the free list.
LEMMA ReleaseNodeIInv == ASSUME IInv, ReleaseNode PROVE IInv'
<1>1. /\ job.op # "idle" /\ job.stage = "node"
      /\ prev' = prev /\ first' = first /\ unmade' = unmade /\ list' = list /\ loose' = loose
  BY DEF ReleaseNode
<1>2. /\ job.o \in Obj /\ WalkedTo(list, job.tops, job.o)
      /\ job.op = "all" => IsChain(next, prev, job.top, job.tops)
      /\ ~Working /\ job.clist = NULL /\ job.fclist = NULL
      /\ job.cq = <<>> /\ job.cclist = NULL /\ job.ccq = <<>> /\ job.fq = <<>>
      /\ \A l \in Lists : ListOK(LinksOf(l), list[l])
  BY <1>1, ReleaseFacts DEF Working
<1>3. /\ job.tops \in Seq(Obj) /\ list \in [Lists -> Seq(Obj)] /\ free \in Seq(Obj)
      /\ next \in [Obj -> Obj \union {NULL}]
  BY Facts
<1>4. Barren(list, job.o)
  BY <1>1, TypesBefore DEF Progress, Barren, Kinds
<1>5. job.op = "all" => /\ WalkedTo(list, job.tops, next[job.o])
                        /\ next[job.o] = NULL => \A y \in Members(job.tops) : Barren(list, y)
  <2>1. job.op = "all" => Distinct(job.tops) /\ Linked(job.top, next, job.tops, NULL)
    BY <1>2 DEF IsChain
  <2> QED BY <1>2, <1>3, <1>4, <2>1, WalkedOn
<1>6. CASE job.op = "all" /\ next[job.o] # NULL
  <2>1. /\ job' = [job EXCEPT !.o = next[job.o], !.stage = "meta"]
        /\ obj_freelist' = obj_freelist /\ next' = next /\ free' = free
    BY <1>6 DEF ReleaseNode
  <2>2. next[job.o] \in Obj
    BY <1>2, <1>3, <1>6
  <2>3. /\ job' \in Jobs /\ job'.op = job.op /\ job'.o = next[job.o] /\ job'.top = job.top /\ job'.stage = "meta"
        /\ job'.clist = job.clist /\ job'.c = job.c /\ job'.cclist = job.cclist /\ job'.fclist = job.fclist
        /\ job'.tops = job.tops /\ job'.cq = job.cq /\ job'.ccq = job.ccq /\ job'.fq = job.fq
    BY <2>1, <2>2, Facts DEF Jobs, Ptr, Kinds
  <2>4. TypeOK'
    BY <1>1, <2>1, <2>2, <2>3, TypesBefore, ReleaseTypes
  <2>5. FreeListIntact'
    BY <1>1, <2>1, TypesBefore DEF FreeListIntact
  <2>6. ListsIntact'
    BY <1>1, <1>2, <2>1 DEF ListsIntact, LinksOf
  <2>7. ReleaseIntact'
    BY <1>1, <2>1, <2>3 DEF IInv, LinksIntact, ReleaseIntact, Chain
  <2>8. Progress'
    <3>1. ~Working'
      BY <1>2, <2>3 DEF Working
    <3>2. next[job.o] # NULL /\ WalkedTo(list', job'.tops, job'.o)
      BY <1>1, <1>5, <1>6, <2>3
    <3> QED BY <1>1, <1>6, <2>3, <3>1, <3>2, TypesBefore DEF Progress
  <2>9. OnePlace'
    <3>1. \A x \in Places : At'[x] = At[x]
      BY <1>1, <2>1, <2>3, PlaceKept
    <3> QED BY <3>1, Facts DEF OnePlace, IsPartition
  <2> QED BY <2>3, <2>4, <2>5, <2>6, <2>7, <2>8, <2>9 DEF IInv, LinksIntact
<1>7. CASE ~(job.op = "all" /\ next[job.o] # NULL)
  <2>1. job' = Idle
    BY <1>7 DEF ReleaseNode
  <2>2. PICK h, d :
          /\ h \in Obj /\ obj_freelist' = h /\ free' = job.tops \o free /\ job.tops # <<>> /\ Distinct(job.tops)
          /\ next' = [next EXCEPT ![job.tops[Len(job.tops)]] = obj_freelist]
          /\ Linked(h, next, job.tops, d) /\ \A y \in Members(job.tops) : Barren(list, y)
    <3>1. CASE job.op = "all"
      <4>1. /\ next' = [next EXCEPT ![prev[job.top]] = obj_freelist] /\ obj_freelist' = job.top
            /\ free' = job.tops \o free
        BY <1>7, <3>1 DEF ReleaseNode, AddToFreeList
      <4>2. /\ job.tops # <<>> /\ prev[job.top] = job.tops[Len(job.tops)] /\ job.top \in Obj
        BY <1>1, <1>2, <1>3, <3>1, ChainEnds, TypesBefore, NullAssumption
      <4>3. Distinct(job.tops) /\ Linked(job.top, next, job.tops, NULL)
        BY <1>2, <3>1 DEF IsChain
      <4> QED BY <1>5, <1>7, <3>1, <4>1, <4>2, <4>3
    <3>2. CASE job.op = "one"
      <4>1. /\ next' = [next EXCEPT ![job.o] = obj_freelist] /\ obj_freelist' = job.o
            /\ free' = <<job.o>> \o free
        BY <3>2 DEF ReleaseNode
      <4>2. job.tops = <<job.o>>
        BY <3>2, TypesBefore DEF Progress
      <4>3. /\ <<job.o>> # <<>> /\ Len(<<job.o>>) = 1 /\ <<job.o>>[1] = job.o
            /\ Members(<<job.o>>) = {job.o} /\ Distinct(<<job.o>>)
        BY <1>2, SingletonSeq
      <4>4. Linked(job.o, next, <<job.o>>, next[job.o])
        BY <4>3 DEF Linked
      <4> QED BY <1>2, <1>4, <4>1, <4>2, <4>3, <4>4
    <3>3. job.op = "all" \/ job.op = "one"
      BY <1>1, Facts DEF Jobs
    <3> QED BY <3>1, <3>2, <3>3
  <2>3. Disjoint(job.tops, free)
    BY JobApart
  <2>4. /\ FreeListIntact' /\ next' \in [Obj -> Ptr] /\ free' \in Seq(Obj)
        /\ Members(free') = Members(free) \union Members(job.tops)
        /\ \A y \in Obj \ Members(job.tops) : next'[y] = next[y] /\ prev'[y] = prev[y]
    BY <1>1, <1>3, <2>2, <2>3, JoinFree
  <2>5. TypeOK'
    <3>1. /\ obj_freelist' \in Ptr /\ prev' \in [Obj -> Ptr] /\ first' \in [Lists -> Ptr]
          /\ unmade' \subseteq Obj /\ loose' \subseteq Obj /\ list' \in [Lists -> Seq(Obj)]
      BY <1>1, <2>2, TypesBefore DEF Ptr
    <3> QED BY <2>1, <2>4, <3>1, EmptySeq DEF TypeOK, Idle, Kinds, Ptr
  <2>6. ASSUME NEW m \in Lists PROVE ListOK(LinksOf(m), list[m])'
    <3>1. Members(list[m]) \intersect Members(job.tops) = {}
      BY ListsApart DEF Disjoint
    <3> QED BY <1>1, <1>2, <1>3, <2>4, <3>1, ListKept
  <2>7. OnePlace'
    <3> DEFINE a == <<NULL, "top">>
               b == <<NULL, "free">>
               S == Members(job.tops)
    <3>0. job'.tops = <<>> /\ job'.cq = job.cq /\ job'.ccq = job.ccq /\ job'.fq = job.fq
      BY <1>2, <2>1 DEF Idle
    <3>1. a \in Places /\ b \in Places /\ a # b
      BY PlaceNames
    <3>2. At'[a] = At[a] \ S /\ S \subseteq At[a] /\ At'[b] = At[b] \union S
      BY <2>4, <3>0, PlacesAre, EmptySeq
    <3>3. \A x \in Places \ {a, b} : At'[x] = At[x]
      BY <1>1, <3>0, PlaceKept
    <3> HIDE DEF a, b, S
    <3>4. IsPartition(At')
      BY <3>1, <3>2, <3>3, MovePart, Facts DEF OnePlace
    <3> QED BY <3>4 DEF OnePlace, IsPartition
  <2> QED BY <2>1, <2>4, <2>5, <2>6, <2>7, IdleStep
<1> QED BY <1>6, <1>7

-----------------------------------------------------------------------------
(***************************************************************************)
(* The theorems.                                                           *)
(***************************************************************************)
\* Every step of the pool keeps the invariant.
LEMMA NextIInv == IInv /\ [Next]_vars => IInv'
<1> SUFFICES ASSUME IInv, [Next]_vars PROVE IInv'
  OBVIOUS
<1>1. CASE New
  BY <1>1, NewIInv
<1>2. CASE \E l \in Lists : NewTail(l) \/ NewFront(l) \/ DeleteAll(l)
  BY <1>2, NewTailIInv, NewFrontIInv, DeleteAllIInv
<1>3. CASE \E o \in Obj : Delete(o)
  BY <1>3, DeleteIInv
<1>4. CASE \E l \in Lists, o \in Obj : Detach(l, o) \/ DeleteFrom(l, o)
  BY <1>4, DetachIInv, DeleteFromIInv
<1>5. CASE \E l \in Lists, o \in Obj, b \in BOOLEAN : InsertChild(l, o, b)
  BY <1>5, InsertChildIInv
<1>6. CASE Release
  BY <1>6, ReleaseListIInv, ReleaseKnvNodeIInv, ReleaseLevelIInv, ReleaseListEndIInv, ReleaseNodeIInv
     DEF Release
<1>7. CASE UNCHANGED vars
  <2>1. /\ obj_freelist' = obj_freelist /\ next' = next /\ prev' = prev /\ first' = first
        /\ unmade' = unmade /\ job' = job /\ free' = free /\ list' = list /\ loose' = loose
    BY <1>7 DEF vars, mem, aux
  <2>2. \A x \in Places : At'[x] = At[x]
    BY <2>1, PlaceKept
  <2>3. OnePlace'
    BY <2>2, Facts DEF OnePlace, IsPartition
  <2>4. TypeOK' /\ job' \in Jobs
    BY <2>1, Facts DEF TypeOK
  <2>5. FreeListIntact'
    BY <2>1, TypesBefore DEF FreeListIntact
  <2>6. ListsIntact' /\ ReleaseIntact'
    BY <2>1 DEF IInv, LinksIntact, ListsIntact, ReleaseIntact, Chain, LinksOf, Here
  <2>7. Progress'
    BY <2>1, TypesBefore DEF Progress, Working, Here
  <2> QED BY <2>3, <2>4, <2>5, <2>6, <2>7 DEF IInv, LinksIntact
<1> QED BY <1>1, <1>2, <1>3, <1>4, <1>5, <1>6, <1>7 DEF Next

\* The inductive invariant: the pointers are intact, every object is at one place,
\* and a release has emptied the lists of what it has passed.
THEOREM Invariance == Spec => []IInv
<1>1. Init => IInv
  BY InitIInv
<1>2. IInv /\ [Next]_vars => IInv'
  BY NextIInv
<1> QED BY <1>1, <1>2, PTL DEF Spec

\* At every step of New, Delete, DeleteAll, Detach and ReleaseKnvNodeList every
\* object is at exactly one place: none is lost, none is handed out twice.
THEOREM NothingLost == Spec => []OnePlace
<1>1. IInv => OnePlace
  BY DEF IInv
<1> QED BY <1>1, Invariance, PTL

\* At every step of these calls the free list, the lists of the callers and the
\* three lists of the release can be walked and hold what they should.
THEOREM PointersIntact == Spec => []LinksIntact
<1>1. IInv => LinksIntact
  BY DEF IInv
<1> QED BY <1>1, Invariance, PTL

-----------------------------------------------------------------------------
(***************************************************************************)
(* The pool implements PoolSpec: the objects its callers hold or release   *)
(* are the ones that were made and are not in the free list.               *)
(***************************************************************************)
Held == Out \union Releasing

\* The objects made and not in the free list.
LEMMA HeldIs == IInv => Held = Obj \ (unmade \union Members(free))
<1> SUFFICES ASSUME IInv PROVE Held = Obj \ (unmade \union Members(free))
  OBVIOUS
<1> DEFINE U == <<NULL, "unmade">>
           F == <<NULL, "free">>
<1>0. U \in Places /\ F \in Places /\ At[U] = unmade /\ At[F] = Members(free)
  BY PlaceNames, PlacesAre
<1>1. ASSUME NEW y PROVE y \in Held <=> \E x \in Places \ {U, F} : y \in At[x]
  <2>1. ASSUME y \in Held PROVE \E x \in Places \ {U, F} : y \in At[x]
    <3>1. CASE \E l \in Lists : y \in Members(list[l])
      <4>1. PICK l \in Lists : y \in Members(list[l])
        BY <3>1
      <4>2. l \in Places \ {U, F} /\ y \in At[l]
        BY <4>1, PlaceNames, PlacesAre
      <4> QED BY <4>2
    <3>2. CASE y \in loose \union Releasing
      <4>1. ASSUME NEW s \in {"loose", "top", "level", "below", "done"} PROVE <<NULL, s>> \in Places \ {U, F}
        BY PlaceNames
      <4>2. \/ y \in At[<<NULL, "loose">>] \/ y \in At[<<NULL, "top">>] \/ y \in At[<<NULL, "level">>]
            \/ y \in At[<<NULL, "below">>] \/ y \in At[<<NULL, "done">>]
        BY <3>2, PlacesAre DEF Releasing
      <4> QED BY <4>1, <4>2
    <3> QED BY <2>1, <3>1, <3>2 DEF Held, Out
  <2>2. ASSUME NEW x \in Places \ {U, F}, y \in At[x] PROVE y \in Held
    <3>1. CASE x \in Lists
      BY <2>2, <3>1, PlacesAre DEF Held, Out
    <3>2. CASE x \notin Lists
      <4>1. \E s \in {"loose", "top", "level", "below", "done"} : x = <<NULL, s>>
        BY <3>2 DEF Places
      <4>2. y \in loose \/ y \in Members(job.tops) \/ y \in Members(job.cq)
            \/ y \in Members(job.ccq) \/ y \in Members(job.fq)
        BY <2>2, <4>1, PlacesAre
      <4> QED BY <4>2 DEF Held, Out, Releasing
    <3> QED BY <3>1, <3>2
  <2> QED BY <2>1, <2>2
<1> HIDE DEF U, F
<1>2. ASSUME NEW y \in Held PROVE y \in Obj \ (unmade \union Members(free))
  <2>1. PICK x \in Places \ {U, F} : y \in At[x]
    BY <1>1
  <2>2. y \in Obj
    BY <2>1, PlacesHold, Facts
  <2>3. y \notin At[U] /\ y \notin At[F]
    BY <1>0, <2>1, <2>2, Facts DEF OnePlace, IsPartition
  <2> QED BY <1>0, <2>2, <2>3
<1>3. ASSUME NEW y \in Obj \ (unmade \union Members(free)) PROVE y \in Held
  <2>1. PICK x \in Places : \A z \in Places : y \in At[z] <=> z = x
    BY Facts DEF OnePlace, IsPartition
  <2>2. x \in Places \ {U, F} /\ y \in At[x]
    BY <1>0, <2>1
  <2> QED BY <1>1, <2>2
<1> QED BY <1>2, <1>3

\* What a step does to the free list: nothing, one object off its head, or the
\* objects of a list put before it.
LEMMA FreeListSteps ==
  ASSUME IInv, [Next]_vars
  PROVE  \/ free' = free /\ unmade' = unmade
         \/ \E o \in Obj : Taken(o)
         \/ \E q \in {job.fq, job.tops} : q # <<>> /\ free' = q \o free /\ unmade' = unmade
<1>1. CASE New \/ \E l \in Lists : NewTail(l) \/ NewFront(l)
  BY <1>1 DEF New, NewTail, NewFront
<1>2. CASE \/ \E l \in Lists : DeleteAll(l)
           \/ \E o \in Obj : Delete(o)
           \/ \E l \in Lists, o \in Obj : Detach(l, o) \/ DeleteFrom(l, o)
           \/ \E l \in Lists, o \in Obj, b \in BOOLEAN : InsertChild(l, o, b)
  BY <1>2 DEF DeleteAll, Delete, Detach, DeleteFrom, InsertChild
<1>3. CASE ReleaseList \/ ReleaseKnvNode \/ ReleaseLevel
  BY <1>3 DEF ReleaseList, ReleaseKnvNode, ReleaseLevel
<1>4. CASE ReleaseListEnd
  <2>1. job.fclist # NULL /\ free' = job.fq \o free /\ unmade' = unmade
    BY <1>4 DEF ReleaseListEnd, AddToFreeList
  <2>2. job.op # "idle"
    BY <2>1, TypesBefore DEF Progress, Idle
  <2>3. job.fq # <<>>
    BY <2>1, <2>2, ReleaseFacts, ChainEnds, Facts
  <2> QED BY <2>1, <2>3
<1>5. CASE ReleaseNode
  <2>1. job.op # "idle" /\ unmade' = unmade
    BY <1>5 DEF ReleaseNode
  <2>2. job.tops # <<>>
    BY <2>1, ReleaseFacts, EmptySeq
  <2>3. job.op = "one" => job.tops = <<job.o>>
    BY TypesBefore DEF Progress
  <2>4. job.op = "one" \/ job.op = "all"
    BY <2>1, Facts DEF Jobs
  <2>5. free' = free \/ free' = job.tops \o free
    BY <1>5, <2>3, <2>4 DEF ReleaseNode, AddToFreeList
  <2> QED BY <2>1, <2>2, <2>5
<1>6. CASE UNCHANGED vars
  BY <1>6 DEF vars, aux
<1> QED BY <1>1, <1>2, <1>3, <1>4, <1>5, <1>6 DEF Next, Release

\* Every step of the pool is a step of PoolSpec or leaves its state alone.
LEMMA StepRefines == IInv /\ IInv' /\ [Next]_vars => [Pool!Next]_(Pool!vars)
<1> SUFFICES ASSUME IInv, IInv', [Next]_vars PROVE [Pool!Next]_(Pool!vars)
  OBVIOUS
<1>1. Held = Obj \ (unmade \union Members(free))
  BY HeldIs
<1>2. Held' = Obj \ (unmade' \union Members(free'))
  <2>1. (IInv => Held = Obj \ (unmade \union Members(free)))'
    BY HeldIs, PTL
  <2> QED BY <2>1
<1>3. CASE free' = free /\ unmade' = unmade
  <2>1. Held' = Held
    BY <1>1, <1>2, <1>3
  <2> QED BY <1>3, <2>1 DEF Pool!vars, Held
<1>4. CASE \E o \in Obj : Taken(o)
  <2>1. PICK o \in Obj : Taken(o)
    BY <1>4
  <2>2. CASE obj_freelist # NULL
    <3>1. /\ o = obj_freelist /\ free' = Tail(free) /\ unmade' = unmade
          /\ free \in Seq(Obj) /\ Distinct(free) /\ Linked(obj_freelist, next, free, NULL)
      BY <2>1, <2>2, TypesBefore DEF Taken, FreeListIntact
    <3>2. free # <<>> /\ o = Head(free)
      BY <2>2, <3>1 DEF Linked
    <3>3. o \in Members(free) /\ Members(free') = Members(free) \ {o} /\ o \notin unmade
      BY <2>1, <2>2, <3>1, <3>2, MembersTail, JobApart
    <3>4. o \notin Held /\ Held' = Held \union {o}
      BY <1>1, <1>2, <3>1, <3>3
    <3>5. Pool!Reuse
      BY <3>1, <3>2, <3>4 DEF Pool!Reuse, Held
    <3> QED BY <3>5 DEF Pool!Next
  <2>3. CASE obj_freelist = NULL
    <3>1. o \in unmade /\ unmade' = unmade \ {o} /\ free' = free
      BY <2>1, <2>3 DEF Taken
    <3>2. o \notin Members(free)
      BY <3>1, JobApart
    <3>3. Held' = Held \union {o}
      BY <1>1, <1>2, <3>1, <3>2
    <3>4. Pool!Make(o)
      BY <3>1, <3>3 DEF Pool!Make, Held
    <3> QED BY <3>4 DEF Pool!Next
  <2> QED BY <2>2, <2>3
<1>5. CASE \E q \in {job.fq, job.tops} : q # <<>> /\ free' = q \o free /\ unmade' = unmade
  <2>1. PICK q \in {job.fq, job.tops} : q # <<>> /\ free' = q \o free /\ unmade' = unmade
    BY <1>5
  <2>2. q \in Seq(Obj) /\ free \in Seq(Obj)
    BY Facts
  <2>3. Members(q) \subseteq Held
    BY DEF Held, Releasing
  <2>4. Members(free') = Members(q) \union Members(free)
    BY <2>1, <2>2, MembersConcat
  <2>5. Held' = Held \ Members(q)
    BY <1>1, <1>2, <2>1, <2>4
  <2>6. /\ Len(q) \in 1 .. Len(free') /\ {free'[i] : i \in 1 .. Len(q)} = Members(q)
        /\ SubSeq(free', Len(q) + 1, Len(free')) = free
    BY <2>1, <2>2, AfterPart
  <2>7. Pool!GiveBack
    BY <2>1, <2>3, <2>5, <2>6 DEF Pool!GiveBack, Held
  <2> QED BY <2>7 DEF Pool!Next
<1> QED BY <1>3, <1>4, <1>5, FreeListSteps

\* The pool of one thread does what PoolSpec promises its callers: it hands out
\* only objects nobody has, the one given back last first, although one Delete
\* gives back the nodes of a tree in several portions.
THEOREM Refinement == Spec => PoolRefinement
<1>1. Init => Pool!Init
  <2> SUFFICES ASSUME Init PROVE Pool!Init
    OBVIOUS
  <2>1. Held = Obj \ (unmade \union Members(free))
    BY InitIInv, HeldIs
  <2>2. Held = {}
    BY <2>1 DEF Init
  <2> QED BY <2>2 DEF Init, Pool!Init, Held
<1>2. IInv /\ IInv' /\ [Next]_vars => [Pool!Next]_(Pool!vars)
  BY StepRefines
<1> QED BY <1>1, <1>2, Invariance, PTL DEF Spec, PoolRefinement, Pool!Spec
=============================================================================
