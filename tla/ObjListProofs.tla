--------------------------- MODULE ObjListProofs ---------------------------
(***************************************************************************)
(* The pointer surgery of obj_pool.h and obj_pool_r.h keeps a list well    *)
(* linked, in the intended order, and touches no object outside it: for    *)
(* every heap and every list.                                              *)
(***************************************************************************)
EXTENDS ObjList, TLAPS

\* Two heaps agree on the links of the objects of S.
SameLinks(L, M, S) ==
  \A y \in S : M.next[y] = L.next[y] /\ M.prev[y] = L.prev[y]

\* Removing an object from a sequence of distinct objects.
LEMMA WithoutIsShift ==
  ASSUME NEW q \in Seq(Obj), Distinct(q), NEW j \in 1 .. Len(q)
  PROVE  /\ Without(q, q[j]) = [i \in 1 .. Len(q) - 1 |-> IF i < j THEN q[i] ELSE q[i+1]]
         /\ Without(q, q[j]) \in Seq(Obj)
         /\ Len(Without(q, q[j])) = Len(q) - 1
         /\ Distinct(Without(q, q[j]))
         /\ Members(Without(q, q[j])) = Members(q) \ {q[j]}
<1> DEFINE w == [i \in 1 .. Len(q) - 1 |-> IF i < j THEN q[i] ELSE q[i+1]]
<1>1. Without(q, q[j]) = w
  <2>1. (CHOOSE i \in DOMAIN q : q[i] = q[j]) = j
    BY DEF Distinct
  <2> QED BY <2>1 DEF Without
<1>2. w \in Seq(Obj) /\ Len(w) = Len(q) - 1 /\ DOMAIN w = 1 .. Len(q) - 1
  <2>1. Len(q) - 1 \in Nat
    OBVIOUS
  <2>2. \A i \in 1 .. Len(q) - 1 : w[i] \in Obj
    OBVIOUS
  <2> QED BY <2>1, <2>2
<1>3. \A i \in 1 .. Len(q) - 1 : w[i] = IF i < j THEN q[i] ELSE q[i+1]
  OBVIOUS
<1> HIDE DEF w
<1>4. Distinct(w)
  <2> SUFFICES ASSUME NEW a \in 1 .. Len(q) - 1, NEW b \in 1 .. Len(q) - 1, w[a] = w[b]
               PROVE  a = b
    BY <1>2 DEF Distinct
  <2>1. \A i, m \in 1 .. Len(q) : q[i] = q[m] => i = m
    BY DEF Distinct
  <2>2. a \in 1 .. Len(q) /\ a + 1 \in 1 .. Len(q) /\ b \in 1 .. Len(q) /\ b + 1 \in 1 .. Len(q)
    OBVIOUS
  <2>3. CASE a < j /\ b < j
    BY <2>1, <2>2, <2>3, <1>3
  <2>4. CASE a < j /\ ~(b < j)
    <3>1. q[a] = q[b+1] /\ a # b + 1
      BY <2>4, <1>3
    <3> QED BY <3>1, <2>1, <2>2
  <2>5. CASE ~(a < j) /\ b < j
    <3>1. q[a+1] = q[b] /\ a + 1 # b
      BY <2>5, <1>3
    <3> QED BY <3>1, <2>1, <2>2
  <2>6. CASE ~(a < j) /\ ~(b < j)
    <3>1. q[a+1] = q[b+1]
      BY <2>6, <1>3
    <3>2. a + 1 = b + 1
      BY <3>1, <2>1, <2>2
    <3> QED BY <3>2
  <2> QED BY <2>3, <2>4, <2>5, <2>6
<1>5. Members(w) = Members(q) \ {q[j]}
  <2>1. ASSUME NEW i \in 1 .. Len(q) - 1
        PROVE  w[i] \in Members(q) \ {q[j]}
    BY <1>3 DEF Distinct, Members
  <2>2. ASSUME NEW i \in 1 .. Len(q), q[i] # q[j]
        PROVE  q[i] \in Members(w)
    <3>1. CASE i < j
      <4>1. i \in 1 .. Len(q) - 1 /\ w[i] = q[i]
        BY <3>1, <1>3
      <4> QED BY <4>1, <1>2 DEF Members
    <3>2. CASE i > j
      <4>1. i - 1 \in 1 .. Len(q) - 1 /\ w[i-1] = q[i]
        BY <3>2, <1>3
      <4> QED BY <4>1, <1>2 DEF Members
    <3> QED BY <3>1, <3>2, <2>2
  <2>3. Members(w) \subseteq Members(q) \ {q[j]}
    BY <2>1, <1>2 DEF Members
  <2>4. Members(q) \ {q[j]} \subseteq Members(w)
    <3> SUFFICES ASSUME NEW y \in Members(q), y # q[j] PROVE y \in Members(w)
      OBVIOUS
    <3>1. PICK i \in 1 .. Len(q) : y = q[i]
      BY DEF Members
    <3> QED BY <3>1, <2>2
  <2> QED BY <2>3, <2>4
<1> QED BY <1>1, <1>2, <1>4, <1>5 DEF w

\* Tail insertion, New(first).
LEMMA InsertTailOK ==
  ASSUME NEW L \in Links, NEW q \in Seq(Obj), NEW x \in Obj \ Members(q), ListOK(L, q)
  PROVE  /\ InsertTail(L, x) \in Links
         /\ ListOK(InsertTail(L, x), Append(q, x))
         /\ SameLinks(L, InsertTail(L, x), Obj \ (Members(q) \union {x}))
<1>1. CASE q = <<>>
  <2>1. L.first = NULL
    BY <1>1 DEF ListOK, Linked
  <2>2. Append(q, x) = <<x>>
    BY <1>1
  <2> QED BY <2>1, <2>2 DEF InsertTail, Links, ListOK, Linked, Distinct, SameLinks
<1>2. CASE q # <<>>
  <2> DEFINE M == InsertTail(L, x)
             k == Len(q)
             r == Append(q, x)
  <2>1. /\ k \in Nat \ {0} /\ L.first = q[1] /\ q[1] \in Obj /\ q[k] \in Obj
        /\ L.prev[q[1]] = q[k] /\ L.first # NULL
    BY <1>2, NullAssumption DEF ListOK, Linked
  <2>2. \A i \in 1 .. k : q[i] \in Obj /\ q[i] # x
    BY DEF Members
  <2>3. /\ M.first = q[1]
        /\ M.next = [L.next EXCEPT ![x] = NULL, ![q[k]] = x]
        /\ M.prev = [L.prev EXCEPT ![x] = q[k], ![q[1]] = x]
    BY <2>1 DEF InsertTail
  <2>4. /\ M.next[x] = NULL /\ M.next[q[k]] = x
        /\ \A y \in Obj \ {x, q[k]} : M.next[y] = L.next[y]
    BY <2>1, <2>2, <2>3 DEF Links
  <2>5. /\ M.prev[q[1]] = x /\ (M.prev[x] = q[k] \/ q[1] = x)
        /\ \A y \in Obj \ {x, q[1]} : M.prev[y] = L.prev[y]
    BY <2>1, <2>2, <2>3 DEF Links
  <2>6. M \in Links
    BY <2>1 DEF Links, InsertTail
  <2>7. /\ r \in Seq(Obj) /\ Len(r) = k + 1 /\ r[k+1] = x
        /\ \A i \in 1 .. k : r[i] = q[i]
    OBVIOUS
  <2> HIDE DEF M, r
  <2>8. Distinct(r)
    BY <2>1, <2>2, <2>7 DEF ListOK, Distinct
  <2>9. Linked(M.first, M.next, r, NULL)
    <3>1. ASSUME NEW i \in 1 .. k PROVE M.next[r[i]] = r[i+1]
      <4>1. CASE i = k
        BY <4>1, <2>4, <2>7
      <4>2. CASE i < k
        <5>1. q[i] # q[k] /\ q[i] # x /\ q[i] \in Obj
          BY <4>2, <2>2 DEF ListOK, Distinct
        <5>2. L.next[q[i]] = q[i+1]
          BY <4>2, <2>1 DEF ListOK, Linked
        <5> QED BY <5>1, <5>2, <4>2, <2>4, <2>7
      <4> QED BY <4>1, <4>2, <2>1
    <3>2. r # <<>> /\ M.first = r[1] /\ M.next[r[Len(r)]] = NULL /\ Len(r) - 1 = k
      BY <2>1, <2>3, <2>4, <2>7
    <3> QED BY <3>1, <3>2 DEF Linked
  <2>10. \A i \in 2 .. k + 1 : M.prev[r[i]] = r[i-1]
    <3> SUFFICES ASSUME NEW i \in 2 .. k + 1 PROVE M.prev[r[i]] = r[i-1]
      OBVIOUS
    <3>1. CASE i = k + 1
      BY <3>1, <2>1, <2>2, <2>5, <2>7
    <3>2. CASE i <= k
      <4>1. q[i] # q[1] /\ q[i] # x /\ q[i] \in Obj
        BY <3>2, <2>1, <2>2 DEF ListOK, Distinct
      <4>2. L.prev[q[i]] = q[i-1]
        BY <3>2 DEF ListOK
      <4> QED BY <4>1, <4>2, <3>2, <2>1, <2>5, <2>7
    <3> QED BY <3>1, <3>2, <2>1
  <2>11. M.prev[r[1]] = r[k+1]
    BY <2>1, <2>2, <2>5, <2>7
  <2>12. ListOK(M, r)
    BY <2>8, <2>9, <2>10, <2>11, <2>7 DEF ListOK
  <2>13. SameLinks(L, M, Obj \ (Members(q) \union {x}))
    <3>1. q[1] \in Members(q) /\ q[k] \in Members(q)
      BY <2>1 DEF Members
    <3> QED BY <3>1, <2>4, <2>5 DEF SameLinks
  <2> QED BY <2>6, <2>12, <2>13 DEF M, r
<1> QED BY <1>1, <1>2

\* Head insertion, NewFront(first).
LEMMA InsertHeadOK ==
  ASSUME NEW L \in Links, NEW q \in Seq(Obj), NEW x \in Obj \ Members(q), ListOK(L, q)
  PROVE  /\ InsertHead(L, x) \in Links
         /\ ListOK(InsertHead(L, x), <<x>> \o q)
         /\ SameLinks(L, InsertHead(L, x), Obj \ (Members(q) \union {x}))
<1>1. CASE q = <<>>
  <2>1. L.first = NULL
    BY <1>1 DEF ListOK, Linked
  <2>2. <<x>> \o q = <<x>>
    BY <1>1
  <2>3. InsertHead(L, x) = [first |-> x, next |-> [L.next EXCEPT ![x] = NULL],
                                           prev |-> [L.prev EXCEPT ![x] = x]]
    BY <2>1 DEF InsertHead
  <2>4. InsertHead(L, x).first = x /\ InsertHead(L, x).next[x] = NULL /\ InsertHead(L, x).prev[x] = x
    BY <2>3 DEF Links
  <2>5. ListOK(InsertHead(L, x), <<x>>)
    BY <2>4 DEF ListOK, Linked, Distinct
  <2>6. InsertHead(L, x) \in Links
    BY <2>3 DEF Links
  <2>7. SameLinks(L, InsertHead(L, x), Obj \ (Members(q) \union {x}))
    BY <2>3 DEF SameLinks, Links
  <2> QED BY <2>2, <2>5, <2>6, <2>7
<1>2. CASE q # <<>>
  <2> DEFINE M == InsertHead(L, x)
             k == Len(q)
             r == <<x>> \o q
  <2>1. /\ k \in Nat \ {0} /\ L.first = q[1] /\ q[1] \in Obj /\ q[k] \in Obj
        /\ L.prev[q[1]] = q[k] /\ L.first # NULL
    BY <1>2, NullAssumption DEF ListOK, Linked
  <2>2. \A i \in 1 .. k : q[i] \in Obj /\ q[i] # x
    BY DEF Members
  <2>3. /\ M.first = x
        /\ M.next = [L.next EXCEPT ![x] = q[1]]
        /\ M.prev = [L.prev EXCEPT ![x] = q[k], ![q[1]] = x]
    BY <2>1 DEF InsertHead
  <2>4. /\ M.next[x] = q[1]
        /\ \A y \in Obj \ {x} : M.next[y] = L.next[y]
    BY <2>1, <2>2, <2>3 DEF Links
  <2>5. /\ M.prev[q[1]] = x /\ M.prev[x] = q[k]
        /\ \A y \in Obj \ {x, q[1]} : M.prev[y] = L.prev[y]
    <3>1. q[1] # x
      BY <2>1, <2>2
    <3> QED BY <3>1, <2>1, <2>3 DEF Links
  <2>6. M \in Links
    BY <2>1 DEF Links, InsertHead
  <2>7. /\ r \in Seq(Obj) /\ Len(r) = k + 1 /\ r[1] = x
        /\ \A i \in 2 .. k + 1 : r[i] = q[i-1]
    OBVIOUS
  <2> HIDE DEF M, r
  <2>8. Distinct(r)
    <3> SUFFICES ASSUME NEW a \in 1 .. k + 1, NEW b \in 1 .. k + 1, r[a] = r[b]
                 PROVE  a = b
      BY <2>7 DEF Distinct
    <3>1. CASE a = 1 \/ b = 1
      BY <3>1, <2>1, <2>2, <2>7
    <3>2. CASE a # 1 /\ b # 1
      <4>1. a - 1 \in 1 .. k /\ b - 1 \in 1 .. k /\ q[a-1] = q[b-1]
        BY <3>2, <2>1, <2>7
      <4>2. a - 1 = b - 1
        BY <4>1 DEF ListOK, Distinct
      <4> QED BY <4>2, <2>1
    <3> QED BY <3>1, <3>2
  <2>9. Linked(M.first, M.next, r, NULL)
    <3>1. ASSUME NEW i \in 1 .. k PROVE M.next[r[i]] = r[i+1]
      <4>1. CASE i = 1
        BY <4>1, <2>1, <2>4, <2>7
      <4>2. CASE i > 1
        <5>1. r[i] = q[i-1] /\ r[i+1] = q[i] /\ q[i-1] # x /\ q[i-1] \in Obj
          BY <4>2, <2>1, <2>2, <2>7
        <5>2. L.next[q[i-1]] = q[i]
          <6>1. i - 1 \in 1 .. Len(q) - 1 /\ (i - 1) + 1 = i
            BY <4>2, <2>1
          <6> QED BY <6>1 DEF ListOK, Linked
        <5> QED BY <5>1, <5>2, <2>4
      <4> QED BY <4>1, <4>2, <2>1
    <3>2. r # <<>> /\ M.first = r[1] /\ Len(r) - 1 = k
      BY <2>1, <2>3, <2>7
    <3>3. M.next[r[Len(r)]] = NULL
      <4>1. r[Len(r)] = q[k] /\ L.next[q[k]] = NULL
        BY <1>2, <2>1, <2>7 DEF ListOK, Linked
      <4> QED BY <4>1, <2>1, <2>2, <2>4
    <3> QED BY <3>1, <3>2, <3>3 DEF Linked
  <2>10. \A i \in 2 .. k + 1 : M.prev[r[i]] = r[i-1]
    <3> SUFFICES ASSUME NEW i \in 2 .. k + 1 PROVE M.prev[r[i]] = r[i-1]
      OBVIOUS
    <3>1. CASE i = 2
      BY <3>1, <2>1, <2>5, <2>7
    <3>2. CASE i > 2
      <4>1. r[i] = q[i-1] /\ r[i-1] = q[i-2] /\ i - 1 \in 2 .. k /\ i - 1 \in 1 .. k
        BY <3>2, <2>1, <2>7
      <4>2. q[i-1] # q[1] /\ q[i-1] # x /\ q[i-1] \in Obj
        BY <4>1, <2>1, <2>2 DEF ListOK, Distinct
      <4>3. L.prev[q[i-1]] = q[(i-1)-1]
        BY <4>1 DEF ListOK
      <4> QED BY <4>1, <4>2, <4>3, <2>5
    <3> QED BY <3>1, <3>2, <2>1
  <2>11. M.prev[r[1]] = r[k+1]
    BY <2>1, <2>5, <2>7
  <2>12. ListOK(M, r)
    BY <2>8, <2>9, <2>10, <2>11, <2>7 DEF ListOK
  <2>13. SameLinks(L, M, Obj \ (Members(q) \union {x}))
    <3>1. q[1] \in Members(q)
      BY <2>1 DEF Members
    <3> QED BY <3>1, <2>4, <2>5 DEF SameLinks
  <2> QED BY <2>6, <2>12, <2>13 DEF M, r
<1> QED BY <1>1, <1>2

\* Removal, the first half of Delete(first, obj) and Detach(first, obj).
LEMMA UnlinkOK ==
  ASSUME NEW L \in Links, NEW q \in Seq(Obj), NEW x \in Members(q), ListOK(L, q)
  PROVE  /\ Unlink(L, x) \in Links
         /\ ListOK(Unlink(L, x), Without(q, x))
         /\ SameLinks(L, Unlink(L, x), Obj \ Members(q))
<1> DEFINE M == Unlink(L, x)
           k == Len(q)
           w == Without(q, x)
<1>1. PICK j \in 1 .. k : x = q[j]
  BY DEF Members
<1>2. /\ k \in Nat \ {0} /\ L.first = q[1]
      /\ L.prev[q[1]] = q[k] /\ L.first # NULL /\ L.next[q[k]] = NULL
      /\ \A i \in 1 .. k : q[i] \in Obj /\ q[i] # NULL
  BY <1>1, NullAssumption DEF ListOK, Linked
<1>3. \A a, b \in 1 .. k : q[a] = q[b] => a = b
  BY DEF ListOK, Distinct
<1>4. \A i \in 1 .. k - 1 : L.next[q[i]] = q[i+1]
  BY DEF ListOK, Linked
<1>5. \A i \in 2 .. k : L.prev[q[i]] = q[i-1]
  BY DEF ListOK
<1>6. /\ w \in Seq(Obj) /\ Len(w) = k - 1 /\ Distinct(w)
      /\ \A i \in 1 .. k - 1 : w[i] = IF i < j THEN q[i] ELSE q[i+1]
  <2>1. Distinct(q)
    BY DEF ListOK
  <2>2. /\ w = [i \in 1 .. Len(q) - 1 |-> IF i < j THEN q[i] ELSE q[i+1]]
        /\ w \in Seq(Obj) /\ Len(w) = Len(q) - 1 /\ Distinct(w)
    BY <1>1, <2>1, WithoutIsShift
  <2> QED BY <2>2
<1> HIDE DEF w
<1>7. \A i \in 1 .. k : q[i] \in Members(q)
  BY DEF Members
<1>8. CASE j = 1 /\ k = 1
  <2>1. Unlink(L, x) = [first |-> NULL, next |-> L.next, prev |-> L.prev]
    BY <1>1, <1>2, <1>8 DEF Unlink
  <2>2. w = <<>>
    BY <1>6, <1>8
  <2> QED BY <2>1, <2>2, <1>6 DEF Links, ListOK, Linked, SameLinks, w
<1>9. CASE j = 1 /\ k > 1
  <2>1. x = L.first /\ L.next[x] = q[2] /\ q[2] # NULL /\ q[2] \in Obj
    BY <1>1, <1>2, <1>4, <1>9
  <2>2. /\ M.first = q[2] /\ M.next = L.next
        /\ M.prev = [L.prev EXCEPT ![q[2]] = q[k]]
    BY <2>1, <1>2 DEF Unlink
  <2>3. M \in Links
    BY <2>1, <1>2, <1>9 DEF Unlink, Links
  <2>4. M.prev[q[2]] = q[k] /\ \A y \in Obj \ {q[2]} : M.prev[y] = L.prev[y]
    BY <2>1, <2>2 DEF Links
  <2> HIDE DEF M
  <2>5. \A i \in 1 .. k - 1 : w[i] = q[i+1]
    BY <1>6, <1>9
  <2>6. Linked(M.first, M.next, w, NULL)
    <3>1. ASSUME NEW i \in 1 .. k - 2 PROVE M.next[w[i]] = w[i+1]
      <4>1. i + 1 \in 1 .. k - 1 /\ i \in 1 .. k - 1
        BY <1>2
      <4>2. L.next[q[i+1]] = q[(i+1)+1]
        BY <4>1, <1>4
      <4> QED BY <4>1, <4>2, <2>2, <2>5
    <3>2. w # <<>> /\ M.first = w[1] /\ M.next[w[Len(w)]] = NULL /\ Len(w) - 1 = k - 2
      BY <1>2, <1>6, <1>9, <2>2, <2>5
    <3> QED BY <3>1, <3>2 DEF Linked
  <2>7. \A i \in 2 .. k - 1 : M.prev[w[i]] = w[i-1]
    <3> SUFFICES ASSUME NEW i \in 2 .. k - 1 PROVE M.prev[w[i]] = w[i-1]
      OBVIOUS
    <3>1. w[i] = q[i+1] /\ w[i-1] = q[i] /\ i + 1 \in 2 .. k /\ i + 1 \in 1 .. k /\ 2 \in 1 .. k /\ i + 1 # 2
      BY <2>5, <1>2
    <3>2. q[i+1] # q[2] /\ q[i+1] \in Obj /\ L.prev[q[i+1]] = q[(i+1)-1]
      BY <3>1, <1>2, <1>3, <1>5
    <3> QED BY <3>1, <3>2, <2>4
  <2>8. w # <<>> => M.prev[w[1]] = w[Len(w)]
    BY <1>2, <1>6, <1>9, <2>4, <2>5
  <2>9. ListOK(M, w)
    BY <1>6, <2>6, <2>7, <2>8 DEF ListOK
  <2>10. SameLinks(L, M, Obj \ Members(q))
    <3>1. q[2] \in Members(q)
      BY <1>7, <1>9
    <3> QED BY <3>1, <2>2, <2>4 DEF SameLinks
  <2> QED BY <2>3, <2>9, <2>10 DEF M, w
<1>10. CASE j > 1 /\ j = k
  <2>1. x # L.first /\ L.next[x] = NULL /\ L.prev[x] = q[k-1] /\ k - 1 \in 1 .. k
    BY <1>1, <1>2, <1>3, <1>5, <1>10
  <2>2. /\ M.first = q[1]
        /\ M.next = [L.next EXCEPT ![q[k-1]] = NULL]
        /\ M.prev = [L.prev EXCEPT ![q[1]] = q[k-1]]
    BY <2>1, <1>2 DEF Unlink
  <2>3. M \in Links
    BY <2>1, <1>2 DEF Unlink, Links
  <2>4. /\ M.next[q[k-1]] = NULL /\ \A y \in Obj \ {q[k-1]} : M.next[y] = L.next[y]
        /\ M.prev[q[1]] = q[k-1] /\ \A y \in Obj \ {q[1]} : M.prev[y] = L.prev[y]
    BY <2>1, <2>2, <1>2 DEF Links
  <2> HIDE DEF M
  <2>5. \A i \in 1 .. k - 1 : w[i] = q[i]
    BY <1>6, <1>10
  <2>6. Linked(M.first, M.next, w, NULL)
    <3>1. ASSUME NEW i \in 1 .. k - 2 PROVE M.next[w[i]] = w[i+1]
      <4>1. i + 1 \in 1 .. k - 1 /\ i \in 1 .. k - 1 /\ i \in 1 .. k /\ i # k - 1
        BY <1>2
      <4>2. L.next[q[i]] = q[i+1] /\ q[i] # q[k-1] /\ q[i] \in Obj
        BY <4>1, <2>1, <1>2, <1>3, <1>4
      <4> QED BY <4>1, <4>2, <2>4, <2>5
    <3>2. w # <<>> /\ M.first = w[1] /\ M.next[w[Len(w)]] = NULL /\ Len(w) - 1 = k - 2
      BY <1>2, <1>6, <1>10, <2>2, <2>4, <2>5
    <3> QED BY <3>1, <3>2 DEF Linked
  <2>7. \A i \in 2 .. k - 1 : M.prev[w[i]] = w[i-1]
    <3> SUFFICES ASSUME NEW i \in 2 .. k - 1 PROVE M.prev[w[i]] = w[i-1]
      OBVIOUS
    <3>1. w[i] = q[i] /\ w[i-1] = q[i-1] /\ i \in 2 .. k /\ i \in 1 .. k /\ 1 \in 1 .. k /\ i # 1
      BY <2>5, <1>2
    <3>2. q[i] # q[1] /\ q[i] \in Obj /\ L.prev[q[i]] = q[i-1]
      BY <3>1, <1>2, <1>3, <1>5
    <3> QED BY <3>1, <3>2, <2>4
  <2>8. w # <<>> => M.prev[w[1]] = w[Len(w)]
    BY <1>2, <1>6, <1>10, <2>4, <2>5
  <2>9. ListOK(M, w)
    BY <1>6, <2>6, <2>7, <2>8 DEF ListOK
  <2>10. SameLinks(L, M, Obj \ Members(q))
    <3>1. q[1] \in Members(q) /\ q[k-1] \in Members(q)
      BY <1>7, <2>1, <1>2
    <3> QED BY <3>1, <2>4 DEF SameLinks
  <2> QED BY <2>3, <2>9, <2>10 DEF M, w
<1>11. CASE j > 1 /\ j < k
  <2>1. /\ x # L.first /\ L.next[x] = q[j+1] /\ L.prev[x] = q[j-1]
        /\ j - 1 \in 1 .. k /\ j + 1 \in 1 .. k
    BY <1>1, <1>2, <1>3, <1>4, <1>5, <1>11
  <2>2. /\ M.first = q[1]
        /\ M.next = [L.next EXCEPT ![q[j-1]] = q[j+1]]
        /\ M.prev = [L.prev EXCEPT ![q[j+1]] = q[j-1]]
    BY <2>1, <1>2 DEF Unlink
  <2>3. M \in Links
    BY <2>1, <1>2 DEF Unlink, Links
  <2>4. /\ M.next[q[j-1]] = q[j+1] /\ \A y \in Obj \ {q[j-1]} : M.next[y] = L.next[y]
        /\ M.prev[q[j+1]] = q[j-1] /\ \A y \in Obj \ {q[j+1]} : M.prev[y] = L.prev[y]
    BY <2>1, <2>2, <1>2 DEF Links
  <2> HIDE DEF M
  <2>6. Linked(M.first, M.next, w, NULL)
    <3>1. ASSUME NEW i \in 1 .. k - 2 PROVE M.next[w[i]] = w[i+1]
      <4>1. CASE i < j - 1
        <5>0. /\ i < j /\ i + 1 < j /\ i # j - 1
              /\ i \in 1 .. k /\ i \in 1 .. k - 1 /\ i + 1 \in 1 .. k - 1
          BY <4>1, <1>2, <1>11
        <5>1. w[i] = q[i] /\ w[i+1] = q[i+1] /\ i \in 1 .. k /\ i \in 1 .. k - 1 /\ i # j - 1
          BY <5>0, <1>6
        <5>2. q[i] # q[j-1] /\ q[i] \in Obj /\ L.next[q[i]] = q[i+1]
          BY <5>1, <2>1, <1>2, <1>3, <1>4
        <5> QED BY <5>1, <5>2, <2>4
      <4>2. CASE i = j - 1
        BY <4>2, <1>2, <1>6, <1>11, <2>4
      <4>3. CASE i > j - 1
        <5>1. /\ w[i] = q[i+1] /\ w[i+1] = q[(i+1)+1] /\ i + 1 \in 1 .. k
              /\ i + 1 \in 1 .. k - 1 /\ i + 1 # j - 1
          BY <4>3, <1>2, <1>6, <1>11
        <5>2. q[i+1] # q[j-1] /\ q[i+1] \in Obj /\ L.next[q[i+1]] = q[(i+1)+1]
          BY <5>1, <2>1, <1>2, <1>3, <1>4
        <5> QED BY <5>1, <5>2, <2>4
      <4> QED BY <4>1, <4>2, <4>3, <1>11
    <3>2. w # <<>> /\ M.first = w[1] /\ Len(w) - 1 = k - 2 /\ w[Len(w)] = q[k]
      BY <1>2, <1>6, <1>11, <2>2
    <3>3. M.next[q[k]] = NULL
      <4>1. q[k] # q[j-1] /\ q[k] \in Obj
        BY <1>2, <1>3, <1>11, <2>1
      <4> QED BY <4>1, <2>4, <1>2
    <3> QED BY <3>1, <3>2, <3>3 DEF Linked
  <2>7. \A i \in 2 .. k - 1 : M.prev[w[i]] = w[i-1]
    <3> SUFFICES ASSUME NEW i \in 2 .. k - 1 PROVE M.prev[w[i]] = w[i-1]
      OBVIOUS
    <3>1. CASE i < j
      <4>0. /\ i - 1 < j /\ i # j + 1 /\ i \in 2 .. k /\ i \in 1 .. k
            /\ i \in 1 .. k - 1 /\ i - 1 \in 1 .. k - 1
        BY <3>1, <1>2, <1>11
      <4>1. w[i] = q[i] /\ w[i-1] = q[i-1] /\ i \in 2 .. k /\ i \in 1 .. k /\ i # j + 1
        BY <3>1, <4>0, <1>6
      <4>2. q[i] # q[j+1] /\ q[i] \in Obj /\ L.prev[q[i]] = q[i-1]
        BY <4>1, <2>1, <1>2, <1>3, <1>5
      <4> QED BY <4>1, <4>2, <2>4
    <3>2. CASE i = j
      <4>1. w[i] = q[j+1] /\ w[i-1] = q[j-1]
        BY <3>2, <1>2, <1>6, <1>11
      <4> QED BY <4>1, <2>4
    <3>3. CASE i > j
      <4>1. /\ w[i] = q[i+1] /\ w[i-1] = q[(i+1)-1] /\ i + 1 \in 2 .. k
            /\ i + 1 \in 1 .. k /\ i + 1 # j + 1
        BY <3>3, <1>2, <1>6, <1>11
      <4>2. q[i+1] # q[j+1] /\ q[i+1] \in Obj /\ L.prev[q[i+1]] = q[(i+1)-1]
        BY <4>1, <2>1, <1>2, <1>3, <1>5
      <4> QED BY <4>1, <4>2, <2>4
    <3> QED BY <3>1, <3>2, <3>3, <1>11
  <2>8. w # <<>> => M.prev[w[1]] = w[Len(w)]
    <3>1. w[1] = q[1] /\ w[Len(w)] = q[k] /\ 1 # j + 1 /\ 1 \in 1 .. k
      BY <1>2, <1>6, <1>11
    <3>2. q[1] # q[j+1] /\ q[1] \in Obj
      BY <3>1, <2>1, <1>2, <1>3
    <3> QED BY <3>1, <3>2, <2>4, <1>2
  <2>9. ListOK(M, w)
    BY <1>6, <2>6, <2>7, <2>8 DEF ListOK
  <2>10. SameLinks(L, M, Obj \ Members(q))
    <3>1. q[j-1] \in Members(q) /\ q[j+1] \in Members(q)
      BY <1>7, <2>1
    <3> QED BY <3>1, <2>4 DEF SameLinks
  <2> QED BY <2>3, <2>9, <2>10 DEF M, w
<1>12. (j = 1 /\ k = 1) \/ (j = 1 /\ k > 1) \/ (j > 1 /\ j = k) \/ (j > 1 /\ j < k)
  <2>1. k \in Nat
    BY <1>2
  <2> HIDE DEF k
  <2> QED BY <2>1
<1> QED BY <1>8, <1>9, <1>10, <1>11, <1>12

-----------------------------------------------------------------------------
\* A chain does not notice changes to objects outside it.
LEMMA LinkedFrame ==
  ASSUME NEW q \in Seq(Obj), NEW h, NEW e, NEW f, NEW g,
         \A x \in Members(q) : g[x] = f[x],
         Linked(h, f, q, e)
  PROVE  Linked(h, g, q, e)
<1>1. \A i \in 1 .. Len(q) : g[q[i]] = f[q[i]]
  BY DEF Members
<1>2. \A i \in 1 .. Len(q) - 1 : g[q[i]] = q[i+1]
  <2> SUFFICES ASSUME NEW i \in 1 .. Len(q) - 1 PROVE g[q[i]] = q[i+1]
    OBVIOUS
  <2>1. i \in 1 .. Len(q) /\ f[q[i]] = q[i+1]
    BY DEF Linked
  <2> QED BY <2>1, <1>1
<1>3. q # <<>> => g[q[Len(q)]] = e
  BY <1>1 DEF Linked
<1> QED BY <1>2, <1>3 DEF Linked

\* Nor does a doubly linked list.
LEMMA ListFrame ==
  ASSUME NEW q \in Seq(Obj), NEW L, NEW M, M.first = L.first,
         SameLinks(L, M, Members(q)), ListOK(L, q)
  PROVE  ListOK(M, q)
<1>1. \A i \in 1 .. Len(q) : M.prev[q[i]] = L.prev[q[i]]
  BY DEF Members, SameLinks
<1>2. Linked(M.first, M.next, q, NULL)
  BY LinkedFrame DEF ListOK, SameLinks
<1>3. \A i \in 2 .. Len(q) : M.prev[q[i]] = q[i-1]
  <2> SUFFICES ASSUME NEW i \in 2 .. Len(q) PROVE M.prev[q[i]] = q[i-1]
    OBVIOUS
  <2>1. i \in 1 .. Len(q) /\ L.prev[q[i]] = q[i-1]
    BY DEF ListOK
  <2> QED BY <2>1, <1>1
<1>4. q # <<>> => M.prev[q[1]] = q[Len(q)]
  BY <1>1 DEF ListOK
<1> QED BY <1>2, <1>3, <1>4 DEF ListOK

\* Pushing the chain p on top of the chain q.
LEMMA LinkedConcat ==
  ASSUME NEW p \in Seq(Obj), NEW q \in Seq(Obj), NEW h, NEW m, NEW e, NEW f,
         p # <<>>, Linked(h, f, p, m), Linked(m, f, q, e)
  PROVE  Linked(h, f, p \o q, e)
<1> DEFINE r == p \o q
<1>1. /\ r \in Seq(Obj) /\ Len(r) = Len(p) + Len(q)
      /\ \A i \in 1 .. Len(p) : r[i] = p[i]
      /\ \A i \in Len(p) + 1 .. Len(p) + Len(q) : r[i] = q[i - Len(p)]
  OBVIOUS
<1>2. Len(p) \in Nat \ {0} /\ Len(q) \in Nat
  OBVIOUS
<1> HIDE DEF r
<1>3. ASSUME NEW i \in 1 .. Len(r) - 1 PROVE f[r[i]] = r[i+1]
  <2>1. CASE i < Len(p)
    <3>1. r[i] = p[i] /\ r[i+1] = p[i+1] /\ i \in 1 .. Len(p) - 1
      BY <2>1, <1>1, <1>2
    <3> QED BY <3>1 DEF Linked
  <2>2. CASE i = Len(p)
    <3>1. r[i] = p[Len(p)] /\ r[i+1] = q[1] /\ q # <<>>
      BY <2>2, <1>1, <1>2
    <3> QED BY <3>1 DEF Linked
  <2>3. CASE i > Len(p)
    <3> DEFINE d == i - Len(p)
    <3>1. r[i] = q[d] /\ r[i+1] = q[d+1] /\ d \in 1 .. Len(q) - 1
      BY <2>3, <1>1, <1>2
    <3> QED BY <3>1 DEF Linked
  <2> QED BY <2>1, <2>2, <2>3, <1>2
<1>4. r # <<>> /\ h = r[1]
  <2>1. 1 \in 1 .. Len(p) /\ h = p[1]
    BY <1>2 DEF Linked
  <2> QED BY <2>1, <1>1, <1>2
<1>5. f[r[Len(r)]] = e
  <2>1. CASE q = <<>>
    <3>1. Len(r) = Len(p) /\ r[Len(r)] = p[Len(p)] /\ m = e
      BY <2>1, <1>1, <1>2 DEF Linked
    <3> QED BY <3>1 DEF Linked
  <2>2. CASE q # <<>>
    <3>1. r[Len(r)] = q[Len(q)]
      BY <2>2, <1>1, <1>2
    <3> QED BY <3>1, <2>2 DEF Linked
  <2> QED BY <2>1, <2>2
<1> QED BY <1>3, <1>4, <1>5 DEF Linked, r

\* The members of the sequences the pool builds.
LEMMA MembersConcat ==
  ASSUME NEW p \in Seq(Obj), NEW q \in Seq(Obj)
  PROVE  /\ Members(p \o q) = Members(p) \union Members(q)
         /\ Distinct(p) /\ Distinct(q) /\ Members(p) \intersect Members(q) = {}
              => Distinct(p \o q)
<1> DEFINE r == p \o q
<1>1. /\ r \in Seq(Obj) /\ Len(r) = Len(p) + Len(q)
      /\ \A i \in 1 .. Len(p) : r[i] = p[i]
      /\ \A i \in Len(p) + 1 .. Len(p) + Len(q) : r[i] = q[i - Len(p)]
      /\ \A i \in 1 .. Len(q) : r[i + Len(p)] = q[i]
  OBVIOUS
<1>2. Len(p) \in Nat /\ Len(q) \in Nat
  OBVIOUS
<1> HIDE DEF r
<1>3. Members(r) \subseteq Members(p) \union Members(q)
  <2> SUFFICES ASSUME NEW i \in 1 .. Len(r)
               PROVE  r[i] \in Members(p) \union Members(q)
    BY <1>1 DEF Members
  <2>1. CASE i <= Len(p)
    BY <2>1, <1>1, <1>2 DEF Members
  <2>2. CASE i > Len(p)
    <3>1. i - Len(p) \in 1 .. Len(q) /\ r[i] = q[i - Len(p)]
      BY <2>2, <1>1, <1>2
    <3> QED BY <3>1 DEF Members
  <2> QED BY <2>1, <2>2, <1>2
<1>4. Members(p) \subseteq Members(r)
  <2> SUFFICES ASSUME NEW i \in 1 .. Len(p) PROVE p[i] \in Members(r)
    BY DEF Members
  <2>1. i \in 1 .. Len(r) /\ r[i] = p[i]
    BY <1>1, <1>2
  <2> QED BY <2>1, <1>1 DEF Members
<1>5. Members(q) \subseteq Members(r)
  <2> SUFFICES ASSUME NEW i \in 1 .. Len(q) PROVE q[i] \in Members(r)
    BY DEF Members
  <2>1. i + Len(p) \in 1 .. Len(r) /\ r[i + Len(p)] = q[i]
    BY <1>1, <1>2
  <2> QED BY <2>1, <1>1 DEF Members
<1>6. ASSUME Distinct(p), Distinct(q), Members(p) \intersect Members(q) = {}
      PROVE  Distinct(r)
  <2> SUFFICES ASSUME NEW a \in 1 .. Len(r), NEW b \in 1 .. Len(r), r[a] = r[b], a <= b
               PROVE  a = b
    <3>1. ASSUME NEW a \in 1 .. Len(r), NEW b \in 1 .. Len(r), r[a] = r[b] PROVE a = b
      <4>1. a <= b \/ b <= a
        BY <1>1, <1>2
      <4> QED BY <4>1, <3>1
    <3> QED BY <3>1, <1>1 DEF Distinct
  <2>1. CASE b <= Len(p)
    <3>1. a \in 1 .. Len(p) /\ b \in 1 .. Len(p) /\ p[a] = p[b]
      BY <2>1, <1>1, <1>2
    <3> QED BY <3>1, <1>6 DEF Distinct
  <2>2. CASE a > Len(p)
    <3>1. a - Len(p) \in 1 .. Len(q) /\ b - Len(p) \in 1 .. Len(q) /\ q[a - Len(p)] = q[b - Len(p)]
      BY <2>2, <1>1, <1>2
    <3>2. a - Len(p) = b - Len(p)
      BY <3>1, <1>6 DEF Distinct
    <3> QED BY <3>2, <1>1, <1>2
  <2>3. CASE a <= Len(p) /\ b > Len(p)
    <3>1. a \in 1 .. Len(p) /\ r[a] = p[a] /\ b - Len(p) \in 1 .. Len(q) /\ r[b] = q[b - Len(p)]
      BY <2>3, <1>1, <1>2
    <3>2. p[a] \in Members(p) /\ q[b - Len(p)] \in Members(q)
      BY <3>1 DEF Members
    <3> QED BY <3>1, <3>2, <1>6
  <2> QED BY <2>1, <2>2, <2>3, <1>1, <1>2
<1> QED BY <1>3, <1>4, <1>5, <1>6 DEF r

\* What is left of a sequence of distinct objects when its head is removed.
LEMMA MembersTail ==
  ASSUME NEW q \in Seq(Obj), q # <<>>, Distinct(q)
  PROVE  /\ Tail(q) \in Seq(Obj)
         /\ Distinct(Tail(q))
         /\ Members(Tail(q)) = Members(q) \ {q[1]}
         /\ q[1] \in Members(q)
<1> DEFINE r == Tail(q)
<1>1. /\ r \in Seq(Obj) /\ Len(r) = Len(q) - 1 /\ Len(q) \in Nat \ {0}
      /\ \A i \in 1 .. Len(q) - 1 : r[i] = q[i+1]
  OBVIOUS
<1> HIDE DEF r
<1>2. \A a, b \in 1 .. Len(q) : q[a] = q[b] => a = b
  BY DEF Distinct
<1>3. Distinct(r)
  <2> SUFFICES ASSUME NEW a \in 1 .. Len(q) - 1, NEW b \in 1 .. Len(q) - 1, r[a] = r[b]
               PROVE  a = b
    BY <1>1 DEF Distinct
  <2>1. a + 1 = b + 1
    <3>1. q[a+1] = q[b+1] /\ a + 1 \in 1 .. Len(q) /\ b + 1 \in 1 .. Len(q)
      BY <1>1
    <3> QED BY <3>1, <1>2
  <2> QED BY <2>1
<1>4. Members(r) \subseteq Members(q) \ {q[1]}
  <2> SUFFICES ASSUME NEW i \in 1 .. Len(q) - 1 PROVE r[i] \in Members(q) /\ r[i] # q[1]
    BY <1>1 DEF Members
  <2>1. r[i] = q[i+1] /\ i + 1 \in 1 .. Len(q) /\ 1 \in 1 .. Len(q) /\ i + 1 # 1
    BY <1>1
  <2> QED BY <2>1, <1>2 DEF Members
<1>5. Members(q) \ {q[1]} \subseteq Members(r)
  <2> SUFFICES ASSUME NEW i \in 1 .. Len(q), q[i] # q[1] PROVE q[i] \in Members(r)
    BY DEF Members
  <2>1. i - 1 \in 1 .. Len(q) - 1 /\ r[i-1] = q[(i-1)+1] /\ (i-1)+1 = i
    BY <1>1
  <2> QED BY <2>1, <1>1 DEF Members
<1>6. q[1] \in Members(q)
  BY <1>1 DEF Members
<1> QED BY <1>1, <1>3, <1>4, <1>5, <1>6 DEF r

\* Removing the head of a chain leaves a chain from its successor.
LEMMA LinkedTail ==
  ASSUME NEW q \in Seq(Obj), q # <<>>, NEW h, NEW e, NEW f, Linked(h, f, q, e)
  PROVE  h = q[1] /\ Linked(f[h], f, Tail(q), e)
<1> DEFINE r == Tail(q)
<1>1. /\ r \in Seq(Obj) /\ Len(r) = Len(q) - 1 /\ Len(q) \in Nat \ {0}
      /\ \A i \in 1 .. Len(q) - 1 : r[i] = q[i+1]
  OBVIOUS
<1> HIDE DEF r
<1>2. h = q[1] /\ f[q[Len(q)]] = e /\ \A i \in 1 .. Len(q) - 1 : f[q[i]] = q[i+1]
  BY DEF Linked
<1>3. \A i \in 1 .. Len(r) - 1 : f[r[i]] = r[i+1]
  <2> SUFFICES ASSUME NEW i \in 1 .. Len(r) - 1 PROVE f[r[i]] = r[i+1]
    OBVIOUS
  <2>1. r[i] = q[i+1] /\ r[i+1] = q[(i+1)+1] /\ i + 1 \in 1 .. Len(q) - 1
    BY <1>1
  <2> QED BY <2>1, <1>2
<1>4. CASE Len(q) = 1
  <2>1. r = <<>> /\ f[h] = e
    BY <1>1, <1>2, <1>4
  <2> QED BY <2>1, <1>2 DEF Linked, r
<1>5. CASE Len(q) > 1
  <2>1. r # <<>> /\ f[h] = r[1] /\ r[Len(r)] = q[Len(q)]
    BY <1>1, <1>2, <1>5
  <2> QED BY <2>1, <1>2, <1>3 DEF Linked, r
<1> QED BY <1>1, <1>4, <1>5

\* A standalone object as a sequence.
LEMMA SingletonSeq ==
  ASSUME NEW x \in Obj
  PROVE  /\ <<x>> \in Seq(Obj) /\ <<x>> # <<>> /\ Len(<<x>>) = 1 /\ <<x>>[1] = x
         /\ Members(<<x>>) = {x} /\ Distinct(<<x>>)
BY DEF Members, Distinct

\* The empty list.
LEMMA EmptySeq == <<>> \in Seq(Obj) /\ Members(<<>>) = {} /\ Distinct(<<>>)
BY DEF Members, Distinct

\* The part of q \o r that comes after q.
LEMMA AfterPart ==
  ASSUME NEW q \in Seq(Obj), NEW r \in Seq(Obj)
  PROVE  /\ SubSeq(q \o r, Len(q) + 1, Len(q \o r)) = r
         /\ {(q \o r)[i] : i \in 1 .. Len(q)} = Members(q)
         /\ q # <<>> => Len(q) \in 1 .. Len(q \o r)
<1>1. /\ Len(q) \in Nat /\ Len(r) \in Nat /\ Len(q \o r) = Len(q) + Len(r) /\ q \o r \in Seq(Obj)
      /\ \A i \in 1 .. Len(q) : (q \o r)[i] = q[i]
      /\ \A i \in 1 .. Len(r) : (q \o r)[Len(q) + i] = r[i]
  OBVIOUS
<1>2. SubSeq(q \o r, Len(q) + 1, Len(q \o r)) = r
  <2> DEFINE s == SubSeq(q \o r, Len(q) + 1, Len(q \o r))
  <2>1. s \in Seq(Obj) /\ Len(s) = Len(r) /\ \A i \in 1 .. Len(r) : s[i] = (q \o r)[Len(q) + i]
    BY <1>1
  <2> QED BY <1>1, <2>1
<1> QED BY <1>1, <1>2 DEF Members
=============================================================================
