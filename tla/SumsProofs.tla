----------------------------- MODULE SumsProofs -----------------------------
(***************************************************************************)
(* What a sum comes to.  SumTo is a recursive function on an interval;     *)
(* that it exists, and its value, follow from the least counterexample.    *)
(***************************************************************************)
EXTENDS Sums, WellFoundedInduction, TLAPS

\* A set of numbers that is not empty has a least element.
LEMMA LeastElement ==
  ASSUME NEW T \in SUBSET Nat, T # {}
  PROVE  \E x \in T : \A y \in T : x <= y
<1> DEFINE R == {ss \in Nat \X Nat : ss[1] < ss[2]}
<1>1. IsWellFoundedOn(R, Nat)
  BY NatLessThanWellFounded, Zenon DEF OpToRel
<1> HIDE DEF R
<1>2. PICK x \in T : \A y \in T : ~(<<y, x>> \in R)
  BY <1>1, WFMin, Zenon
<1>3. ASSUME NEW y \in T PROVE x <= y
  <2>1. x \in Nat /\ y \in Nat
    OBVIOUS
  <2>2. <<y, x>> \in Nat \X Nat /\ <<y, x>>[1] = y /\ <<y, x>>[2] = x
    BY <2>1
  <2>3. ~(y < x)
    BY <2>2, <1>2, Zenon DEF R
  <2> QED BY <2>1, <2>3
<1> QED BY <1>3

\* g adds up the first m elements of f.
IsSum(g, f, m) == g = [k \in 0 .. m |-> IF k = 0 THEN 0 ELSE g[k - 1] + f[k]]

\* There is a function that adds up f.
LEMMA SumExists ==
  ASSUME NEW f, NEW n \in Nat
  PROVE  \E g : IsSum(g, f, n)
<1> DEFINE T == {m \in Nat : ~\E g : IsSum(g, f, m)}
<1> SUFFICES ASSUME T # {} PROVE FALSE
  OBVIOUS
<1>1. PICK m \in T : \A y \in T : m <= y
  BY LeastElement
<1>2. CASE m = 0
  <2> DEFINE g == [k \in 0 .. 0 |-> 0]
  <2>1. IsSum(g, f, 0)
    BY DEF IsSum
  <2> QED BY <2>1, <1>1, <1>2
<1>3. CASE m # 0
  <2>1. m - 1 \in Nat /\ m - 1 \notin T
    BY <1>1, <1>3
  <2>2. PICK g : IsSum(g, f, m - 1)
    BY <2>1
  <2> DEFINE h == [k \in 0 .. m |-> IF k = m THEN g[m - 1] + f[m] ELSE g[k]]
  <2>3. \A k \in 0 .. m - 1 : g[k] = IF k = 0 THEN 0 ELSE g[k - 1] + f[k]
    BY <2>1, <2>2 DEF IsSum
  <2>4. ASSUME NEW k \in 0 .. m
        PROVE  h[k] = IF k = 0 THEN 0 ELSE h[k - 1] + f[k]
    BY <2>1, <2>3, <1>3
  <2>5. IsSum(h, f, m)
    BY <2>4 DEF IsSum
  <2> QED BY <2>5, <1>1
<1> QED BY <1>2, <1>3

\* SumTo is its last value.
LEMMA SumIs ==
  ASSUME NEW f, NEW n \in Nat
  PROVE  \E g : IsSum(g, f, n) /\ SumTo(f, n) = g[n]
<1> DEFINE g == CHOOSE h : IsSum(h, f, n)
<1>1. IsSum(g, f, n)
  BY SumExists, Zenon
<1>2. SumTo(f, n) = g[n]
  BY DEF SumTo, IsSum
<1> QED BY <1>1, <1>2

\* A sum of natural numbers is one.
LEMMA SumNat ==
  ASSUME NEW f, NEW n \in Nat, \A k \in 1 .. n : f[k] \in Nat
  PROVE  SumTo(f, n) \in Nat
<1>1. PICK g : IsSum(g, f, n) /\ SumTo(f, n) = g[n]
  BY SumIs
<1> DEFINE T == {m \in 0 .. n : g[m] \notin Nat}
<1>2. SUFFICES ASSUME T # {} PROVE FALSE
  BY <1>1
<1>3. PICK m \in T : \A y \in T : m <= y
  <2>1. T \in SUBSET Nat
    OBVIOUS
  <2> HIDE DEF T
  <2> QED BY <2>1, <1>2, LeastElement
<1>4. g[m] = IF m = 0 THEN 0 ELSE g[m - 1] + f[m]
  BY <1>1, <1>3 DEF IsSum
<1>5. m # 0 => m - 1 \in 0 .. n /\ m - 1 \notin T /\ m \in 1 .. n
  BY <1>3
<1> QED BY <1>3, <1>4, <1>5

\* A sum of c, n - 1 times, and of a last element.
LEMMA SumEqual ==
  ASSUME NEW f, NEW n \in Nat \ {0}, NEW c \in Nat, NEW z \in Int,
         \A k \in 1 .. n - 1 : f[k] = c, f[n] = z
  PROVE  SumTo(f, n) = (n - 1) * c + z
<1>1. PICK g : IsSum(g, f, n) /\ SumTo(f, n) = g[n]
  BY SumIs
<1> DEFINE T == {m \in 0 .. n - 1 : g[m] # m * c}
<1>2. \A m \in 0 .. n : g[m] = IF m = 0 THEN 0 ELSE g[m - 1] + f[m]
  BY <1>1 DEF IsSum
<1>3. T = {}
  <2> SUFFICES ASSUME T # {} PROVE FALSE
    OBVIOUS
  <2>1. PICK m \in T : \A y \in T : m <= y
    <3>1. T \in SUBSET Nat
      OBVIOUS
    <3> HIDE DEF T
    <3> QED BY <3>1, LeastElement
  <2>2. m # 0
    BY <2>1, <1>2
  <2>3. m - 1 \in 0 .. n - 1 /\ m - 1 \notin T /\ m \in 1 .. n - 1
    BY <2>1, <2>2
  <2>4. g[m - 1] = (m - 1) * c /\ g[m] = g[m - 1] + c
    BY <2>3, <1>2
  <2>5. (m - 1) * c + c = m * c
    BY <2>3
  <2> QED BY <2>1, <2>4, <2>5
<1>4. g[n - 1] = (n - 1) * c
  BY <1>3
<1>5. g[n] = g[n - 1] + z
  BY <1>2
<1> QED BY <1>1, <1>4, <1>5

\* Sums of what differs in one place differ by as much.
LEMMA SumChange ==
  ASSUME NEW f, NEW h, NEW n \in Nat, NEW j \in 1 .. n,
         \A k \in 1 .. n : f[k] \in Int /\ h[k] \in Int,
         \A k \in 1 .. n : k # j => h[k] = f[k]
  PROVE  /\ SumTo(f, n) \in Int /\ SumTo(h, n) \in Int
         /\ SumTo(h, n) = SumTo(f, n) + h[j] - f[j]
<1>1. PICK a : IsSum(a, f, n) /\ SumTo(f, n) = a[n]
  BY SumIs
<1>2. PICK b : IsSum(b, h, n) /\ SumTo(h, n) = b[n]
  BY SumIs
<1> DEFINE d == h[j] - f[j]
           Good(m) == /\ a[m] \in Int /\ b[m] \in Int
                      /\ b[m] = IF m < j THEN a[m] ELSE a[m] + d
           T == {m \in 0 .. n : ~Good(m)}
<1>3. \A m \in 0 .. n : /\ a[m] = IF m = 0 THEN 0 ELSE a[m - 1] + f[m]
                        /\ b[m] = IF m = 0 THEN 0 ELSE b[m - 1] + h[m]
  BY <1>1, <1>2 DEF IsSum
<1>4. T = {}
  <2> SUFFICES ASSUME T # {} PROVE FALSE
    OBVIOUS
  <2>1. PICK m \in T : \A y \in T : m <= y
    <3>1. T \in SUBSET Nat
      OBVIOUS
    <3> HIDE DEF T
    <3> QED BY <3>1, LeastElement
  <2>2. m # 0
    BY <2>1, <1>3
  <2>3. m - 1 \in 0 .. n /\ m - 1 \notin T /\ m \in 1 .. n
    BY <2>1, <2>2
  <2>4. Good(m - 1) /\ a[m] = a[m - 1] + f[m] /\ b[m] = b[m - 1] + h[m] /\ f[m] \in Int /\ h[m] \in Int
    BY <2>3, <1>3
  <2>5. d \in Int /\ (m # j => h[m] = f[m]) /\ (m = j => h[m] = f[m] + d)
    BY <2>3
  <2> HIDE DEF d
  <2>6. Good(m)
    BY <2>3, <2>4, <2>5
  <2> QED BY <2>1, <2>6
<1>5. Good(n)
  BY <1>4
<1> QED BY <1>1, <1>2, <1>5

\* Sums of the same summands are the same, and the last summand can be split off.
LEMMA SumAgree ==
  ASSUME NEW f, NEW h, NEW n \in Nat, \A k \in 1 .. n : h[k] = f[k]
  PROVE  SumTo(h, n) = SumTo(f, n)
<1>1. PICK a : IsSum(a, f, n) /\ SumTo(f, n) = a[n]
  BY SumIs
<1>2. PICK b : IsSum(b, h, n) /\ SumTo(h, n) = b[n]
  BY SumIs
<1> DEFINE T == {m \in 0 .. n : a[m] # b[m]}
<1>3. \A m \in 0 .. n : /\ a[m] = IF m = 0 THEN 0 ELSE a[m - 1] + f[m]
                        /\ b[m] = IF m = 0 THEN 0 ELSE b[m - 1] + h[m]
  BY <1>1, <1>2 DEF IsSum
<1>4. T = {}
  <2> SUFFICES ASSUME T # {} PROVE FALSE
    OBVIOUS
  <2>1. PICK m \in T : \A y \in T : m <= y
    <3>1. T \in SUBSET Nat
      OBVIOUS
    <3> HIDE DEF T
    <3> QED BY <3>1, LeastElement
  <2>2. m # 0
    BY <2>1, <1>3
  <2>3. m - 1 \in 0 .. n /\ m - 1 \notin T /\ m \in 1 .. n
    BY <2>1, <2>2
  <2> QED BY <2>1, <2>2, <2>3, <1>3
<1> QED BY <1>1, <1>2, <1>4

LEMMA SumStep ==
  ASSUME NEW f, NEW n \in Nat
  PROVE  /\ SumTo(f, 0) = 0
         /\ n # 0 => SumTo(f, n) = SumTo(f, n - 1) + f[n]
<1>1. PICK a : IsSum(a, f, n) /\ SumTo(f, n) = a[n]
  BY SumIs
<1>2. \A m \in 0 .. n : a[m] = IF m = 0 THEN 0 ELSE a[m - 1] + f[m]
  BY <1>1 DEF IsSum
<1>3. ASSUME NEW k \in 0 .. n PROVE SumTo(f, k) = a[k]
  <2>1. PICK b : IsSum(b, f, k) /\ SumTo(f, k) = b[k]
    BY SumIs
  <2>2. \A m \in 0 .. k : b[m] = IF m = 0 THEN 0 ELSE b[m - 1] + f[m]
    BY <2>1 DEF IsSum
  <2> DEFINE T == {m \in 0 .. k : a[m] # b[m]}
  <2>3. SUFFICES ASSUME T # {} PROVE FALSE
    BY <2>1
  <2>4. PICK m \in T : \A y \in T : m <= y
    <3>1. T \in SUBSET Nat
      OBVIOUS
    <3> HIDE DEF T
    <3> QED BY <3>1, <2>3, LeastElement
  <2>5. m # 0
    BY <2>4, <2>2, <1>2
  <2>6. m - 1 \in 0 .. k /\ m - 1 \notin T /\ m \in 0 .. n
    BY <2>4, <2>5
  <2> QED BY <2>4, <2>5, <2>6, <2>2, <1>2
<1>4. SumTo(f, 0) = 0
  BY <1>2, <1>3
<1>5. n # 0 => SumTo(f, n) = SumTo(f, n - 1) + f[n]
  BY <1>1, <1>2, <1>3
<1> QED BY <1>4, <1>5

\* The sum of a sum.
LEMMA SumPlus ==
  ASSUME NEW f, NEW h, NEW s, NEW n \in Nat,
         \A k \in 1 .. n : f[k] \in Int /\ h[k] \in Int /\ s[k] = f[k] + h[k]
  PROVE  /\ SumTo(f, n) \in Int /\ SumTo(h, n) \in Int
         /\ SumTo(s, n) = SumTo(f, n) + SumTo(h, n)
<1> DEFINE Good(m) == /\ SumTo(f, m) \in Int /\ SumTo(h, m) \in Int
                      /\ SumTo(s, m) = SumTo(f, m) + SumTo(h, m)
           T == {m \in 0 .. n : ~Good(m)}
<1>1. SUFFICES ASSUME T # {} PROVE FALSE
  OBVIOUS
<1>2. PICK m \in T : \A y \in T : m <= y
  <2>1. T \in SUBSET Nat
    OBVIOUS
  <2> HIDE DEF T
  <2> QED BY <2>1, <1>1, LeastElement
<1>3. m \in Nat /\ m # 0
  BY <1>2, SumStep
<1>4. m - 1 \in 0 .. n /\ m - 1 \notin T /\ m \in 1 .. n
  BY <1>2, <1>3
<1>5. Good(m - 1) /\ f[m] \in Int /\ h[m] \in Int /\ s[m] = f[m] + h[m]
  BY <1>4
<1>6. /\ SumTo(f, m) = SumTo(f, m - 1) + f[m]
      /\ SumTo(h, m) = SumTo(h, m - 1) + h[m]
      /\ SumTo(s, m) = SumTo(s, m - 1) + s[m]
  BY <1>3, SumStep
<1>7. Good(m)
  BY <1>5, <1>6
<1> QED BY <1>2, <1>7
=============================================================================
