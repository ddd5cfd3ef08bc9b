--------------------------- MODULE PbCodecProofs ---------------------------
(***************************************************************************)
(* The codec for every width of bytes and integers.                        *)
(***************************************************************************)
EXTENDS PbCodec, SumsProofs, FiniteSetTheorems, SequenceTheorems

-----------------------------------------------------------------------------
(***************************************************************************)
(* Numbers.                                                                *)
(***************************************************************************)
LEMMA Widths ==
  /\ Payload \in Nat \ {0} /\ Int64 \in Nat \ {0} /\ Int32 \in Nat \ {0} /\ Fix64 \in Nat \ {0} /\ Fix32 \in Nat \ {0}
  /\ Int32 > 3 /\ Int64 >= Int32
  /\ Int64 = Fix64 * (Payload + 1) /\ Int32 = Fix32 * (Payload + 1)
BY WidthAssumption

\* Division with remainder.
LEMMA Division ==
  ASSUME NEW a \in Nat, NEW b \in Nat \ {0}
  PROVE  /\ a \div b \in Nat /\ a % b \in 0 .. b - 1
         /\ a = b * (a \div b) + (a % b)
OBVIOUS

LEMMA DivisionIs ==
  ASSUME NEW a \in Nat, NEW b \in Nat \ {0}, NEW q \in Nat, NEW r \in 0 .. b - 1, a = b * q + r
  PROVE  a \div b = q /\ a % b = r
OBVIOUS

LEMMA Products ==
  ASSUME NEW a \in Nat, NEW b \in Nat, NEW c \in Nat
  PROVE  a * b \in Nat /\ (b <= c => a * b <= a * c) /\ a * (b + c) = a * b + a * c
OBVIOUS

\* Powers of two.
LEMMA Pow2Is ==
  \A n \in 0 .. Int64 + Payload : Pow2[n] = IF n = 0 THEN 1 ELSE 2 * Pow2[n-1]
<1> DEFINE IsPow(g, m) == g = [n \in 0 .. m |-> IF n = 0 THEN 1 ELSE 2 * g[n-1]]
           T == {m \in Nat : ~\E g : IsPow(g, m)}
<1>1. T = {}
  <2> SUFFICES ASSUME T # {} PROVE FALSE
    OBVIOUS
  <2>1. PICK m \in T : \A y \in T : m <= y
    BY LeastElement
  <2>2. CASE m = 0
    <3> DEFINE g == [n \in 0 .. 0 |-> 1]
    <3>1. IsPow(g, 0)
      OBVIOUS
    <3> HIDE DEF IsPow
    <3> QED BY <3>1, <2>1, <2>2
  <2>3. CASE m # 0
    <3>1. m - 1 \in Nat /\ m - 1 \notin T
      <4>1. m \in Nat
        BY <2>1
      <4> HIDE DEF T
      <4> QED BY <4>1, <2>1, <2>3
    <3>2. PICK g : IsPow(g, m - 1)
      BY <3>1
    <3> DEFINE h == [n \in 0 .. m |-> IF n = m THEN 2 * g[m-1] ELSE g[n]]
    <3>3. \A n \in 0 .. m - 1 : g[n] = IF n = 0 THEN 1 ELSE 2 * g[n-1]
      BY <3>1, <3>2
    <3>4. ASSUME NEW n \in 0 .. m PROVE h[n] = IF n = 0 THEN 1 ELSE 2 * h[n-1]
      BY <3>1, <3>3, <2>3
    <3>5. IsPow(h, m)
      BY <3>4
    <3> QED BY <3>5, <2>1
  <2> QED BY <2>2, <2>3
<1>2. Int64 + Payload \in Nat
  BY Widths
<1>3. \E g : IsPow(g, Int64 + Payload)
  <2> HIDE DEF IsPow
  <2> QED BY <1>1, <1>2
<1>4. IsPow(Pow2, Int64 + Payload)
  BY <1>3, Zenon DEF Pow2
<1> QED BY <1>4

LEMMA Pow2Nat == \A n \in 0 .. Int64 + Payload : Pow2[n] \in Nat \ {0}
<1> DEFINE W == Int64 + Payload
           T == {n \in 0 .. W : Pow2[n] \notin Nat \ {0}}
<1>1. W \in Nat
  BY Widths
<1> HIDE DEF W
<1>2. T = {}
  <2> SUFFICES ASSUME T # {} PROVE FALSE
    OBVIOUS
  <2>1. PICK m \in T : \A y \in T : m <= y
    <3>1. T \in SUBSET Nat
      BY <1>1
    <3> HIDE DEF T
    <3> QED BY <3>1, LeastElement
  <2>2. m \in 0 .. W /\ Pow2[m] = IF m = 0 THEN 1 ELSE 2 * Pow2[m-1]
    BY Pow2Is DEF W
  <2>3. m # 0
    BY <2>2
  <2>4. m - 1 \in 0 .. W
    BY <2>2, <2>3, <1>1
  <2>5. m - 1 \notin T
    <3> HIDE DEF T
    <3> QED BY <2>1, <2>2, <1>1
  <2>6. Pow2[m-1] \in Nat \ {0}
    BY <2>4, <2>5
  <2>7. Pow2[m] \in Nat \ {0}
    BY <2>2, <2>3, <2>6
  <2> QED BY <2>7
<1> QED BY <1>2 DEF W

LEMMA Pow2Sum ==
  ASSUME NEW a \in Nat, NEW b \in Nat, a + b <= Int64 + Payload
  PROVE  Pow2[a + b] = Pow2[a] * Pow2[b]
<1> DEFINE W == Int64 + Payload
           T == {n \in 0 .. b : Pow2[a + n] # Pow2[a] * Pow2[n]}
<1>1. W \in Nat
  BY Widths
<1>2. \A n \in 0 .. W : Pow2[n] \in Nat \ {0} /\ Pow2[n] = IF n = 0 THEN 1 ELSE 2 * Pow2[n-1]
  BY Pow2Is, Pow2Nat
<1>3. a + b <= W
  OBVIOUS
<1> HIDE DEF W
<1>4. T = {}
  <2> SUFFICES ASSUME T # {} PROVE FALSE
    OBVIOUS
  <2>1. PICK m \in T : \A y \in T : m <= y
    <3>1. T \in SUBSET Nat
      OBVIOUS
    <3> HIDE DEF T
    <3> QED BY <3>1, LeastElement
  <2>2. m \in 0 .. b /\ a + m \in 0 .. W /\ a \in 0 .. W /\ m \in 0 .. W
    BY <1>1, <1>3
  <2>3. m # 0
    <3>1. Pow2[a] \in Nat /\ Pow2[0] = 1
      BY <1>1, <1>2, <2>2
    <3>2. a + 0 = a /\ Pow2[a] * 1 = Pow2[a]
      BY <3>1
    <3> QED BY <3>1, <3>2
  <2>4. m - 1 \in 0 .. b /\ a + (m - 1) \in 0 .. W /\ m - 1 \in 0 .. W /\ (a + m) - 1 = a + (m - 1) /\ a + m # 0
    BY <2>2, <2>3, <1>1
  <2>5. m - 1 \notin T
    <3> HIDE DEF T
    <3> QED BY <2>1, <2>2
  <2>6. Pow2[a + (m - 1)] = Pow2[a] * Pow2[m-1]
    BY <2>4, <2>5
  <2>7. Pow2[a + m] = 2 * Pow2[a + (m - 1)] /\ Pow2[m] = 2 * Pow2[m-1]
    <3>1. Pow2[a + m] = 2 * Pow2[(a + m) - 1]
      BY <2>2, <2>4, <1>2
    <3>2. Pow2[m] = 2 * Pow2[m-1]
      BY <2>2, <2>3, <1>2
    <3> QED BY <3>1, <3>2, <2>4
  <2>8. Pow2[a] \in Nat /\ Pow2[m-1] \in Nat
    BY <2>2, <2>4, <1>2
  <2>9. Pow2[a + m] = Pow2[a] * Pow2[m]
    <3>1. ASSUME NEW x \in Nat, NEW y \in Nat PROVE 2 * (x * y) = x * (2 * y)
      OBVIOUS
    <3> QED BY <3>1, <2>6, <2>7, <2>8
  <2> QED BY <2>9
<1>5. b \notin T
  BY <1>4
<1> QED BY <1>5

LEMMA Pow2Order ==
  ASSUME NEW a \in Nat, NEW b \in Nat, b <= Int64 + Payload
  PROVE  /\ a <= b => Pow2[a] <= Pow2[b]
         /\ a < b => Pow2[a] < Pow2[b] /\ 2 * Pow2[a] <= Pow2[b]
<1>1. Int64 + Payload \in Nat
  BY Widths
<1>2. ASSUME a <= b PROVE Pow2[a] <= Pow2[b]
  <2>1. b - a \in Nat /\ a + (b - a) = b /\ a \in 0 .. Int64 + Payload /\ b - a \in 0 .. Int64 + Payload
    BY <1>1, <1>2
  <2>2. Pow2[b] = Pow2[a] * Pow2[b-a]
    BY <2>1, Pow2Sum
  <2>3. Pow2[a] \in Nat /\ Pow2[b-a] \in Nat \ {0}
    BY <2>1, Pow2Nat
  <2>4. ASSUME NEW x \in Nat, NEW y \in Nat \ {0} PROVE x <= x * y
    OBVIOUS
  <2> QED BY <2>2, <2>3, <2>4
<1>3. ASSUME a < b PROVE Pow2[a] < Pow2[b] /\ 2 * Pow2[a] <= Pow2[b]
  <2>1. b - (a + 1) \in Nat /\ (a + 1) + (b - (a + 1)) = b /\ a + 1 \in 0 .. Int64 + Payload
        /\ b - (a + 1) \in 0 .. Int64 + Payload /\ a \in 0 .. Int64 + Payload /\ a + 1 # 0 /\ (a + 1) - 1 = a
    BY <1>1, <1>3
  <2>2. Pow2[b] = Pow2[a+1] * Pow2[b-(a+1)]
    BY <2>1, Pow2Sum
  <2>3. Pow2[a] \in Nat \ {0} /\ Pow2[a+1] \in Nat \ {0} /\ Pow2[b-(a+1)] \in Nat \ {0}
    BY <2>1, Pow2Nat
  <2>4. Pow2[a+1] = 2 * Pow2[a]
    BY <2>1, Pow2Is
  <2>5. ASSUME NEW x \in Nat, NEW y \in Nat \ {0} PROVE x <= x * y
    OBVIOUS
  <2>6. Pow2[a+1] <= Pow2[b]
    BY <2>2, <2>3, <2>5
  <2>7. Pow2[b] \in Nat
    BY <1>3, <1>1, Pow2Nat
  <2> QED BY <2>3, <2>4, <2>6, <2>7
<1> QED BY <1>2, <1>3

\* What is left of the writer's buffer is its size or less.
LEMMA RoomIs == Room \in Nat /\ Room <= Size /\ Room < Pow2[Int64]
<1> DEFINE b == Pow2[Int32]
           l == Size % b
           h == Pow2[Int32 - 1]
           c == Pow2[Int64]
<1>1. b \in Nat \ {0} /\ h \in Nat /\ c \in Nat
  BY Pow2Nat, Widths
<1>2. Size \in Nat /\ Size < c /\ Room >= 0
  <2>1. Size \in 0 .. c - 1 /\ Room >= 0
    BY LengthAssumption
  <2> HIDE DEF c
  <2> QED BY <1>1, <2>1
<1>3. Room = IF l < h THEN l ELSE l - b
  BY DEF Room, ToInt
<1> HIDE DEF b, h, c
<1>4. l \in 0 .. b - 1 /\ Size = b * (Size \div b) + l /\ Size \div b \in Nat
  BY <1>1, <1>2, Division
<1>5. b * (Size \div b) \in Nat
  BY <1>1, <1>4, Products
<1> HIDE DEF l
<1>6. l < h /\ Room = l
  BY <1>1, <1>2, <1>3, <1>4
<1>7. l <= Size
  BY <1>2, <1>4, <1>5
<1> QED BY <1>1, <1>2, <1>4, <1>6, <1>7 DEF c

\* The longest varint.
LEMMA MaxVintIs ==
  /\ MaxVint \in Nat \ {0}
  /\ Payload * MaxVint >= Int64 /\ Payload * MaxVint <= Int64 + Payload
  /\ \A i \in 0 .. MaxVint : Payload * i \in 0 .. Int64 + Payload
<1> DEFINE a == Int64 + Payload - 1
           n == a \div Payload
<1>1. Payload \in Nat \ {0} /\ Int64 \in Nat \ {0} /\ a \in Nat
  BY Widths
<1>2. n \in Nat /\ a % Payload \in 0 .. Payload - 1 /\ a = Payload * n + (a % Payload)
  <2> HIDE DEF a
  <2> QED BY <1>1, Division
<1>3. MaxVint = n
  BY DEF MaxVint
<1>4. Payload * n \in Nat /\ Payload * n >= Int64 /\ Payload * n <= Int64 + Payload
  <2> HIDE DEF n
  <2> QED BY <1>1, <1>2
<1>5. n # 0
  <2> HIDE DEF n, a
  <2> QED BY <1>1, <1>2, <1>4
<1>6. \A i \in 0 .. n : Payload * i \in Nat /\ Payload * i <= Payload * n
  <2> HIDE DEF n
  <2> QED BY <1>1, <1>2, Products
<1> HIDE DEF n
<1> QED BY <1>1, <1>2, <1>3, <1>4, <1>5, <1>6

-----------------------------------------------------------------------------
(***************************************************************************)
(* What is written.                                                        *)
(***************************************************************************)
\* Number of bytes that pb_add_vint writes.
Used(v) == IF v = 0 THEN 1 ELSE CHOOSE n \in 1 .. MaxVint : v < Pow2[Payload * n] /\ v >= Pow2[Payload * (n - 1)]

LEMMA PayloadPowers ==
  /\ \A i \in 0 .. MaxVint : Pow2[Payload * i] \in Nat \ {0}
  /\ Pow2[Payload] \in Nat \ {0} /\ Pow2[Payload + 1] = 2 * Pow2[Payload]
  /\ Pow2[0] = 1 /\ Payload * 0 = 0
  /\ Pow2[Int64] \in Nat \ {0} /\ Pow2[Int64] <= Pow2[Payload * MaxVint]
  /\ Pow2[Int32] \in Nat \ {0} /\ Pow2[Int32] <= Pow2[Int64]
  /\ Pow2[Int32 - 3] \in Nat \ {0} /\ Pow2[Int32] = 8 * Pow2[Int32 - 3]
<1>1. /\ Payload \in Nat \ {0} /\ Int64 \in Nat \ {0} /\ Int32 \in Nat \ {0} /\ Int32 > 3 /\ Int64 >= Int32
      /\ MaxVint \in Nat \ {0} /\ Payload * MaxVint \in 0 .. Int64 + Payload /\ Payload * MaxVint >= Int64
  BY Widths, MaxVintIs
<1>2. \A i \in 0 .. MaxVint : Pow2[Payload * i] \in Nat \ {0}
  BY MaxVintIs, Pow2Nat
<1>3. Pow2[Payload] \in Nat \ {0} /\ Pow2[Payload + 1] = 2 * Pow2[Payload]
  <2>1. Payload \in 0 .. Int64 + Payload /\ Payload + 1 \in 0 .. Int64 + Payload /\ Payload + 1 # 0 /\ (Payload + 1) - 1 = Payload
    BY <1>1
  <2> QED BY <2>1, Pow2Nat, Pow2Is
<1>4. Pow2[0] = 1 /\ Payload * 0 = 0
  BY <1>1, Pow2Is
<1>5. Pow2[Int64] \in Nat \ {0} /\ Pow2[Int64] <= Pow2[Payload * MaxVint]
  <2>1. Int64 \in 0 .. Int64 + Payload
    BY <1>1
  <2>2. Pow2[Int64] \in Nat \ {0}
    BY <2>1, Pow2Nat
  <2>3. Pow2[Int64] <= Pow2[Payload * MaxVint]
    <3> DEFINE b == Payload * MaxVint
    <3>1. b \in Nat /\ b <= Int64 + Payload /\ Int64 <= b /\ Int64 \in Nat
      BY <1>1
    <3> HIDE DEF b
    <3>2. Pow2[Int64] <= Pow2[b]
      BY <3>1, Pow2Order
    <3> QED BY <3>2 DEF b
  <2> QED BY <2>2, <2>3
<1>6. Pow2[Int32] \in Nat \ {0} /\ Pow2[Int32] <= Pow2[Int64]
  <2>1. Int32 \in 0 .. Int64 + Payload /\ Int32 \in Nat /\ Int64 \in Nat /\ Int64 <= Int64 + Payload
    BY <1>1
  <2> QED BY <2>1, <1>1, Pow2Nat, Pow2Order
<1>7. Pow2[Int32 - 3] \in Nat \ {0} /\ Pow2[Int32] = 8 * Pow2[Int32 - 3]
  <2> DEFINE a == Int32 - 3
  <2>1. a \in 0 .. Int64 + Payload /\ a + 1 \in 0 .. Int64 + Payload /\ a + 2 \in 0 .. Int64 + Payload /\ a + 3 \in 0 .. Int64 + Payload
        /\ a + 1 # 0 /\ a + 2 # 0 /\ a + 3 # 0
        /\ (a + 1) - 1 = a /\ (a + 2) - 1 = a + 1 /\ (a + 3) - 1 = a + 2 /\ a + 3 = Int32
    BY <1>1
  <2> HIDE DEF a
  <2>2. Pow2[a+1] = 2 * Pow2[a] /\ Pow2[a+2] = 2 * Pow2[a+1] /\ Pow2[a+3] = 2 * Pow2[a+2] /\ Pow2[a] \in Nat \ {0}
    BY <2>1, Pow2Nat, Pow2Is
  <2>3. Pow2[Int32] = 8 * Pow2[a] /\ Pow2[a] \in Nat \ {0}
    BY <2>1, <2>2
  <2> QED BY <2>3 DEF a
<1> QED BY <1>2, <1>3, <1>4, <1>5, <1>6, <1>7

LEMMA UsedIs ==
  ASSUME NEW v \in 0 .. Pow2[Int64] - 1
  PROVE  /\ Used(v) \in 1 .. MaxVint /\ v < Pow2[Payload * Used(v)]
         /\ v # 0 => v >= Pow2[Payload * (Used(v) - 1)]
         /\ v = 0 => Used(v) = 1
<1>1. /\ MaxVint \in Nat \ {0} /\ \A i \in 0 .. MaxVint : Pow2[Payload * i] \in Nat \ {0}
      /\ Pow2[Int64] \in Nat \ {0} /\ Pow2[Int64] <= Pow2[Payload * MaxVint]
      /\ Pow2[0] = 1 /\ Payload * 0 = 0
  BY PayloadPowers, MaxVintIs
<1>2. v \in Nat /\ v < Pow2[Payload * MaxVint]
  <2>1. Pow2[Payload * MaxVint] \in Nat
    BY <1>1
  <2> QED BY <1>1, <2>1
<1>3. CASE v = 0
  <2>1. Used(v) = 1 /\ 1 \in 0 .. MaxVint
    BY <1>1, <1>3 DEF Used
  <2>2. Pow2[Payload * 1] \in Nat \ {0}
    BY <1>1, <2>1
  <2> QED BY <1>1, <1>3, <2>1, <2>2
<1>4. CASE v # 0
  <2> DEFINE T == {n \in 0 .. MaxVint : v < Pow2[Payload * n]}
  <2>1. MaxVint \in T /\ T \in SUBSET Nat
    BY <1>1, <1>2
  <2>2. PICK m \in T : \A y \in T : m <= y
    <3> HIDE DEF T
    <3> QED BY <2>1, LeastElement
  <2>3. m \in 0 .. MaxVint /\ v < Pow2[Payload * m]
    OBVIOUS
  <2>4. m # 0
    BY <2>3, <1>1, <1>2, <1>4
  <2>5. m - 1 \in 0 .. MaxVint /\ m \in 1 .. MaxVint
    BY <2>3, <2>4, <1>1
  <2>6. m - 1 \notin T
    <3> HIDE DEF T
    <3> QED BY <2>2, <2>3
  <2>7. Pow2[Payload * (m - 1)] \in Nat
    BY <1>1, <2>5
  <2>8. v >= Pow2[Payload * (m - 1)]
    <3>1. ~(v < Pow2[Payload * (m - 1)])
      BY <2>5, <2>6
    <3> QED BY <3>1, <2>7, <1>2
  <2>9. Used(v) \in 1 .. MaxVint /\ v < Pow2[Payload * Used(v)] /\ v >= Pow2[Payload * (Used(v) - 1)]
    <3>1. Used(v) = CHOOSE n \in 1 .. MaxVint : v < Pow2[Payload * n] /\ v >= Pow2[Payload * (n - 1)]
      BY <1>4, Zenon DEF Used
    <3>2. \E n \in 1 .. MaxVint : v < Pow2[Payload * n] /\ v >= Pow2[Payload * (n - 1)]
      BY <2>3, <2>5, <2>8
    <3> QED BY <3>1, <3>2, Zenon
  <2> QED BY <2>9, <1>4
<1> QED BY <1>3, <1>4

LEMMA VintBytesIs ==
  ASSUME NEW v
  PROVE  VintBytes(v) = [i \in 1 .. Used(v) |-> ((v \div Pow2[Payload * (i - 1)]) % Pow2[Payload])
                                                + (IF i < Used(v) THEN Pow2[Payload] ELSE 0)]
BY Zenon DEF VintBytes, Used

LEMMA VintBytesOK ==
  ASSUME NEW v \in 0 .. Pow2[Int64] - 1
  PROVE  VintBytes(v) \in Seq(Bytes) /\ Len(VintBytes(v)) = Used(v)
<1>1. /\ Used(v) \in 1 .. MaxVint /\ MaxVint \in Nat /\ Used(v) \in Nat /\ v \in Nat
      /\ Pow2[Payload] \in Nat \ {0} /\ Bytes = 0 .. 2 * Pow2[Payload] - 1
      /\ \A i \in 0 .. MaxVint : Pow2[Payload * i] \in Nat \ {0}
  BY UsedIs, MaxVintIs, PayloadPowers DEF Bytes
<1> DEFINE u == Used(v)
           B(i) == ((v \div Pow2[Payload * (i - 1)]) % Pow2[Payload]) + (IF i < u THEN Pow2[Payload] ELSE 0)
<1>2. ASSUME NEW i \in 1 .. u PROVE B(i) \in Bytes
  <2>1. i - 1 \in 0 .. MaxVint
    BY <1>1
  <2>2. Pow2[Payload * (i - 1)] \in Nat \ {0}
    BY <2>1, <1>1
  <2>3. v \div Pow2[Payload * (i - 1)] \in Nat
    BY <2>2, <1>1, Division
  <2>4. (v \div Pow2[Payload * (i - 1)]) % Pow2[Payload] \in 0 .. Pow2[Payload] - 1
    BY <2>3, <1>1, Division
  <2> QED BY <2>4, <1>1
<1>3. VintBytes(v) = [i \in 1 .. u |-> B(i)]
  BY VintBytesIs
<1>4. u \in Nat
  BY <1>1
<1> HIDE DEF B, u
<1>5. [i \in 1 .. u |-> B(i)] \in Seq(Bytes) /\ Len([i \in 1 .. u |-> B(i)]) = u
  BY <1>2, <1>4
<1> QED BY <1>3, <1>5 DEF u

LEMMA FixOrder == Fix32 \in Nat /\ Fix64 \in Nat /\ Fix32 <= Fix64
<1> DEFINE p == Payload + 1
<1>1. p \in Nat \ {0} /\ Fix32 \in Nat /\ Fix64 \in Nat /\ Fix64 * p >= Fix32 * p
  BY Widths
<1> HIDE DEF p
<1>2. ASSUME NEW a \in Nat, NEW b \in Nat, NEW c \in Nat \ {0}, a * c >= b * c PROVE b <= a
  BY <1>2
<1> QED BY <1>1, <1>2

LEMMA FixBytesOK ==
  ASSUME NEW v \in Nat, NEW n \in Nat, n <= Fix64
  PROVE  FixBytes(v, n) \in Seq(Bytes) /\ Len(FixBytes(v, n)) = n
<1>1. /\ Payload + 1 \in Nat /\ Fix64 \in Nat /\ (Payload + 1) * Fix64 <= Int64 + Payload
      /\ Bytes = 0 .. Pow2[Payload + 1] - 1 /\ Payload + 1 \in 0 .. Int64 + Payload
  BY Widths DEF Bytes
<1> DEFINE p == Payload + 1
           B(i) == (v \div Pow2[p * (i - 1)]) % Pow2[p]
<1>2. Pow2[p] \in Nat \ {0}
  BY <1>1, Pow2Nat
<1>3. ASSUME NEW i \in 1 .. n PROVE B(i) \in Bytes
  <2>1. i - 1 \in Nat /\ i - 1 <= Fix64
    BY <1>1
  <2>2. p * (i - 1) \in Nat /\ p * (i - 1) <= p * Fix64
    <3>1. p \in Nat
      BY <1>1
    <3> DEFINE j == i - 1
    <3>2. j \in Nat /\ j <= Fix64
      BY <2>1
    <3> HIDE DEF p, j
    <3>3. p * j \in Nat /\ p * j <= p * Fix64
      BY <3>1, <3>2, <1>1, Products
    <3> QED BY <3>3 DEF j
  <2>3. p * (i - 1) \in 0 .. Int64 + Payload
    BY <2>2, <1>1, Widths
  <2>4. Pow2[p * (i - 1)] \in Nat \ {0}
    BY <2>3, Pow2Nat
  <2>5. v \div Pow2[p * (i - 1)] \in Nat
    BY <2>4, Division
  <2>6. B(i) \in 0 .. Pow2[p] - 1
    <3> DEFINE q == v \div Pow2[p * (i - 1)]
    <3> HIDE DEF q
    <3>1. q \in Nat
      BY <2>5 DEF q
    <3>2. q % Pow2[p] \in 0 .. Pow2[p] - 1
      BY <3>1, <1>2, Division
    <3> QED BY <3>2 DEF q
  <2> QED BY <2>6, <1>1
<1>4. FixBytes(v, n) = [i \in 1 .. n |-> B(i)]
  BY DEF FixBytes
<1> HIDE DEF B
<1>5. [i \in 1 .. n |-> B(i)] \in Seq(Bytes) /\ Len([i \in 1 .. n |-> B(i)]) = n
  BY <1>3
<1> QED BY <1>4, <1>5

-----------------------------------------------------------------------------
(***************************************************************************)
(* Sequences of sequences.                                                 *)
(***************************************************************************)
\* A part of a sequence.
LEMMA Part ==
  ASSUME NEW S, NEW s \in Seq(S), NEW a \in Nat, NEW n \in Nat, a + n <= Len(s)
  PROVE  /\ SubSeq(s, a + 1, a + n) \in Seq(S) /\ Len(SubSeq(s, a + 1, a + n)) = n
         /\ \A i \in 1 .. n : SubSeq(s, a + 1, a + n)[i] = s[a + i]
<1>1. /\ SubSeq(s, a + 1, a + n) \in Seq(S)
      /\ Len(SubSeq(s, a + 1, a + n)) = IF a + 1 <= a + n THEN (a + n) - (a + 1) + 1 ELSE 0
      /\ \A i \in 1 .. (a + n) - (a + 1) + 1 : SubSeq(s, a + 1, a + n)[i] = s[(a + 1) + i - 1]
  <2>1. a + 1 \in Int /\ a + n \in Int /\ \A i \in a + 1 .. a + n : s[i] \in S
    OBVIOUS
  <2> DEFINE p == a + 1
             q == a + n
  <2> HIDE DEF p, q
  <2>2. p \in Int /\ q \in Int /\ \A i \in p .. q : s[i] \in S
    BY <2>1 DEF p, q
  <2>3. SubSeq(s, p, q) \in Seq(S) /\ Len(SubSeq(s, p, q)) = (IF p <= q THEN q - p + 1 ELSE 0)
        /\ \A i \in 1 .. q - p + 1 : SubSeq(s, p, q)[i] = s[p + i - 1]
    BY <2>2, SubSeqProperties
  <2> QED BY <2>3 DEF p, q
<1> DEFINE u == SubSeq(s, a + 1, a + n)
<1> HIDE DEF u
<1>2. /\ u \in Seq(S) /\ Len(u) = IF a + 1 <= a + n THEN (a + n) - (a + 1) + 1 ELSE 0
      /\ \A i \in 1 .. (a + n) - (a + 1) + 1 : u[i] = s[(a + 1) + i - 1]
  BY <1>1 DEF u
<1>3. Len(u) = n /\ (a + n) - (a + 1) + 1 = n
  BY <1>2
<1>4. \A i \in 1 .. n : (a + 1) + i - 1 = a + i
  OBVIOUS
<1>5. u \in Seq(S) /\ Len(u) = n /\ \A i \in 1 .. n : u[i] = s[a + i]
  BY <1>2, <1>3, <1>4
<1> QED BY <1>5 DEF u

LEMMA Prefix ==
  ASSUME NEW S, NEW s \in Seq(S), NEW n \in 0 .. Len(s)
  PROVE  /\ SubSeq(s, 1, n) \in Seq(S) /\ Len(SubSeq(s, 1, n)) = n
         /\ \A i \in 1 .. n : SubSeq(s, 1, n)[i] = s[i]
<1>1. 0 \in Nat /\ n \in Nat /\ 0 + n <= Len(s) /\ 0 + 1 = 1 /\ 0 + n = n /\ \A i \in 1 .. n : 0 + i = i
  OBVIOUS
<1>2. /\ SubSeq(s, 0 + 1, 0 + n) \in Seq(S) /\ Len(SubSeq(s, 0 + 1, 0 + n)) = n
      /\ \A i \in 1 .. n : SubSeq(s, 0 + 1, 0 + n)[i] = s[0 + i]
  BY <1>1, Part
<1> QED BY <1>1, <1>2

\* g joins the first m elements of cs.
IsFlat(g, cs, m) == g = [i \in 1 .. m |-> IF i = 1 THEN cs[i] ELSE g[i-1] \o cs[i]]

LEMMA FlatExists ==
  ASSUME NEW cs, NEW n \in Nat
  PROVE  \E g : IsFlat(g, cs, n)
<1> DEFINE T == {m \in Nat : ~\E g : IsFlat(g, cs, m)}
<1> SUFFICES ASSUME T # {} PROVE FALSE
  OBVIOUS
<1>1. PICK m \in T : \A y \in T : m <= y
  BY LeastElement
<1>2. CASE m = 0
  <2> DEFINE g == [k \in 1 .. 0 |-> 0]
  <2>1. IsFlat(g, cs, 0)
    BY DEF IsFlat
  <2> QED BY <2>1, <1>1, <1>2
<1>3. CASE m # 0
  <2>1. m - 1 \in Nat /\ m - 1 \notin T
    BY <1>1, <1>3
  <2>2. PICK g : IsFlat(g, cs, m - 1)
    BY <2>1
  <2> DEFINE h == [k \in 1 .. m |-> IF k = m /\ m # 1 THEN g[m - 1] \o cs[m] ELSE IF k = 1 THEN cs[1] ELSE g[k]]
  <2>3. \A k \in 1 .. m - 1 : g[k] = IF k = 1 THEN cs[k] ELSE g[k - 1] \o cs[k]
    BY <2>1, <2>2 DEF IsFlat
  <2>4. ASSUME NEW k \in 1 .. m
        PROVE  h[k] = IF k = 1 THEN cs[k] ELSE h[k - 1] \o cs[k]
    <3>1. CASE k = 1
      BY <3>1
    <3>2. CASE k # 1
      <4>1. k - 1 \in 1 .. m /\ k - 1 # m /\ k - 1 \in 1 .. m - 1
        BY <3>2, <2>1
      <4>2. h[k-1] = g[k-1]
        BY <4>1, <2>3
      <4>3. CASE k = m
        BY <4>3, <4>2, <3>2
      <4>4. CASE k # m
        <5>1. k \in 1 .. m - 1
          BY <4>4, <2>1
        <5> QED BY <5>1, <4>4, <4>2, <3>2, <2>3
      <4> QED BY <4>3, <4>4
    <3> QED BY <3>1, <3>2
  <2>5. IsFlat(h, cs, m)
    BY <2>4 DEF IsFlat
  <2> QED BY <2>5, <1>1
<1> QED BY <1>2, <1>3

LEMMA FlatIs ==
  ASSUME NEW S, NEW cs \in Seq(S), Len(cs) # 0
  PROVE  \E g : IsFlat(g, cs, Len(cs)) /\ FlattenSeq(cs) = g[Len(cs)]
<1> DEFINE g == CHOOSE h : IsFlat(h, cs, Len(cs))
<1>1. IsFlat(g, cs, Len(cs))
  <2>1. Len(cs) \in Nat
    OBVIOUS
  <2> QED BY <2>1, FlatExists, Zenon
<1>2. FlattenSeq(cs) = g[Len(cs)]
  BY Zenon DEF FlattenSeq, IsFlat
<1> QED BY <1>1, <1>2

\* The elements of g, for sequences of bytes.
LEMMA FlatType ==
  ASSUME NEW S, NEW cs \in Seq(Seq(S)), NEW m \in 0 .. Len(cs), NEW g, IsFlat(g, cs, m)
  PROVE  \A i \in 1 .. m : g[i] \in Seq(S)
<1>1. \A i \in 1 .. m : g[i] = IF i = 1 THEN cs[i] ELSE g[i-1] \o cs[i]
  BY DEF IsFlat
<1>2. Len(cs) \in Nat /\ \A i \in 1 .. m : cs[i] \in Seq(S)
  <2> DEFINE R == Seq(S)
  <2> HIDE DEF R
  <2>1. cs \in Seq(R)
    BY DEF R
  <2>2. Len(cs) \in Nat /\ \A i \in 1 .. m : cs[i] \in R
    BY <2>1
  <2> QED BY <2>2 DEF R
<1> DEFINE T == {i \in 1 .. m : g[i] \notin Seq(S)}
<1> SUFFICES ASSUME T # {} PROVE FALSE
  OBVIOUS
<1>3. PICK i \in T : \A y \in T : i <= y
  <2>1. T \in SUBSET Nat
    BY <1>2
  <2> HIDE DEF T
  <2> QED BY <2>1, LeastElement
<1>4. i \in 1 .. m /\ g[i] \notin Seq(S) /\ i \in Nat
  BY <1>2
<1>5. i # 1
  BY <1>1, <1>2, <1>4
<1>6. i - 1 \in 1 .. m /\ i - 1 \notin T
  <2> HIDE DEF T
  <2> QED BY <1>2, <1>3, <1>4, <1>5
<1>7. g[i-1] \in Seq(S)
  BY <1>6
<1>8. g[i] = g[i-1] \o cs[i] /\ cs[i] \in Seq(S)
  BY <1>1, <1>2, <1>4, <1>5
<1>9. g[i-1] \o cs[i] \in Seq(S)
  BY <1>7, <1>8, ConcatProperties
<1> QED BY <1>4, <1>8, <1>9

\* Two functions that join the same elements.
LEMMA FlatEqual ==
  ASSUME NEW cs, NEW ds, NEW m \in Nat, NEW n \in Nat, NEW g, NEW h,
         m <= n, IsFlat(g, cs, m), IsFlat(h, ds, n),
         \A i \in 1 .. m : cs[i] = ds[i]
  PROVE  \A i \in 1 .. m : g[i] = h[i]
<1>1. \A i \in 1 .. m : g[i] = IF i = 1 THEN cs[i] ELSE g[i-1] \o cs[i]
  BY DEF IsFlat
<1>2. \A i \in 1 .. m : h[i] = IF i = 1 THEN ds[i] ELSE h[i-1] \o ds[i]
  <2>1. \A i \in 1 .. n : h[i] = IF i = 1 THEN ds[i] ELSE h[i-1] \o ds[i]
    BY DEF IsFlat
  <2>2. \A i \in 1 .. m : i \in 1 .. n
    OBVIOUS
  <2> QED BY <2>1, <2>2
<1> DEFINE T == {i \in 1 .. m : g[i] # h[i]}
<1> SUFFICES ASSUME T # {} PROVE FALSE
  OBVIOUS
<1>3. PICK i \in T : \A y \in T : i <= y
  <2>1. T \in SUBSET Nat
    OBVIOUS
  <2> HIDE DEF T
  <2> QED BY <2>1, LeastElement
<1>4. i \in 1 .. m /\ g[i] # h[i] /\ i \in Nat
  OBVIOUS
<1>5. i # 1
  BY <1>1, <1>2, <1>4
<1>6. i - 1 \in 1 .. m /\ i - 1 \notin T
  <2> HIDE DEF T
  <2> QED BY <1>3, <1>4, <1>5
<1>7. g[i-1] = h[i-1]
  BY <1>6
<1>8. g[i] = g[i-1] \o cs[i] /\ h[i] = h[i-1] \o ds[i] /\ cs[i] = ds[i]
  BY <1>1, <1>2, <1>4, <1>5
<1> QED BY <1>4, <1>7, <1>8

\* x joins the first n elements of cs.
Joined(x, cs, n) == \E g : IsFlat(g, cs, n) /\ x = g[n]

LEMMA FlatStep ==
  ASSUME NEW cs, NEW ds, NEW n \in Nat, NEW x, NEW y, n > 1, Joined(x, cs, n), Joined(y, ds, n - 1),
         \A i \in 1 .. n - 1 : ds[i] = cs[i]
  PROVE  x = y \o cs[n]
<1>a. PICK g : IsFlat(g, cs, n) /\ x = g[n]
  BY DEF Joined
<1>b. PICK h : IsFlat(h, ds, n - 1) /\ y = h[n - 1]
  BY DEF Joined
<1> DEFINE k == n - 1
<1>1. k \in Nat /\ k <= n /\ k \in 1 .. k /\ IsFlat(h, ds, k) /\ \A i \in 1 .. k : ds[i] = cs[i]
  BY <1>b
<1>2. h[k] = g[k]
  <2> HIDE DEF k
  <2>1. \A i \in 1 .. k : h[i] = g[i]
    BY <1>1, <1>a, FlatEqual
  <2> QED BY <2>1, <1>1
<1>3. \A i \in 1 .. n : g[i] = IF i = 1 THEN cs[i] ELSE g[i-1] \o cs[i]
  BY <1>a DEF IsFlat
<1>4. g[n] = g[k] \o cs[n]
  <2>1. n \in 1 .. n /\ n # 1
    OBVIOUS
  <2>2. g[n] = IF n = 1 THEN cs[n] ELSE g[n-1] \o cs[n]
    BY <1>3, <2>1
  <2> QED BY <2>1, <2>2
<1> QED BY <1>a, <1>b, <1>2, <1>4

LEMMA FlattenMore ==
  ASSUME NEW R, NEW cs \in Seq(R), Len(cs) > 1
  PROVE  FlattenSeq(cs) = FlattenSeq(SubSeq(cs, 1, Len(cs) - 1)) \o cs[Len(cs)]
<1> DEFINE n == Len(cs)
           k == n - 1
           ds == SubSeq(cs, 1, k)
<1>1. n \in Nat /\ n > 1 /\ k \in Nat /\ k # 0 /\ k <= n /\ k \in 0 .. Len(cs)
  <2>1. n \in Nat /\ n > 1
    BY LenProperties
  <2> HIDE DEF n
  <2>2. k \in Nat /\ k # 0 /\ k <= n /\ k \in 0 .. n
    BY <2>1
  <2> QED BY <2>1, <2>2 DEF n
<1>2. ds \in Seq(R) /\ Len(ds) = k /\ \A i \in 1 .. k : ds[i] = cs[i]
  <2> HIDE DEF k
  <2> QED BY <1>1, Prefix
<1>3. PICK g : IsFlat(g, cs, n) /\ FlattenSeq(cs) = g[n]
  <2>1. Len(cs) # 0
    BY <1>1
  <2> QED BY <2>1, FlatIs
<1>4. PICK h : IsFlat(h, ds, k) /\ FlattenSeq(ds) = h[k]
  <2> HIDE DEF ds, k
  <2>1. Len(ds) # 0
    BY <1>1, <1>2
  <2>2. \E h : IsFlat(h, ds, Len(ds)) /\ FlattenSeq(ds) = h[Len(ds)]
    BY <1>2, <2>1, FlatIs
  <2> QED BY <2>2, <1>2
<1>5. FlattenSeq(cs) = FlattenSeq(ds) \o cs[n]
  <2> DEFINE x == FlattenSeq(cs)
             y == FlattenSeq(ds)
  <2>1. Joined(x, cs, n) /\ Joined(y, ds, n - 1) /\ \A i \in 1 .. n - 1 : ds[i] = cs[i]
    BY <1>2, <1>3, <1>4 DEF Joined
  <2> HIDE DEF ds, n, x, y
  <2>2. x = y \o cs[n]
    BY <1>1, <2>1, FlatStep
  <2> QED BY <2>2 DEF x, y
<1> QED BY <1>5

LEMMA Flatten ==
  ASSUME NEW S, NEW cs \in Seq(Seq(S))
  PROVE  /\ FlattenSeq(cs) \in Seq(S)
         /\ Len(cs) = 0 => FlattenSeq(cs) = <<>>
         /\ Len(cs) # 0 => FlattenSeq(cs) = FlattenSeq(SubSeq(cs, 1, Len(cs) - 1)) \o cs[Len(cs)]
<1>0. Len(cs) \in Nat /\ \A i \in 1 .. Len(cs) : cs[i] \in Seq(S)
  <2> DEFINE R == Seq(S)
  <2> HIDE DEF R
  <2>1. cs \in Seq(R)
    BY DEF R
  <2>2. Len(cs) \in Nat /\ \A i \in 1 .. Len(cs) : cs[i] \in R
    BY <2>1
  <2> QED BY <2>2 DEF R
<1>1. CASE Len(cs) = 0
  <2>1. cs = <<>>
    BY <1>1, EmptySeq
  <2>2. FlattenSeq(cs) = cs
    BY <1>1, Zenon DEF FlattenSeq
  <2>3. <<>> \in Seq(S)
    BY EmptySeq
  <2> QED BY <1>1, <2>1, <2>2, <2>3
<1>2. CASE Len(cs) # 0
  <2> DEFINE n == Len(cs)
             ds == SubSeq(cs, 1, n - 1)
  <2>1. n \in Nat \ {0} /\ n \in 1 .. n /\ n \in 0 .. Len(cs)
    BY <1>0, <1>2
  <2>2. PICK g : IsFlat(g, cs, n) /\ FlattenSeq(cs) = g[n]
    BY <1>2, FlatIs
  <2>3. \A i \in 1 .. n : g[i] \in Seq(S)
    BY <2>1, <2>2, FlatType
  <2>4. FlattenSeq(cs) \in Seq(S)
    BY <2>1, <2>2, <2>3
  <2>5. g[n] = IF n = 1 THEN cs[n] ELSE g[n-1] \o cs[n]
    BY <2>1, <2>2 DEF IsFlat
  <2>6. ds \in Seq(Seq(S)) /\ Len(ds) = n - 1 /\ \A i \in 1 .. n - 1 : ds[i] = cs[i]
    <3>1. n - 1 \in Nat /\ n - 1 <= Len(cs) /\ 1 <= Len(cs) + 1
      BY <2>1
    <3> DEFINE R == Seq(S)
    <3> HIDE DEF R
    <3>2. cs \in Seq(R)
      BY DEF R
    <3>3. ds \in Seq(R) /\ Len(ds) = n - 1 /\ \A i \in 1 .. n - 1 : ds[i] = cs[i]
      <4>1. n - 1 \in 0 .. Len(cs)
        BY <3>1
      <4> QED BY <4>1, <3>2, Prefix
    <3> QED BY <3>3 DEF R
  <2>7. FlattenSeq(cs) = FlattenSeq(ds) \o cs[n]
    <3> HIDE DEF ds
    <3>1. CASE n = 1
      <4>1. ds = <<>>
        BY <3>1, <2>6, EmptySeq
      <4>2. FlattenSeq(ds) = <<>>
        <5>1. Len(ds) = 0
          BY <3>1, <2>6
        <5>2. FlattenSeq(ds) = ds
          BY <5>1, Zenon DEF FlattenSeq
        <5> QED BY <5>2, <4>1
      <4>3. cs[n] \in Seq(S)
        BY <1>0, <2>1
      <4>4. <<>> \o cs[n] = cs[n]
        BY <4>3, ConcatEmptySeq
      <4> QED BY <3>1, <2>2, <2>5, <4>2, <4>4
    <3>2. CASE n # 1
      <4>1. Len(cs) > 1
        <5>1. n \in Nat /\ n # 0 /\ n # 1
          BY <3>2, <2>1
        <5> HIDE DEF n
        <5>2. n > 1
          BY <5>1
        <5> QED BY <5>2 DEF n
      <4> QED BY <4>1, FlattenMore DEF ds
    <3> QED BY <3>1, <3>2
  <2> QED BY <1>2, <2>4, <2>7
<1> QED BY <1>1, <1>2

\* The last element of cs is c, ds are the ones before it.
Ends(cs, ds, c) == Len(cs) # 0 /\ cs[Len(cs)] = c /\ SubSeq(cs, 1, Len(cs) - 1) = ds

LEMMA FlattenLast ==
  ASSUME NEW S, NEW cs, NEW ds, NEW c, cs \in Seq(Seq(S)), Ends(cs, ds, c)
  PROVE  FlattenSeq(cs) = FlattenSeq(ds) \o c
<1>1. FlattenSeq(cs) = FlattenSeq(SubSeq(cs, 1, Len(cs) - 1)) \o cs[Len(cs)]
  BY Flatten DEF Ends
<1> QED BY <1>1 DEF Ends

LEMMA Tuples ==
  ASSUME NEW R, NEW x \in R, NEW y \in R, NEW z \in R
  PROVE  /\ <<x>> \in Seq(R) /\ Len(<<x>>) = 1 /\ <<x>>[1] = x /\ SubSeq(<<x>>, 1, 0) = <<>>
         /\ <<x, y>> \in Seq(R) /\ Len(<<x, y>>) = 2 /\ <<x, y>>[2] = y /\ SubSeq(<<x, y>>, 1, 1) = <<x>>
         /\ <<x, y, z>> \in Seq(R) /\ Len(<<x, y, z>>) = 3 /\ <<x, y, z>>[3] = z /\ SubSeq(<<x, y, z>>, 1, 2) = <<x, y>>
<1>1. SubSeq(<<x>>, 1, 0) = <<>>
  BY SubSeqEmpty
<1>2. /\ <<x>> \in Seq(R) /\ Len(<<x>>) = 1 /\ <<x>>[1] = x
      /\ <<x, y>> \in Seq(R) /\ Len(<<x, y>>) = 2 /\ <<x, y>>[2] = y /\ <<x, y>>[1] = x
      /\ <<x, y, z>> \in Seq(R) /\ Len(<<x, y, z>>) = 3 /\ <<x, y, z>>[3] = z /\ <<x, y, z>>[1] = x /\ <<x, y, z>>[2] = y
  OBVIOUS
<1>3. SubSeq(<<x, y>>, 1, 1) = <<x>>
  <2> DEFINE s == <<x, y>>
             t == <<x>>
             u == SubSeq(s, 1, 1)
  <2>1. s \in Seq(R) /\ 1 \in 0 .. Len(s) /\ t \in Seq(R) /\ Len(t) = 1 /\ s[1] = x /\ t[1] = x
    BY <1>2
  <2> HIDE DEF s, t
  <2>2. u \in Seq(R) /\ Len(u) = 1 /\ \A i \in 1 .. 1 : u[i] = s[i]
    BY <2>1, Prefix
  <2> HIDE DEF u
  <2>3. \A i \in 1 .. Len(u) : u[i] = t[i]
    <3>1. \A i \in 1 .. 1 : i = 1
      OBVIOUS
    <3> QED BY <3>1, <2>1, <2>2
  <2>4. u = t
    BY <2>1, <2>2, <2>3, SeqEqual
  <2> QED BY <2>4 DEF u, s, t
<1>4. SubSeq(<<x, y, z>>, 1, 2) = <<x, y>>
  <2> DEFINE s == <<x, y, z>>
             t == <<x, y>>
             u == SubSeq(s, 1, 2)
  <2>1. s \in Seq(R) /\ 2 \in 0 .. Len(s) /\ t \in Seq(R) /\ Len(t) = 2 /\ s[1] = x /\ t[1] = x /\ s[2] = y /\ t[2] = y
    BY <1>2
  <2> HIDE DEF s, t
  <2>2. u \in Seq(R) /\ Len(u) = 2 /\ \A i \in 1 .. 2 : u[i] = s[i]
    BY <2>1, Prefix
  <2> HIDE DEF u
  <2>3. \A i \in 1 .. Len(u) : u[i] = t[i]
    <3>1. \A i \in 1 .. 2 : i = 1 \/ i = 2
      OBVIOUS
    <3> QED BY <3>1, <2>1, <2>2
  <2>4. u = t
    BY <2>1, <2>2, <2>3, SeqEqual
  <2> QED BY <2>4 DEF u, s, t
<1> QED BY <1>1, <1>2, <1>3, <1>4

LEMMA TupleConcat ==
  ASSUME NEW a, NEW b, NEW c
  PROVE  <<a>> \o <<b>> = <<a, b>> /\ <<a>> \o <<b, c>> = <<a, b, c>>
<1> DEFINE R == {a, b, c}
           A == <<a>>
           B == <<b>>
           C == <<b, c>>
           D == <<a, b>>
           E == <<a, b, c>>
<1>1. /\ A \in Seq(R) /\ Len(A) = 1 /\ A[1] = a
      /\ B \in Seq(R) /\ Len(B) = 1 /\ B[1] = b
      /\ C \in Seq(R) /\ Len(C) = 2 /\ C[1] = b /\ C[2] = c
      /\ D \in Seq(R) /\ Len(D) = 2 /\ D[1] = a /\ D[2] = b
      /\ E \in Seq(R) /\ Len(E) = 3 /\ E[1] = a /\ E[2] = b /\ E[3] = c
  <2>1. a \in R /\ b \in R /\ c \in R
    OBVIOUS
  <2> HIDE DEF R
  <2> QED BY <2>1
<1> HIDE DEF R, A, B, C, D, E
<1>2. A \o B \in Seq(R) /\ Len(A \o B) = 2 /\ \A i \in 1 .. 2 : (A \o B)[i] = D[i]
  <2>1. A \o B \in Seq(R) /\ Len(A \o B) = Len(A) + Len(B)
        /\ \A i \in 1 .. Len(A) + Len(B) : (A \o B)[i] = IF i <= Len(A) THEN A[i] ELSE B[i - Len(A)]
    BY <1>1, ConcatProperties
  <2>2. \A i \in 1 .. 2 : i = 1 \/ i = 2
    OBVIOUS
  <2>3. (A \o B)[1] = D[1] /\ (A \o B)[2] = D[2]
    BY <1>1, <2>1
  <2> QED BY <1>1, <2>1, <2>2, <2>3
<1>3. A \o C \in Seq(R) /\ Len(A \o C) = 3 /\ \A i \in 1 .. 3 : (A \o C)[i] = E[i]
  <2>1. A \o C \in Seq(R) /\ Len(A \o C) = Len(A) + Len(C)
        /\ \A i \in 1 .. Len(A) + Len(C) : (A \o C)[i] = IF i <= Len(A) THEN A[i] ELSE C[i - Len(A)]
    BY <1>1, ConcatProperties
  <2>2. \A i \in 1 .. 3 : i = 1 \/ i = 2 \/ i = 3
    OBVIOUS
  <2>3. (A \o C)[1] = E[1] /\ (A \o C)[2] = E[2] /\ (A \o C)[3] = E[3]
    BY <1>1, <2>1
  <2> QED BY <1>1, <2>1, <2>2, <2>3
<1>4. A \o B = D
  BY <1>1, <1>2, SeqEqual
<1>5. A \o C = E
  BY <1>1, <1>3, SeqEqual
<1> QED BY <1>4, <1>5 DEF A, B, C, D, E

\* The sequences of cs make up x.
Makes(S, cs, x) == cs \in Seq(Seq(S)) /\ FlattenSeq(cs) = x

LEMMA FlattenFew ==
  ASSUME NEW S, NEW a, NEW b, NEW c, a \in Seq(S), b \in Seq(S), c \in Seq(S)
  PROVE  Makes(S, <<a, b>>, a \o b) /\ Makes(S, <<a, b, c>>, (a \o b) \o c)
<1> DEFINE R == Seq(S)
           A == <<a>>
           B == <<a, b>>
           C == <<a, b, c>>
<1>1. /\ A \in Seq(Seq(S)) /\ Len(A) = 0 + 1 /\ A[0 + 1] = a /\ SubSeq(A, 1, 0) = <<>>
      /\ B \in Seq(Seq(S)) /\ Len(B) = 1 + 1 /\ B[1 + 1] = b /\ SubSeq(B, 1, 1) = A
      /\ C \in Seq(Seq(S)) /\ Len(C) = 2 + 1 /\ C[2 + 1] = c /\ SubSeq(C, 1, 2) = B
  <2>1. a \in R /\ b \in R /\ c \in R
    OBVIOUS
  <2> HIDE DEF R
  <2>2. /\ A \in Seq(R) /\ Len(A) = 1 /\ A[1] = a /\ SubSeq(A, 1, 0) = <<>>
        /\ B \in Seq(R) /\ Len(B) = 2 /\ B[2] = b /\ SubSeq(B, 1, 1) = A
        /\ C \in Seq(R) /\ Len(C) = 3 /\ C[3] = c /\ SubSeq(C, 1, 2) = B
    BY <2>1, Tuples
  <2>3. 0 + 1 = 1 /\ 1 + 1 = 2 /\ 2 + 1 = 3
    OBVIOUS
  <2> HIDE DEF A, B, C
  <2> QED BY <2>2, <2>3 DEF R
<1> HIDE DEF A, B, C
<1>8. Ends(A, <<>>, a) /\ Ends(B, A, b) /\ Ends(C, B, c)
  BY <1>1 DEF Ends
<1>2. FlattenSeq(A) = FlattenSeq(<<>>) \o a
  BY <1>1, <1>8, FlattenLast
<1>3. FlattenSeq(B) = FlattenSeq(A) \o b
  BY <1>1, <1>8, FlattenLast
<1>4. FlattenSeq(C) = FlattenSeq(B) \o c
  BY <1>1, <1>8, FlattenLast
<1>5. FlattenSeq(<<>>) = <<>>
  BY Zenon DEF FlattenSeq
<1>6. <<>> \o a = a
  BY ConcatEmptySeq
<1>7. FlattenSeq(A) = a /\ FlattenSeq(B) = a \o b /\ FlattenSeq(C) = (a \o b) \o c
  BY <1>2, <1>3, <1>4, <1>5, <1>6
<1> QED BY <1>1, <1>7 DEF A, B, C, Makes

-----------------------------------------------------------------------------
(***************************************************************************)
(* Fields.                                                                 *)
(***************************************************************************)
LEMMA WrittenStorable ==
  ASSUME NEW x \in Written
  PROVE  Storable(x)
<1>1. /\ Tags \subseteq 1 .. Pow2[Int32 - 3] - 1 /\ Strs \subseteq Seq(Bytes) /\ \A s \in Strs : Len(s) < Pow2[Int64]
  BY DataAssumption
<1>2. CASE x \in [tag : Tags, type : {PB_TYPE_VARINT, PB_TYPE_FIXED64}, val : 0 .. Pow2[Int64] - 1]
  <2>1. x.tag \in Tags /\ x.type \in {PB_TYPE_VARINT, PB_TYPE_FIXED64} /\ x.val \in 0 .. Pow2[Int64] - 1
    BY <1>2
  <2>2. x.tag \in 1 .. Pow2[Int32 - 3] - 1
    BY <1>1, <2>1
  <2> QED BY <2>1, <2>2 DEF Storable, Types, PB_TYPE_VARINT, PB_TYPE_FIXED64, PB_TYPE_STRING, PB_TYPE_FIXED32
<1>3. CASE x \in [tag : Tags, type : {PB_TYPE_FIXED32}, val : 0 .. Pow2[Int32] - 1]
  <2>1. x.tag \in Tags /\ x.type = PB_TYPE_FIXED32 /\ x.val \in 0 .. Pow2[Int32] - 1
    BY <1>3
  <2>2. x.tag \in 1 .. Pow2[Int32 - 3] - 1
    BY <1>1, <2>1
  <2> QED BY <2>1, <2>2 DEF Storable, Types, PB_TYPE_VARINT, PB_TYPE_FIXED64, PB_TYPE_STRING, PB_TYPE_FIXED32
<1>4. CASE x \in [tag : Tags, type : {PB_TYPE_STRING}, val : Strs]
  <2>1. x.tag \in Tags /\ x.type = PB_TYPE_STRING /\ x.val \in Strs
    BY <1>4
  <2>2. x.val \in Seq(Bytes) /\ Len(x.val) < Pow2[Int64] /\ x.tag \in 1 .. Pow2[Int32 - 3] - 1
    BY <1>1, <2>1
  <2> QED BY <2>1, <2>2 DEF Storable, Types, PB_TYPE_VARINT, PB_TYPE_FIXED64, PB_TYPE_STRING, PB_TYPE_FIXED32
<1> QED BY <1>2, <1>3, <1>4 DEF Written

LEMMA TagWordIs ==
  ASSUME NEW t \in 1 .. Pow2[Int32 - 3] - 1, NEW y \in Types
  PROVE  /\ TagWord(y, t) = y + 8 * t /\ TagWord(y, t) \in 0 .. Pow2[Int64] - 1
         /\ TagWord(y, t) # 0 /\ TagWord(y, t) % 8 = y /\ (TagWord(y, t) \div 8) % Pow2[Int32] = t
         /\ t \in 0 .. Pow2[Int32] - 1
<1>1. /\ Pow2[Int64] \in Nat /\ Pow2[Int32] \in Nat \ {0} /\ Pow2[Int32] <= Pow2[Int64] /\ Pow2[Int32 - 3] \in Nat
      /\ Pow2[Int32] = 8 * Pow2[Int32 - 3]
  BY PayloadPowers
<1>2. y \in 0 .. 5
  BY DEF Types, PB_TYPE_VARINT, PB_TYPE_FIXED64, PB_TYPE_STRING, PB_TYPE_FIXED32
<1>3. t * 8 \in 0 .. Pow2[Int32] - 8 /\ t * 8 = 8 * t
  BY <1>1
<1>4. (t * 8) % Pow2[Int32] = t * 8
  <2>1. t * 8 \in Nat /\ 0 \in Nat /\ t * 8 \in 0 .. Pow2[Int32] - 1 /\ t * 8 = Pow2[Int32] * 0 + t * 8
    BY <1>1, <1>3
  <2> DEFINE e == t * 8
  <2> HIDE DEF e
  <2>2. e % Pow2[Int32] = e
    BY <2>1, <1>1, DivisionIs DEF e
  <2> QED BY <2>2 DEF e
<1>5. TagWord(y, t) = y + 8 * t
  BY <1>3, <1>4 DEF TagWord
<1>6. TagWord(y, t) \in 0 .. Pow2[Int64] - 1 /\ TagWord(y, t) # 0
  BY <1>1, <1>2, <1>3, <1>5
<1>7. TagWord(y, t) % 8 = y /\ TagWord(y, t) \div 8 = t
  BY <1>2, <1>5
<1>8. t \in 0 .. Pow2[Int32] - 1 /\ t = Pow2[Int32] * 0 + t
  BY <1>1
<1>9. t % Pow2[Int32] = t
  BY <1>1, <1>8, DivisionIs
<1> QED BY <1>5, <1>6, <1>7, <1>8, <1>9

\* What is written of a value that is not a string.
Plain(x) ==
  IF x.type = PB_TYPE_VARINT THEN VintBytes(x.val)
  ELSE IF x.type = PB_TYPE_FIXED64 THEN FixBytes(x.val, Fix64)
  ELSE FixBytes(x.val, Fix32)

LEMMA ChunksIs ==
  ASSUME NEW x, Storable(x)
  PROVE  /\ VintBytes(TagWord(x.type, x.tag)) \in Seq(Bytes)
         /\ x.type # PB_TYPE_STRING =>
              /\ Plain(x) \in Seq(Bytes) /\ Chunks(x) = <<VintBytes(TagWord(x.type, x.tag)), Plain(x)>>
              /\ Chunks(x) \in Seq(Seq(Bytes)) /\ Encode(x) = VintBytes(TagWord(x.type, x.tag)) \o Plain(x)
         /\ x.type = PB_TYPE_STRING =>
              /\ x.val \in Seq(Bytes) /\ VintBytes(Len(x.val)) \in Seq(Bytes)
              /\ Chunks(x) = <<VintBytes(TagWord(x.type, x.tag)), VintBytes(Len(x.val)), x.val>>
              /\ Chunks(x) \in Seq(Seq(Bytes))
              /\ Encode(x) = (VintBytes(TagWord(x.type, x.tag)) \o VintBytes(Len(x.val))) \o x.val
<1>1. x.tag \in 1 .. Pow2[Int32 - 3] - 1 /\ x.type \in Types
  BY DEF Storable
<1> DEFINE T == VintBytes(TagWord(x.type, x.tag))
<1>2. T \in Seq(Bytes)
  BY <1>1, TagWordIs, VintBytesOK
<1>3. CASE x.type # PB_TYPE_STRING
  <2> DEFINE p == Plain(x)
  <2>1. p \in Seq(Bytes)
    <3>1. CASE x.type = PB_TYPE_VARINT
      <4>1. x.val \in 0 .. Pow2[Int64] - 1
        BY <3>1 DEF Storable
      <4>2. p = VintBytes(x.val)
        BY <3>1 DEF Plain
      <4> QED BY <4>1, <4>2, VintBytesOK
    <3>2. CASE x.type = PB_TYPE_FIXED64
      <4>1. x.val \in 0 .. Pow2[Int64] - 1
        BY <3>2 DEF Storable
      <4>2. x.val \in Nat /\ Fix64 \in Nat /\ Fix64 <= Fix64
        BY <4>1, Widths
      <4>3. p = FixBytes(x.val, Fix64)
        BY <3>2 DEF Plain, PB_TYPE_VARINT, PB_TYPE_FIXED64
      <4> QED BY <4>2, <4>3, FixBytesOK
    <3>3. CASE x.type = PB_TYPE_FIXED32
      <4>1. x.val \in 0 .. Pow2[Int32] - 1
        BY <3>3 DEF Storable
      <4>2. x.val \in Nat /\ Fix32 \in Nat /\ Fix32 <= Fix64
        BY <4>1, FixOrder
      <4>3. p = FixBytes(x.val, Fix32)
        BY <3>3 DEF Plain, PB_TYPE_VARINT, PB_TYPE_FIXED64, PB_TYPE_FIXED32
      <4> QED BY <4>2, <4>3, FixBytesOK
    <3> QED BY <1>1, <1>3, <3>1, <3>2, <3>3 DEF Types
  <2>2. Chunks(x) = <<T>> \o <<p>>
    BY <1>1, <1>3 DEF Chunks, Plain, Types
  <2>3. Chunks(x) = <<T, p>>
    <3> HIDE DEF T, p
    <3>1. <<T>> \o <<p>> = <<T, p>>
      BY TupleConcat
    <3> QED BY <3>1, <2>2
  <2> HIDE DEF T, p
  <2>4. <<T, p>> \in Seq(Seq(Bytes)) /\ FlattenSeq(<<T, p>>) = T \o p
    <3>1. Makes(Bytes, <<T, p>>, T \o p)
      BY <1>2, <2>1, FlattenFew
    <3> QED BY <3>1 DEF Makes
  <2>5. Encode(x) = T \o p
    BY <2>3, <2>4 DEF Encode
  <2> QED BY <1>2, <1>3, <2>1, <2>3, <2>4, <2>5 DEF T, p
<1>4. CASE x.type = PB_TYPE_STRING
  <2> DEFINE l == VintBytes(Len(x.val))
             v == x.val
  <2>1. v \in Seq(Bytes) /\ Len(x.val) < Pow2[Int64]
    BY <1>4 DEF Storable
  <2>2. l \in Seq(Bytes)
    <3>1. Len(x.val) \in Nat /\ Pow2[Int64] \in Nat
      BY <2>1, PayloadPowers, LenProperties
    <3>2. Len(x.val) \in 0 .. Pow2[Int64] - 1
      BY <3>1, <2>1
    <3> QED BY <3>2, VintBytesOK
  <2>3. Chunks(x) = <<T>> \o <<l, v>>
    BY <1>4 DEF Chunks, PB_TYPE_VARINT, PB_TYPE_FIXED64, PB_TYPE_STRING, PB_TYPE_FIXED32
  <2>4. Chunks(x) = <<T, l, v>>
    <3> HIDE DEF T, l, v
    <3>1. <<T>> \o <<l, v>> = <<T, l, v>>
      BY TupleConcat
    <3> QED BY <3>1, <2>3
  <2> HIDE DEF T, l, v
  <2>5. <<T, l, v>> \in Seq(Seq(Bytes)) /\ FlattenSeq(<<T, l, v>>) = (T \o l) \o v
    <3>1. Makes(Bytes, <<T, l, v>>, (T \o l) \o v)
      BY <1>2, <2>1, <2>2, FlattenFew
    <3> QED BY <3>1 DEF Makes
  <2>6. Encode(x) = (T \o l) \o v
    BY <2>4, <2>5 DEF Encode
  <2> QED BY <1>2, <1>4, <2>1, <2>2, <2>4, <2>5, <2>6 DEF T, l, v
<1> QED BY <1>2, <1>3, <1>4

LEMMA PrefixStep ==
  ASSUME NEW R, NEW u \in Seq(R), NEW n \in 1 .. Len(u)
  PROVE  /\ SubSeq(SubSeq(u, 1, n), 1, n - 1) = SubSeq(u, 1, n - 1)
         /\ SubSeq(u, 1, n) = SubSeq(u, 1, n - 1) \o <<u[n]>>
<1> DEFINE k == n - 1
           a == SubSeq(u, 1, n)
           b == SubSeq(u, 1, k)
           c == SubSeq(a, 1, k)
           e == <<u[n]>>
<1>1. Len(u) \in Nat /\ n \in 0 .. Len(u) /\ k \in 0 .. Len(u) /\ n \in Nat /\ k \in Nat /\ n = k + 1 /\ k \in 0 .. n /\ n \in 1 .. n
  BY LenProperties
<1> HIDE DEF k
<1>2. a \in Seq(R) /\ Len(a) = n /\ \A i \in 1 .. n : a[i] = u[i]
  BY <1>1, Prefix
<1>3. b \in Seq(R) /\ Len(b) = k /\ \A i \in 1 .. k : b[i] = u[i]
  BY <1>1, Prefix
<1> HIDE DEF a, b
<1>4. c \in Seq(R) /\ Len(c) = k /\ \A i \in 1 .. k : c[i] = a[i]
  BY <1>1, <1>2, Prefix
<1> HIDE DEF c
<1>5. c = b
  <2>1. \A i \in 1 .. Len(c) : c[i] = b[i]
    BY <1>1, <1>2, <1>3, <1>4
  <2> QED BY <2>1, <1>3, <1>4, SeqEqual
<1>6. e \in Seq(R) /\ Len(e) = 1 /\ e[1] = u[n]
  <2>1. u[n] \in R
    BY ElementOfSeq
  <2> QED BY <2>1
<1> HIDE DEF e
<1>7. b \o e \in Seq(R) /\ Len(b \o e) = n /\ \A i \in 1 .. n : (b \o e)[i] = IF i <= k THEN b[i] ELSE e[i - k]
  <2>1. b \o e \in Seq(R) /\ Len(b \o e) = Len(b) + Len(e)
        /\ \A i \in 1 .. Len(b) + Len(e) : (b \o e)[i] = IF i <= Len(b) THEN b[i] ELSE e[i - Len(b)]
    BY <1>3, <1>6, ConcatProperties
  <2> QED BY <2>1, <1>1, <1>3, <1>6
<1>8. \A i \in 1 .. n : (b \o e)[i] = a[i]
  <2> SUFFICES ASSUME NEW i \in 1 .. n PROVE (b \o e)[i] = a[i]
    OBVIOUS
  <2>1. CASE i <= k
    <3>1. i \in 1 .. k
      BY <2>1, <1>1
    <3>2. (b \o e)[i] = b[i]
      BY <2>1, <1>7
    <3> QED BY <3>1, <3>2, <1>2, <1>3
  <2>2. CASE ~(i <= k)
    <3>1. i = n /\ i - k = 1
      BY <2>2, <1>1
    <3>2. (b \o e)[i] = e[1]
      BY <3>1, <2>2, <1>7
    <3>3. a[i] = u[n]
      BY <3>1, <1>1, <1>2
    <3> QED BY <3>2, <3>3, <1>6
  <2> QED BY <2>1, <2>2
<1>9. a = b \o e
  <2>1. Len(a) = Len(b \o e) /\ \A i \in 1 .. Len(a) : a[i] = (b \o e)[i]
    BY <1>2, <1>7, <1>8
  <2> QED BY <2>1, <1>2, <1>7, SeqEqual
<1> QED BY <1>5, <1>9 DEF a, b, c, e, k

LEMMA EndsConcat ==
  ASSUME NEW R, NEW h \in Seq(R), NEW u \in Seq(R), NEW n \in 1 .. Len(u)
  PROVE  /\ h \o SubSeq(u, 1, n) \in Seq(R)
         /\ Ends(h \o SubSeq(u, 1, n), h \o SubSeq(u, 1, n - 1), u[n])
<1> DEFINE k == n - 1
           a == SubSeq(u, 1, n)
           b == SubSeq(u, 1, k)
           e == <<u[n]>>
           l == Len(h)
<1>1. Len(u) \in Nat /\ n \in 0 .. Len(u) /\ k \in 0 .. Len(u) /\ n \in Nat /\ k \in Nat /\ n = k + 1 /\ k \in 0 .. n /\ n \in 1 .. n /\ l \in Nat
  BY LenProperties
<1> HIDE DEF k
<1>2. a \in Seq(R) /\ Len(a) = n /\ \A i \in 1 .. n : a[i] = u[i]
  BY <1>1, Prefix
<1>3. b \in Seq(R) /\ Len(b) = k /\ \A i \in 1 .. k : b[i] = u[i]
  BY <1>1, Prefix
<1> HIDE DEF a, b
<1>4. h \o a \in Seq(R) /\ Len(h \o a) = l + n /\ \A i \in 1 .. l + n : (h \o a)[i] = IF i <= l THEN h[i] ELSE a[i - l]
  BY <1>2, ConcatProperties
<1>5. h \o b \in Seq(R) /\ Len(h \o b) = l + k /\ \A i \in 1 .. l + k : (h \o b)[i] = IF i <= l THEN h[i] ELSE b[i - l]
  BY <1>3, ConcatProperties
<1> DEFINE x == h \o a
           y == h \o b
           z == SubSeq(x, 1, l + k)
<1> HIDE DEF x, y, l
<1>6. x \in Seq(R) /\ Len(x) = l + n /\ \A i \in 1 .. l + n : x[i] = IF i <= l THEN h[i] ELSE a[i - l]
  BY <1>4 DEF x
<1>7. y \in Seq(R) /\ Len(y) = l + k /\ \A i \in 1 .. l + k : y[i] = IF i <= l THEN h[i] ELSE b[i - l]
  BY <1>5 DEF y
<1>8. l + n # 0 /\ (l + n) - 1 = l + k /\ l + n \in 1 .. l + n /\ ~(l + n <= l) /\ (l + n) - l = n /\ l + k \in 0 .. Len(x)
  BY <1>1, <1>6
<1>9. x[l + n] = u[n]
  BY <1>1, <1>2, <1>6, <1>8
<1>10. z \in Seq(R) /\ Len(z) = l + k /\ \A i \in 1 .. l + k : z[i] = x[i]
  <2> DEFINE j == l + k
  <2> HIDE DEF j
  <2>1. j \in 0 .. Len(x)
    BY <1>8 DEF j
  <2>2. SubSeq(x, 1, j) \in Seq(R) /\ Len(SubSeq(x, 1, j)) = j /\ \A i \in 1 .. j : SubSeq(x, 1, j)[i] = x[i]
    BY <2>1, <1>6, Prefix
  <2> QED BY <2>2 DEF j
<1> HIDE DEF z
<1>11. \A i \in 1 .. l + k : z[i] = y[i]
  <2> SUFFICES ASSUME NEW i \in 1 .. l + k PROVE z[i] = y[i]
    OBVIOUS
  <2>1. i \in 1 .. l + n /\ z[i] = x[i]
    BY <1>1, <1>10
  <2>2. CASE i <= l
    BY <2>1, <2>2, <1>6, <1>7
  <2>3. CASE ~(i <= l)
    <3>1. i - l \in 1 .. n /\ i - l \in 1 .. k
      BY <2>3, <1>1
    <3> QED BY <2>1, <2>3, <3>1, <1>2, <1>3, <1>6, <1>7
  <2> QED BY <2>2, <2>3
<1>12. z = y
  BY <1>7, <1>10, <1>11, SeqEqual
<1>13. Ends(x, y, u[n])
  <2>1. Len(x) # 0 /\ Len(x) - 1 = l + k /\ x[Len(x)] = u[n]
    BY <1>6, <1>8, <1>9
  <2>2. SubSeq(x, 1, Len(x) - 1) = y
    BY <2>1, <1>12 DEF z
  <2> QED BY <2>1, <2>2 DEF Ends
<1> QED BY <1>6, <1>13 DEF x, y, a, b, k

Associative(a, b, c) == (a \o b) \o c = a \o (b \o c)

LEMMA Concat3 ==
  ASSUME NEW S, NEW a, NEW b, NEW c, a \in Seq(S), b \in Seq(S), c \in Seq(S)
  PROVE  Associative(a, b, c)
BY ConcatAssociative DEF Associative

\* A string that is written byte by byte.
LEMMA Spelled ==
  ASSUME NEW S, NEW h \in Seq(Seq(S)), NEW s \in Seq(S)
  PROVE  /\ h \o [i \in 1 .. Len(s) |-> <<s[i]>>] \in Seq(Seq(S))
         /\ FlattenSeq(h \o [i \in 1 .. Len(s) |-> <<s[i]>>]) = FlattenSeq(h) \o s
<1> DEFINE R == Seq(S)
           n == Len(s)
           u == [i \in 1 .. n |-> <<s[i]>>]
           G(i) == h \o SubSeq(u, 1, i)
           w == FlattenSeq(h)
<1>1. n \in Nat /\ w \in Seq(S)
  BY Flatten, LenProperties
<1>2. h \in Seq(R) /\ u \in Seq(R) /\ Len(u) = n /\ \A i \in 1 .. n : u[i] = <<s[i]>> /\ <<s[i]>> \in Seq(S)
  <2>1. ASSUME NEW i \in 1 .. n PROVE <<s[i]>> \in R
    <3>1. s[i] \in S
      BY ElementOfSeq
    <3> QED BY <3>1
  <2>2. h \in Seq(R)
    OBVIOUS
  <2> HIDE DEF R, n
  <2>3. u \in Seq(R) /\ Len(u) = n
    BY <1>1, <2>1
  <2> QED BY <2>1, <2>2, <2>3 DEF R
<1> HIDE DEF u, w, R, n
<1>3. \A i \in 1 .. n : G(i) \in Seq(Seq(S)) /\ Ends(G(i), G(i - 1), <<s[i]>>)
  <2> SUFFICES ASSUME NEW i \in 1 .. n PROVE G(i) \in Seq(Seq(S)) /\ Ends(G(i), G(i - 1), <<s[i]>>)
    OBVIOUS
  <2>1. i \in 1 .. Len(u) /\ u[i] = <<s[i]>>
    BY <1>2
  <2>2. G(i) \in Seq(R) /\ Ends(G(i), G(i - 1), u[i])
    BY <1>2, <2>1, EndsConcat
  <2> QED BY <2>1, <2>2 DEF R
<1>4. G(0) = h
  <2>1. SubSeq(u, 1, 0) = <<>>
    BY SubSeqEmpty
  <2> QED BY <1>2, <2>1, ConcatEmptySeq
<1>5. G(n) = h \o u
  <2>1. SubSeq(u, 1, n) = u
    <3> DEFINE t == SubSeq(u, 1, n)
    <3>1. t \in Seq(R) /\ Len(t) = n /\ \A i \in 1 .. n : t[i] = u[i]
      <4>1. n \in 0 .. Len(u)
        BY <1>1, <1>2
      <4> QED BY <4>1, <1>2, Prefix
    <3> HIDE DEF t
    <3>2. t = u
      BY <3>1, <1>2, SeqEqual
    <3> QED BY <3>2 DEF t
  <2> QED BY <2>1
<1>6. w \o SubSeq(s, 1, 0) = w
  <2>1. SubSeq(s, 1, 0) = <<>>
    BY SubSeqEmpty
  <2> QED BY <1>1, <2>1, ConcatEmptySeq
<1>7. w \o SubSeq(s, 1, n) = w \o s
  <2> DEFINE t == SubSeq(s, 1, n)
  <2>1. t \in Seq(S) /\ Len(t) = n /\ \A i \in 1 .. n : t[i] = s[i]
    <3>1. n \in 0 .. Len(s)
      BY <1>1 DEF n
    <3> QED BY <3>1, Prefix
  <2> HIDE DEF t
  <2>2. t = s
    BY <2>1, SeqEqual DEF n
  <2> QED BY <2>2 DEF t
<1>8. ASSUME NEW i \in 1 .. n, FlattenSeq(G(i - 1)) = w \o SubSeq(s, 1, i - 1)
      PROVE  FlattenSeq(G(i)) = w \o SubSeq(s, 1, i)
  <2>1. FlattenSeq(G(i)) = FlattenSeq(G(i - 1)) \o <<s[i]>>
    <3> DEFINE g == G(i)
               d == G(i - 1)
               c == <<s[i]>>
    <3>1. g \in Seq(Seq(S)) /\ Ends(g, d, c)
      BY <1>3
    <3> HIDE DEF g, d, c
    <3>2. FlattenSeq(g) = FlattenSeq(d) \o c
      BY <3>1, FlattenLast
    <3> QED BY <3>2 DEF g, d, c
  <2>2. SubSeq(s, 1, i) = SubSeq(s, 1, i - 1) \o <<s[i]>>
    BY PrefixStep DEF n
  <2>3. SubSeq(s, 1, i - 1) \in Seq(S)
    <3> DEFINE j == i - 1
    <3>1. j \in 0 .. Len(s)
      BY <1>1 DEF n
    <3> HIDE DEF j
    <3>2. SubSeq(s, 1, j) \in Seq(S)
      BY <3>1, Prefix
    <3> QED BY <3>2 DEF j
  <2>4. (w \o SubSeq(s, 1, i - 1)) \o <<s[i]>> = w \o (SubSeq(s, 1, i - 1) \o <<s[i]>>)
    <3> DEFINE t == SubSeq(s, 1, i - 1)
               c == <<s[i]>>
    <3>1. t \in Seq(S) /\ c \in Seq(S)
      BY <1>2, <2>3
    <3> HIDE DEF t, c
    <3>2. Associative(w, t, c)
      BY <3>1, <1>1, Concat3
    <3> QED BY <3>2 DEF t, c, Associative
  <2> QED BY <1>8, <2>1, <2>2, <2>4
<1> DEFINE T == {i \in 0 .. n : FlattenSeq(G(i)) # w \o SubSeq(s, 1, i)}
<1>9. T = {}
  <2> SUFFICES ASSUME T # {} PROVE FALSE
    OBVIOUS
  <2>1. PICK m \in T : \A y \in T : m <= y
    <3>1. T \in SUBSET Nat
      BY <1>1
    <3> HIDE DEF T
    <3> QED BY <3>1, LeastElement
  <2>2. m \in 0 .. n
    OBVIOUS
  <2>3. m # 0
    <3>1. FlattenSeq(G(0)) = w \o SubSeq(s, 1, 0)
      BY <1>4, <1>6 DEF w
    <3> HIDE DEF G
    <3> QED BY <3>1
  <2>4. m \in 1 .. n /\ m - 1 \in 0 .. n
    BY <2>2, <2>3, <1>1
  <2>5. m - 1 \notin T
    <3> HIDE DEF T
    <3> QED BY <2>1, <2>2, <1>1
  <2> HIDE DEF G
  <2>6. FlattenSeq(G(m - 1)) = w \o SubSeq(s, 1, m - 1)
    BY <2>4, <2>5
  <2>7. FlattenSeq(G(m)) = w \o SubSeq(s, 1, m)
    BY <1>8, <2>4, <2>6
  <2> QED BY <2>7
<1>10. FlattenSeq(h \o u) = w \o s
  <2>1. n \notin T /\ n \in 0 .. n
    <3> HIDE DEF T
    <3> QED BY <1>1, <1>9
  <2> HIDE DEF G
  <2>2. FlattenSeq(G(n)) = w \o SubSeq(s, 1, n)
    BY <2>1
  <2> QED BY <2>2, <1>5, <1>7
<1>11. h \o u \in Seq(R)
  BY <1>2, ConcatProperties
<1> QED BY <1>10, <1>11 DEF R, n, u, w

LEMMA MaxIs ==
  ASSUME NEW n \in Nat, NEW K, K \subseteq 0 .. n, K # {}
  PROVE  Max(K) \in K /\ \A y \in K : Max(K) >= y
<1> DEFINE D == {d \in 0 .. n : n - d \in K}
<1>1. PICK k \in K : TRUE
  OBVIOUS
<1>2. n - k \in D
  BY <1>1
<1>3. PICK d \in D : \A y \in D : d <= y
  <2>1. D \in SUBSET Nat
    OBVIOUS
  <2> HIDE DEF D
  <2> QED BY <2>1, <1>2, LeastElement
<1>4. n - d \in K /\ d \in 0 .. n
  OBVIOUS
<1>5. ASSUME NEW y \in K PROVE n - d >= y
  <2>1. y \in 0 .. n
    OBVIOUS
  <2>2. n - y \in 0 .. n /\ n - (n - y) = y
    BY <2>1
  <2>3. n - y \in D
    BY <2>2
  <2>4. d <= n - y
    <3> HIDE DEF D
    <3> QED BY <2>3, <1>3
  <2> QED BY <2>1, <2>4, <1>4
<1>6. \E x \in K : \A y \in K : x >= y
  BY <1>4, <1>5
<1> QED BY <1>6, Zenon DEF Max

\* pb_add: what fits is written, in full if all of it fits.
LEMMA FittingIs ==
  ASSUME NEW b \in Seq(Bytes), Len(b) <= Room, NEW cs \in Seq(Seq(Bytes))
  PROVE  /\ Fitting(b, cs) \in Seq(Bytes) /\ Len(Fitting(b, cs)) <= Room
         /\ FlattenSeq(cs) \in Seq(Bytes)
         /\ Len(b) + Len(FlattenSeq(cs)) <= Room => Fitting(b, cs) = b \o FlattenSeq(cs)
<1> DEFINE P(k) == SubSeq(cs, 1, k)
           W(k) == FlattenSeq(SubSeq(cs, 1, k))
           n == Len(cs)
           K == {k \in 0 .. n : Len(b \o W(k)) <= Room}
<1>1. n \in Nat
  BY LenProperties
<1>2. ASSUME NEW k \in 0 .. n
      PROVE  SubSeq(cs, 1, k) \in Seq(Seq(Bytes)) /\ Len(SubSeq(cs, 1, k)) = k /\ \A i \in 1 .. k : SubSeq(cs, 1, k)[i] = cs[i]
  BY Prefix
<1>3. ASSUME NEW k \in 0 .. n PROVE W(k) \in Seq(Bytes) /\ b \o W(k) \in Seq(Bytes) /\ Len(b \o W(k)) = Len(b) + Len(W(k))
  <2> DEFINE p == SubSeq(cs, 1, k)
  <2>1. p \in Seq(Seq(Bytes))
    BY <1>2
  <2> HIDE DEF p
  <2>2. FlattenSeq(p) \in Seq(Bytes)
    BY <2>1, Flatten
  <2>3. W(k) \in Seq(Bytes)
    BY <2>2 DEF p
  <2> HIDE DEF W
  <2> QED BY <2>3, ConcatProperties
<1>4. 0 \in K
  <2>1. SubSeq(cs, 1, 0) = <<>>
    BY SubSeqEmpty
  <2>2. FlattenSeq(<<>>) = <<>>
    BY Zenon DEF FlattenSeq
  <2>3. b \o W(0) = b
    BY <2>1, <2>2, ConcatEmptySeq
  <2> QED BY <1>1, <2>3
<1>5. Max(K) \in K /\ \A y \in K : Max(K) >= y
  <2>1. K \subseteq 0 .. n /\ K # {}
    BY <1>4
  <2> HIDE DEF K, n
  <2> QED BY <2>1, <1>1, MaxIs
<1>6. Fitting(b, cs) = b \o W(Max(K))
  BY DEF Fitting
<1>7. SubSeq(cs, 1, n) = cs
  <2>1. n \in 0 .. n
    BY <1>1
  <2> DEFINE R == Seq(Bytes)
             t == SubSeq(cs, 1, n)
  <2> HIDE DEF R
  <2>2. cs \in Seq(R)
    BY DEF R
  <2>3. t \in Seq(R) /\ Len(t) = n /\ \A i \in 1 .. n : t[i] = cs[i]
    BY <2>1, <1>2 DEF R
  <2> HIDE DEF t
  <2>4. t = cs
    BY <2>2, <2>3, SeqEqual
  <2> QED BY <2>4 DEF t
<1>8. FlattenSeq(cs) \in Seq(Bytes)
  BY Flatten
<1>9. ASSUME Len(b) + Len(FlattenSeq(cs)) <= Room PROVE Fitting(b, cs) = b \o FlattenSeq(cs)
  <2>1. n \in 0 .. n /\ W(n) = FlattenSeq(cs)
    <3>1. n \in 0 .. n
      <4> HIDE DEF n
      <4> QED BY <1>1
    <3>2. W(n) = FlattenSeq(cs)
      BY <1>7, Zenon
    <3> QED BY <3>1, <3>2
  <2>2. Len(b \o W(n)) <= Room
    <3>1. Len(b \o W(n)) = Len(b) + Len(W(n))
      BY <1>3, <2>1
    <3> QED BY <3>1, <2>1, <1>9
  <2>3. n \in K
    BY <2>1, <2>2
  <2>4. Max(K) >= n /\ Max(K) \in 0 .. n
    <3>1. K \subseteq 0 .. n
      OBVIOUS
    <3> HIDE DEF K
    <3> QED BY <2>3, <1>5, <3>1
  <2>5. Max(K) = n
    <3> HIDE DEF K, n
    <3> QED BY <2>4, <1>1
  <2> QED BY <2>1, <2>5, <1>6
<1>10. Max(K) \in 0 .. n /\ Len(b \o W(Max(K))) <= Room
  BY <1>5
<1> HIDE DEF K
<1> QED BY <1>3, <1>6, <1>8, <1>9, <1>10

FirstTwo(a, b, c) == SubSeq(<<a, b, c>>, 1, 2) = <<a, b>>

LEMMA TwoOfThree ==
  ASSUME NEW R, NEW a, NEW b, NEW c, a \in R, b \in R, c \in R
  PROVE  FirstTwo(a, b, c)
<1> DEFINE s == <<a, b, c>>
           t == <<a, b>>
           u == SubSeq(s, 1, 2)
<1>1. s \in Seq(R) /\ 2 \in 0 .. Len(s) /\ t \in Seq(R) /\ Len(t) = 2 /\ s[1] = a /\ t[1] = a /\ s[2] = b /\ t[2] = b
  OBVIOUS
<1> HIDE DEF s, t
<1>2. u \in Seq(R) /\ Len(u) = 2 /\ \A i \in 1 .. 2 : u[i] = s[i]
  BY <1>1, Prefix
<1> HIDE DEF u
<1>3. \A i \in 1 .. Len(u) : u[i] = t[i]
  <2>1. \A i \in 1 .. 2 : i = 1 \/ i = 2
    OBVIOUS
  <2> QED BY <2>1, <1>1, <1>2
<1>4. u = t
  BY <1>1, <1>2, <1>3, SeqEqual
<1> QED BY <1>4 DEF u, s, t, FirstTwo

\* knv_add_string_head and knv_add_user write what knv_add_string writes.
LEMMA HeadChunks ==
  ASSUME NEW x, Storable(x), x.type = PB_TYPE_STRING
  PROVE  Makes(Bytes, SubSeq(Chunks(x), 1, 2) \o [i \in 1 .. Len(x.val) |-> <<x.val[i]>>], Encode(x))
<1> DEFINE T == VintBytes(TagWord(x.type, x.tag))
           l == VintBytes(Len(x.val))
           v == x.val
<1>1. /\ T \in Seq(Bytes) /\ l \in Seq(Bytes) /\ v \in Seq(Bytes)
      /\ Chunks(x) = <<T, l, v>> /\ Encode(x) = (T \o l) \o v
  BY ChunksIs
<1> HIDE DEF T, l, v
<1>2. SubSeq(Chunks(x), 1, 2) = <<T, l>>
  <2> DEFINE R == Seq(Bytes)
  <2>1. T \in R /\ l \in R /\ v \in R
    BY <1>1
  <2> HIDE DEF R
  <2>2. FirstTwo(T, l, v)
    BY <2>1, TwoOfThree
  <2> QED BY <2>2, <1>1 DEF FirstTwo
<1>3. Makes(Bytes, <<T, l>>, T \o l)
  BY <1>1, FlattenFew
<1> DEFINE h == <<T, l>>
<1> HIDE DEF h
<1>4. h \in Seq(Seq(Bytes)) /\ FlattenSeq(h) = T \o l
  BY <1>3 DEF h, Makes
<1>5. Makes(Bytes, h \o [i \in 1 .. Len(v) |-> <<v[i]>>], FlattenSeq(h) \o v)
  <2>1. h \o [i \in 1 .. Len(v) |-> <<v[i]>>] \in Seq(Seq(Bytes))
    BY <1>1, <1>4, Spelled
  <2>2. FlattenSeq(h \o [i \in 1 .. Len(v) |-> <<v[i]>>]) = FlattenSeq(h) \o v
    BY <1>1, <1>4, Spelled
  <2> QED BY <2>1, <2>2 DEF Makes
<1> QED BY <1>1, <1>2, <1>4, <1>5 DEF h, v

-----------------------------------------------------------------------------
(***************************************************************************)
(* What a reader becomes.                                                  *)
(***************************************************************************)
Rec(p, l, t, y, v, e, o) == [pos |-> p, left |-> l, tag |-> t, type |-> y, val |-> v, eom |-> e, ok |-> o]

\* The flags of a call.
Yes == TRUE
No == FALSE

LEMMA RecIs ==
  ASSUME NEW p, NEW l, NEW t, NEW y, NEW v, NEW e, NEW o, NEW r, r = Rec(p, l, t, y, v, e, o)
  PROVE  r.pos = p /\ r.left = l /\ r.tag = t /\ r.type = y /\ r.val = v /\ r.eom = e /\ r.ok = o
BY DEF Rec

Retag(r, a, b) == [r EXCEPT !.tag = a, !.type = b]

LEMMA TagTypeIs ==
  ASSUME NEW p, NEW l, NEW t, NEW y, NEW v, NEW e, NEW o, NEW a, NEW b
  PROVE  Retag(Rec(p, l, t, y, v, e, o), a, b) = Rec(p, l, a, b, v, e, o)
<1> DEFINE r == Rec(p, l, t, y, v, e, o)
           x == Retag(r, a, b)
<1>0. r = Rec(p, l, t, y, v, e, o)
  OBVIOUS
<1>1. x = [r EXCEPT !.tag = a, !.type = b]
  BY DEF Retag
<1> HIDE DEF r, x
<1>2. x = Rec(p, l, a, b, v, e, o)
  BY <1>0, <1>1 DEF Rec
<1> QED BY <1>0, <1>2 DEF x

LEMMA FailedIs ==
  ASSUME NEW p \in Nat, NEW l \in Nat, NEW t, NEW y, NEW v, NEW e, NEW o
  PROVE  Failed(Rec(p, l, t, y, v, e, o)) = Rec(p, l, t, y, v, e, No)
<1> DEFINE r == Rec(p, l, t, y, v, e, o)
           x == Failed(r)
           a == No
<1>0. r = Rec(p, l, t, y, v, e, o)
  OBVIOUS
<1>1. x = [r EXCEPT !.ok = a]
  BY DEF Failed, No
<1> HIDE DEF r, x, a
<1>2. x = Rec(p, l, t, y, v, e, a)
  BY <1>0, <1>1 DEF Rec
<1> QED BY <1>0, <1>2 DEF x, a

LEMMA AdvanceIs ==
  ASSUME NEW p \in Nat, NEW l \in Nat, NEW t, NEW y, NEW v, NEW e, NEW o, NEW n \in Nat
  PROVE  Advance(Rec(p, l, t, y, v, e, o), n) = Rec(p + n, l - n, t, y, v, e, o)
<1> DEFINE r == Rec(p, l, t, y, v, e, o)
           x == Advance(r, n)
           a == p + n
           b == l - n
<1>0. r = Rec(p, l, t, y, v, e, o)
  OBVIOUS
<1> HIDE DEF r
<1>1. r.pos = p /\ r.left = l
  BY <1>0, RecIs
<1>2. x = [r EXCEPT !.pos = a, !.left = b]
  BY <1>1 DEF Advance
<1> HIDE DEF x, a, b
<1>3. x = Rec(a, b, t, y, v, e, o)
  BY <1>0, <1>2 DEF Rec
<1> QED BY <1>0, <1>3 DEF x, a, b

-----------------------------------------------------------------------------
(***************************************************************************)
(* Numbers from digits.                                                    *)
(***************************************************************************)
LEMMA SmallMod ==
  ASSUME NEW a \in Nat, NEW b \in Nat \ {0}, a < b
  PROVE  a % b = a
OBVIOUS

LEMMA DigitStep ==
  ASSUME NEW a \in Nat, NEW b \in Nat \ {0}, NEW c \in Nat \ {0}
  PROVE  a % (b * c) = (a % b) + ((a \div b) % c) * b
<1> DEFINE q == a \div b
           r == a % b
           d == q % c
           e == q \div c
<1>1. q \in Nat /\ r \in 0 .. b - 1 /\ a = b * q + r
  BY Division
<1> HIDE DEF q, r
<1>2. e \in Nat /\ d \in 0 .. c - 1 /\ q = c * e + d
  BY <1>1, Division
<1> HIDE DEF d, e
<1>3. a = (b * c) * e + (r + d * b)
  <2>1. b * (c * e + d) = b * (c * e) + b * d
    BY <1>2
  <2>2. b * (c * e) = (b * c) * e /\ b * d = d * b
    BY <1>2
  <2>3. a = b * (c * e + d) + r
    BY <1>1, <1>2
  <2>4. b * (c * e) \in Nat /\ b * d \in Nat
    BY <1>2
  <2> QED BY <2>1, <2>2, <2>3, <2>4, <1>1
<1>4. r + d * b \in 0 .. (b * c) - 1 /\ b * c \in Nat \ {0}
  <2>1. d * b <= (c - 1) * b /\ d * b \in Nat
    <3>1. ASSUME NEW x \in Nat, NEW y \in Nat, NEW z \in Nat, x <= y PROVE x * z <= y * z
      BY <3>1
    <3> DEFINE y == c - 1
    <3>2. y \in Nat /\ d <= y /\ d \in Nat
      BY <1>2
    <3> HIDE DEF y
    <3>3. d * b <= y * b
      BY <3>1, <3>2
    <3> QED BY <3>2, <3>3 DEF y
  <2>2. (c - 1) * b = (b * c) - b
    OBVIOUS
  <2>3. b * c \in Nat \ {0}
    OBVIOUS
  <2> DEFINE u == d * b
             v == b * c
  <2>4. u \in Nat /\ v \in Nat \ {0} /\ u <= v - b
    BY <2>1, <2>2, <2>3
  <2> HIDE DEF u, v
  <2>5. r + u \in 0 .. v - 1
    BY <2>4, <1>1
  <2> QED BY <2>4, <2>5 DEF u, v
<1>5. a % (b * c) = r + d * b
  <2> DEFINE u == r + d * b
             v == b * c
  <2>1. v \in Nat \ {0} /\ u \in 0 .. v - 1 /\ a = v * e + u
    BY <1>3, <1>4
  <2> HIDE DEF u, v
  <2>2. a % v = u
    BY <2>1, <1>2, DivisionIs
  <2> QED BY <2>2 DEF u, v
<1> QED BY <1>5 DEF q, r, d

\* g adds up the lower digits of v.
Spells(g, c, n, v) ==
  /\ g[0] = 0
  /\ \A i \in 1 .. n : g[i] = g[i-1] + ((v \div Pow2[c * (i - 1)]) % Pow2[c]) * Pow2[c * (i - 1)]

\* Digits of v with c bits each add up to its low bits.
LEMMA Digits ==
  ASSUME NEW c \in Nat, NEW n \in Nat, c * n <= Int64 + Payload, NEW v \in Nat, NEW g,
         Spells(g, c, n, v)
  PROVE  g[n] = v % Pow2[c * n]
<1> DEFINE T == {i \in 0 .. n : g[i] # v % Pow2[c * i]}
           W == Int64 + Payload
<1>0. g[0] = 0 /\ \A i \in 1 .. n : g[i] = g[i-1] + ((v \div Pow2[c * (i - 1)]) % Pow2[c]) * Pow2[c * (i - 1)]
  BY DEF Spells
<1> SUFFICES ASSUME T # {} PROVE FALSE
  <2>1. n \in 0 .. n
    OBVIOUS
  <2> QED BY <2>1
<1>1. PICK m \in T : \A y \in T : m <= y
  <2>1. T \in SUBSET Nat
    OBVIOUS
  <2> HIDE DEF T
  <2> QED BY <2>1, LeastElement
<1>2. m \in 0 .. n /\ g[m] # v % Pow2[c * m] /\ W \in Nat
  BY Widths
<1>3. m # 0
  <2>1. c * 0 = 0 /\ Pow2[0] = 1 /\ v % 1 = 0
    BY PayloadPowers
  <2> QED BY <1>0, <1>2, <2>1
<1> DEFINE k == m - 1
<1>4. k \in 0 .. n /\ k \in Nat /\ m = k + 1 /\ m \in 1 .. n /\ k \notin T
  <2> HIDE DEF T
  <2> QED BY <1>1, <1>2, <1>3
<1>5. g[k] = v % Pow2[c * k]
  BY <1>4
<1>6. g[m] = g[k] + ((v \div Pow2[c * k]) % Pow2[c]) * Pow2[c * k]
  BY <1>0, <1>4
<1> HIDE DEF k, T
<1>7. c * m = c * k + c /\ c * k \in Nat /\ c * m \in Nat /\ c * m <= c * n
  <2>1. c * (k + 1) = c * k + c
    BY <1>4
  <2>2. c * m <= c * n
    BY <1>2, <1>4, Products
  <2> QED BY <1>4, <2>1, <2>2
<1>8. Pow2[c * m] = Pow2[c * k] * Pow2[c] /\ Pow2[c * k] \in Nat \ {0} /\ Pow2[c] \in Nat \ {0}
  <2>1. c * k \in 0 .. W /\ c \in 0 .. W /\ c * k + c <= W
    <3> DEFINE e == c * k
               x == c * m
               y == c * n
    <3>1. x = e + c /\ e \in Nat /\ x \in Nat /\ x <= y /\ y <= W /\ W \in Nat /\ y \in Nat
      BY <1>2, <1>7
    <3> HIDE DEF e, x, y, W
    <3>2. e \in 0 .. W /\ c \in 0 .. W /\ e + c <= W
      BY <3>1
    <3> QED BY <3>2 DEF e
  <2> DEFINE e == c * k
  <2>2. e \in Nat /\ e + c <= Int64 + Payload
    BY <1>7, <2>1
  <2> HIDE DEF e
  <2>3. Pow2[e + c] = Pow2[e] * Pow2[c]
    BY <2>2, Pow2Sum
  <2> QED BY <2>1, <2>3, <1>7, Pow2Nat DEF e
<1>9. v % Pow2[c * m] = (v % Pow2[c * k]) + ((v \div Pow2[c * k]) % Pow2[c]) * Pow2[c * k]
  <2> DEFINE a == Pow2[c * k]
             b == Pow2[c]
  <2>1. a \in Nat \ {0} /\ b \in Nat \ {0}
    BY <1>8
  <2> HIDE DEF a, b
  <2>2. v % (a * b) = (v % a) + ((v \div a) % b) * a
    BY <2>1, DigitStep
  <2> QED BY <2>2, <1>8 DEF a, b
<1> QED BY <1>2, <1>5, <1>6, <1>9

-----------------------------------------------------------------------------
(***************************************************************************)
(* pb_decode_varint.                                                       *)
(***************************************************************************)
\* g adds up the groups of the bytes ahead of r.
IsWord(g, m, r) ==
  g = [i \in 0 .. MaxVint |-> IF i = 0 THEN 0 ELSE g[i-1] + (Byte(m, r, i) % Pow2[Payload]) * Pow2[Payload * (i - 1)]]

Word(m, r) == CHOOSE g : IsWord(g, m, r)

LastBytes(m, r) == {n \in 1 .. MaxVint : n <= r.left /\ Byte(m, r, n) < Pow2[Payload]}

LEMMA WordIs ==
  ASSUME NEW m, NEW r
  PROVE  /\ Word(m, r)[0] = 0
         /\ \A i \in 1 .. MaxVint :
              Word(m, r)[i] = Word(m, r)[i-1] + (Byte(m, r, i) % Pow2[Payload]) * Pow2[Payload * (i - 1)]
<1> DEFINE X(i) == (Byte(m, r, i) % Pow2[Payload]) * Pow2[Payload * (i - 1)]
           f1 == [i \in 1 .. MaxVint |-> X(i)]
<1>1. MaxVint \in Nat
  BY MaxVintIs
<1>2. PICK g : IsSum(g, f1, MaxVint)
  BY <1>1, SumExists
<1>3. g = [k \in 0 .. MaxVint |-> IF k = 0 THEN 0 ELSE g[k - 1] + f1[k]]
  BY <1>2 DEF IsSum
<1>4. IsWord(g, m, r)
  <2> HIDE DEF X
  <2>1. \A k \in 0 .. MaxVint : k # 0 => f1[k] = X(k)
    BY <1>1
  <2>2. g = [k \in 0 .. MaxVint |-> IF k = 0 THEN 0 ELSE g[k - 1] + X(k)]
    BY <1>3, <2>1
  <2> QED BY <2>2 DEF IsWord, X
<1>5. IsWord(Word(m, r), m, r)
  BY <1>4, Zenon DEF Word
<1> DEFINE w == Word(m, r)
<1>6. w = [k \in 0 .. MaxVint |-> IF k = 0 THEN 0 ELSE w[k - 1] + X(k)]
  BY <1>5 DEF IsWord
<1> HIDE DEF X, w
<1>7. w[0] = 0 /\ \A i \in 1 .. MaxVint : w[i] = w[i-1] + X(i)
  BY <1>1, <1>6
<1> QED BY <1>7 DEF X, w

LEMMA DecodeVarintForm ==
  ASSUME NEW m, NEW r
  PROVE  DecodeVarint(m, r) =
           IF LastBytes(m, r) # {}
           THEN [Advance(r, Min(LastBytes(m, r))) EXCEPT !.val = Word(m, r)[Min(LastBytes(m, r))] % Pow2[Int64]]
           ELSE Failed(Advance(r, IF r.left < MaxVint THEN r.left ELSE MaxVint))
BY Zenon DEF DecodeVarint, LastBytes, Word, IsWord

LEMMA MinIs ==
  ASSUME NEW K, K \subseteq Nat, NEW n \in K, \A y \in K : n <= y
  PROVE  Min(K) = n
<1>1. Min(K) = CHOOSE x \in K : \A y \in K : x =< y
  BY Zenon DEF Min
<1>2. ASSUME NEW x \in K, \A y \in K : x =< y PROVE x = n
  BY <1>2
<1> QED BY <1>1, <1>2

\* A call that succeeds: byte n is the first one whose top bit is clear.
LEMMA DecodeVarintOk ==
  ASSUME NEW m, NEW p \in Nat, NEW l \in Nat, NEW t, NEW y, NEW v, NEW e, NEW o, NEW r, r = Rec(p, l, t, y, v, e, o),
         NEW n \in 1 .. MaxVint, n <= l, Byte(m, r, n) < Pow2[Payload],
         \A k \in 1 .. n - 1 : ~(Byte(m, r, k) < Pow2[Payload])
  PROVE  DecodeVarint(m, r) = Rec(p + n, l - n, t, y, Word(m, r)[n] % Pow2[Int64], e, o)
<1> DEFINE K == LastBytes(m, r)
<1>1. r.left = l /\ MaxVint \in Nat
  BY RecIs, MaxVintIs
<1>2. n \in K
  BY <1>1 DEF LastBytes
<1>3. ASSUME NEW k \in K PROVE n <= k
  <2>1. k \in 1 .. MaxVint /\ Byte(m, r, k) < Pow2[Payload]
    BY <1>3 DEF LastBytes
  <2>2. k \notin 1 .. n - 1
    BY <2>1
  <2> QED BY <2>1, <2>2, <1>1
<1>4. K \subseteq Nat
  BY <1>1 DEF LastBytes
<1>5. Min(K) = n
  <2> HIDE DEF K
  <2> QED BY <1>2, <1>3, <1>4, MinIs
<1> DEFINE a == Advance(r, n)
           w == Word(m, r)[n] % Pow2[Int64]
           x == [a EXCEPT !.val = w]
<1>6. DecodeVarint(m, r) = x
  <2>1. K # {}
    <3> HIDE DEF K
    <3> QED BY <1>2
  <2> QED BY <2>1, <1>5, DecodeVarintForm, Zenon
<1>7. a = Rec(p + n, l - n, t, y, v, e, o)
  <2>1. n \in Nat
    BY <1>1
  <2> QED BY <2>1, AdvanceIs
<1>8. x = [a EXCEPT !.val = w]
  OBVIOUS
<1> HIDE DEF a, w, x
<1>9. x = Rec(p + n, l - n, t, y, w, e, o)
  BY <1>7, <1>8 DEF Rec
<1> QED BY <1>6, <1>9 DEF w

\* A call that fails has moved over the bytes it saw.
LEMMA DecodeVarintFails ==
  ASSUME NEW m, NEW p \in Nat, NEW l \in Nat, NEW t, NEW y, NEW v, NEW e, NEW o, NEW r, r = Rec(p, l, t, y, v, e, o),
         \A n \in 1 .. MaxVint : n <= l => ~(Byte(m, r, n) < Pow2[Payload])
  PROVE  \E d \in 0 .. l : (l <= MaxVint => d = l) /\ DecodeVarint(m, r) = Rec(p + d, l - d, t, y, v, e, No)
<1> DEFINE K == LastBytes(m, r)
           d == IF l < MaxVint THEN l ELSE MaxVint
<1>1. r.left = l /\ MaxVint \in Nat
  BY RecIs, MaxVintIs
<1>2. K = {}
  BY <1>1 DEF LastBytes
<1>3. DecodeVarint(m, r) = Failed(Advance(r, d))
  BY <1>1, <1>2, DecodeVarintForm
<1>6. d \in Nat /\ p + d \in Nat /\ l - d \in Nat /\ d \in 0 .. l /\ (l <= MaxVint => d = l)
  BY <1>1
<1> HIDE DEF d
<1> DEFINE a == Advance(r, d)
<1>4. a = Rec(p + d, l - d, t, y, v, e, o)
  BY <1>6, AdvanceIs
<1> HIDE DEF a
<1>5. Failed(a) = Rec(p + d, l - d, t, y, v, e, No)
  BY <1>4, <1>6, FailedIs
<1>7. DecodeVarint(m, r) = Rec(p + d, l - d, t, y, v, e, No)
  BY <1>3, <1>5 DEF a
<1> QED BY <1>6, <1>7

LEMMA GroupPowers ==
  ASSUME NEW i \in 1 .. MaxVint
  PROVE  /\ i - 1 \in 0 .. MaxVint /\ Pow2[Payload * (i - 1)] \in Nat \ {0} /\ Pow2[Payload * i] \in Nat \ {0}
         /\ Pow2[Payload * i] = Pow2[Payload * (i - 1)] * Pow2[Payload]
<1> DEFINE k == i - 1
           e == Payload * k
<1>1. k \in 0 .. MaxVint /\ i = k + 1 /\ i \in 0 .. MaxVint /\ k \in Nat /\ Payload \in Nat
  BY MaxVintIs, Widths
<1>2. Payload * i = e + Payload /\ e \in Nat
  <2>1. Payload * (k + 1) = Payload * k + Payload
    BY <1>1
  <2> QED BY <1>1, <2>1
<1>3. e + Payload <= Int64 + Payload
  <2>1. Payload * i \in 0 .. Int64 + Payload
    BY <1>1, MaxVintIs
  <2> QED BY <2>1, <1>2
<1> HIDE DEF e
<1>4. Pow2[e + Payload] = Pow2[e] * Pow2[Payload]
  BY <1>1, <1>2, <1>3, Pow2Sum
<1>5. \A j \in 0 .. MaxVint : Pow2[Payload * j] \in Nat \ {0}
  BY PayloadPowers
<1> HIDE DEF k
<1>6. Pow2[Payload * k] \in Nat \ {0} /\ Pow2[Payload * i] \in Nat \ {0}
  BY <1>1, <1>5
<1> QED BY <1>1, <1>2, <1>4, <1>6 DEF e, k

\* The value of the first i groups.
LEMMA WordNat ==
  ASSUME NEW m, NEW r, NEW l \in Nat, \A i \in 1 .. l : Byte(m, r, i) \in Nat
  PROVE  \A i \in 0 .. MaxVint : i <= l => Word(m, r)[i] \in 0 .. Pow2[Payload * i] - 1
<1> DEFINE w == Word(m, r)
           T == {i \in 0 .. MaxVint : i <= l /\ w[i] \notin 0 .. Pow2[Payload * i] - 1}
<1> SUFFICES ASSUME T # {} PROVE FALSE
  OBVIOUS
<1>1. PICK j \in T : \A x \in T : j <= x
  <2>1. T \in SUBSET Nat
    BY MaxVintIs
  <2> HIDE DEF T
  <2> QED BY <2>1, LeastElement
<1>2. j \in 0 .. MaxVint /\ j <= l /\ w[j] \notin 0 .. Pow2[Payload * j] - 1 /\ MaxVint \in Nat
  BY MaxVintIs
<1>3. j # 0
  <2>1. w[0] = 0 /\ Payload * 0 = 0 /\ Pow2[0] = 1
    BY WordIs, PayloadPowers
  <2> HIDE DEF w
  <2> QED BY <2>1, <1>2
<1>4. j \in 1 .. MaxVint /\ j - 1 \in 0 .. MaxVint /\ j - 1 <= l
  BY <1>2, <1>3
<1>5. j - 1 \notin T
  <2> HIDE DEF T
  <2> QED BY <1>1, <1>2
<1>6. w[j-1] \in 0 .. Pow2[Payload * (j - 1)] - 1
  BY <1>4, <1>5
<1> DEFINE c == Byte(m, r, j) % Pow2[Payload]
           a == Pow2[Payload * (j - 1)]
<1>7. w[j] = w[j-1] + c * a
  BY <1>4, WordIs
<1>8. a \in Nat \ {0} /\ Pow2[Payload * j] = a * Pow2[Payload] /\ Pow2[Payload] \in Nat \ {0}
  BY <1>4, GroupPowers, PayloadPowers
<1>9. c \in 0 .. Pow2[Payload] - 1
  <2>1. Byte(m, r, j) \in Nat
    BY <1>2, <1>4
  <2> DEFINE b == Byte(m, r, j)
  <2> HIDE DEF b
  <2>2. b % Pow2[Payload] \in 0 .. Pow2[Payload] - 1
    BY <2>1, <1>8, Division DEF b
  <2> QED BY <2>2 DEF b
<1> HIDE DEF a, c, w, T
<1>10. w[j] \in 0 .. Pow2[Payload * j] - 1
  <2> DEFINE q == Pow2[Payload]
             z == w[j-1]
  <2>1. z \in 0 .. a - 1
    BY <1>6 DEF a
  <2>2. q \in Nat \ {0} /\ c \in 0 .. q - 1
    BY <1>8, <1>9
  <2> HIDE DEF q, z
  <2>3. c * a <= a * q - a /\ c * a \in Nat /\ a * q \in Nat
    <3> DEFINE d == q - 1
    <3>1. d \in Nat /\ c \in Nat /\ c <= d /\ q = d + 1 /\ a \in Nat
      BY <2>2, <1>8
    <3> HIDE DEF d
    <3>2. a * c <= a * d /\ a * c \in Nat /\ a * d \in Nat
      BY <3>1, Products
    <3>3. a * c = c * a /\ a * (d + 1) = a * d + a
      BY <3>1
    <3> QED BY <3>1, <3>2, <3>3
  <2> DEFINE u == c * a
             v == a * q
  <2>4. u \in Nat /\ v \in Nat /\ u <= v - a
    BY <2>3
  <2> HIDE DEF u, v
  <2>5. z + u \in 0 .. v - 1
    BY <2>1, <2>4, <1>8
  <2> QED BY <2>5, <1>7, <1>8 DEF u, v, q, z
<1> QED BY <1>2, <1>10 DEF w

LEMMA UsedBytes ==
  ASSUME NEW w \in 0 .. Pow2[Int64] - 1, NEW i \in 1 .. Used(w)
  PROVE  /\ i \in 1 .. MaxVint
         /\ i < Used(w) => ~(VintBytes(w)[i] < Pow2[Payload])
         /\ i = Used(w) => VintBytes(w)[i] < Pow2[Payload]
         /\ VintBytes(w)[i] % Pow2[Payload] = (w \div Pow2[Payload * (i - 1)]) % Pow2[Payload]
<1>1. Used(w) \in 1 .. MaxVint /\ MaxVint \in Nat /\ i \in 1 .. MaxVint /\ w \in Nat
  BY UsedIs, MaxVintIs, PayloadPowers
<1> DEFINE a == Pow2[Payload * (i - 1)]
           q == Pow2[Payload]
           d == (w \div a) % q
           u == Used(w)
<1>2. VintBytes(w)[i] = d + (IF i < u THEN q ELSE 0)
  <2>1. VintBytes(w) = [k \in 1 .. Used(w) |-> ((w \div Pow2[Payload * (k - 1)]) % Pow2[Payload])
                                                + (IF k < Used(w) THEN Pow2[Payload] ELSE 0)]
    BY VintBytesIs
  <2> QED BY <2>1
<1>3. a \in Nat \ {0} /\ q \in Nat \ {0}
  BY <1>1, GroupPowers, PayloadPowers
<1> HIDE DEF a, q, u
<1>4. d \in 0 .. q - 1
  <2>1. w \div a \in Nat
    BY <1>1, <1>3, Division
  <2> DEFINE b == w \div a
  <2> HIDE DEF b
  <2>2. b % q \in 0 .. q - 1
    BY <2>1, <1>3, Division DEF b
  <2> QED BY <2>2 DEF b
<1> HIDE DEF d
<1>5. u \in Nat /\ i \in 1 .. u
  BY <1>1 DEF u
<1>6. (d + q) % q = d /\ (d + 0) % q = d
  <2>1. d + q \in Nat /\ d + 0 \in Nat /\ d + q = q * 1 + d /\ d + 0 = q * 0 + d /\ 0 \in Nat /\ 1 \in Nat
    BY <1>3, <1>4
  <2> DEFINE x == d + q
             z == d + 0
             n0 == 0
             n1 == 1
  <2>2. x \in Nat /\ z \in Nat /\ x = q * n1 + d /\ z = q * n0 + d /\ n0 \in Nat /\ n1 \in Nat
    BY <2>1
  <2> HIDE DEF x, z, n0, n1
  <2>3. x % q = d /\ z % q = d
    BY <2>2, <1>3, <1>4, DivisionIs
  <2> QED BY <2>3 DEF x, z
<1>7. VintBytes(w)[i] % q = d
  BY <1>2, <1>6
<1>8. (i < u => ~(VintBytes(w)[i] < q)) /\ (i = u => VintBytes(w)[i] < q)
  BY <1>2, <1>3, <1>4, <1>5
<1> QED BY <1>1, <1>7, <1>8 DEF u, q, d, a

\* What pb_add_vint wrote is what pb_decode_varint reads.
LEMMA VintRead ==
  ASSUME NEW m, NEW p \in Nat, NEW l \in Nat, NEW t, NEW y, NEW v, NEW e, NEW o, NEW r, r = Rec(p, l, t, y, v, e, o),
         NEW w \in 0 .. Pow2[Int64] - 1, Used(w) <= l,
         \A i \in 1 .. Used(w) : Byte(m, r, i) = VintBytes(w)[i]
  PROVE  DecodeVarint(m, r) = Rec(p + Used(w), l - Used(w), t, y, w, e, o)
<1> DEFINE u == Used(w)
           g == Word(m, r)
<1>1. /\ u \in 1 .. MaxVint /\ MaxVint \in Nat /\ u \in Nat /\ w \in Nat /\ u \in 1 .. u
      /\ w < Pow2[Payload * u] /\ Pow2[Payload * u] \in Nat \ {0} /\ Pow2[Int64] \in Nat \ {0}
  <2>1. u \in 1 .. MaxVint /\ MaxVint \in Nat /\ u \in Nat /\ w \in Nat /\ u \in 1 .. u /\ w < Pow2[Payload * u] /\ Pow2[Int64] \in Nat \ {0}
    BY UsedIs, MaxVintIs, PayloadPowers
  <2>2. Pow2[Payload * u] \in Nat \ {0}
    BY <2>1, GroupPowers
  <2> QED BY <2>1, <2>2
<1>2. Byte(m, r, u) < Pow2[Payload] /\ \A k \in 1 .. u - 1 : ~(Byte(m, r, k) < Pow2[Payload])
  <2>1. Byte(m, r, u) < Pow2[Payload]
    BY <1>1, UsedBytes
  <2>2. ASSUME NEW k \in 1 .. u - 1 PROVE ~(Byte(m, r, k) < Pow2[Payload])
    <3>1. k \in 1 .. u /\ k < u
      BY <1>1
    <3> QED BY <3>1, UsedBytes
  <2> QED BY <2>1, <2>2
<1>3. DecodeVarint(m, r) = Rec(p + u, l - u, t, y, g[u] % Pow2[Int64], e, o)
  <2>1. u <= l
    OBVIOUS
  <2> HIDE DEF u
  <2> QED BY <1>1, <1>2, <2>1, DecodeVarintOk
<1>4. Spells(g, Payload, u, w)
  <2>1. g[0] = 0
    BY WordIs
  <2>2. ASSUME NEW i \in 1 .. u
        PROVE  g[i] = g[i-1] + ((w \div Pow2[Payload * (i - 1)]) % Pow2[Payload]) * Pow2[Payload * (i - 1)]
    <3>1. i \in 1 .. MaxVint
      BY <1>1
    <3>2. g[i] = g[i-1] + (Byte(m, r, i) % Pow2[Payload]) * Pow2[Payload * (i - 1)]
      BY <3>1, WordIs
    <3>3. Byte(m, r, i) % Pow2[Payload] = (w \div Pow2[Payload * (i - 1)]) % Pow2[Payload]
      BY UsedBytes
    <3> QED BY <3>2, <3>3
  <2> QED BY <2>1, <2>2 DEF Spells
<1>5. Payload \in Nat /\ Payload * u <= Int64 + Payload
  <2>1. u \in 0 .. MaxVint
    BY <1>1
  <2> HIDE DEF u
  <2>2. Payload * u \in 0 .. Int64 + Payload
    BY <2>1, MaxVintIs
  <2> QED BY <2>2, Widths
<1> HIDE DEF u, g
<1>7. g[u] = w % Pow2[Payload * u]
  BY <1>1, <1>4, <1>5, Digits
<1>8. ASSUME NEW b \in Nat \ {0}, w < b PROVE w % b = w
  BY <1>1, <1>8, SmallMod
<1>9. g[u] = w
  BY <1>1, <1>7, <1>8
<1>10. w % Pow2[Int64] = w
  BY <1>1, <1>8
<1> QED BY <1>3, <1>9, <1>10 DEF u

\* A part of it is no varint.
LEMMA VintCut ==
  ASSUME NEW m, NEW p \in Nat, NEW l \in Nat, NEW t, NEW y, NEW v, NEW e, NEW o, NEW r, r = Rec(p, l, t, y, v, e, o),
         NEW w \in 0 .. Pow2[Int64] - 1, l < Used(w),
         \A i \in 1 .. l : Byte(m, r, i) = VintBytes(w)[i]
  PROVE  DecodeVarint(m, r) = Rec(p + l, 0, t, y, v, e, No)
<1>1. Used(w) \in 1 .. MaxVint /\ MaxVint \in Nat
  BY UsedIs, MaxVintIs
<1>2. ASSUME NEW n \in 1 .. MaxVint, n <= l PROVE ~(Byte(m, r, n) < Pow2[Payload])
  <2>1. n \in 1 .. Used(w) /\ n < Used(w) /\ n \in 1 .. l
    BY <1>1, <1>2
  <2> QED BY <2>1, UsedBytes
<1>3. PICK d \in 0 .. l : (l <= MaxVint => d = l) /\ DecodeVarint(m, r) = Rec(p + d, l - d, t, y, v, e, No)
  BY <1>2, DecodeVarintFails
<1>4. d = l /\ l - d = 0
  <2>1. l <= MaxVint
    BY <1>1
  <2>2. d = l
    BY <1>3, <2>1
  <2> QED BY <2>2
<1> QED BY <1>3, <1>4

\* Any message: the reader stays inside, and a value needs no more bytes than
\* it was read from.
LEMMA VintAny ==
  ASSUME NEW m \in Seq(Bytes), NEW p \in Nat, NEW l \in Nat, p + l <= Len(m),
         NEW t, NEW y, NEW v, NEW e, NEW o, NEW r, r = Rec(p, l, t, y, v, e, o)
  PROVE  \/ \E d \in 0 .. l : DecodeVarint(m, r) = Rec(p + d, l - d, t, y, v, e, No)
         \/ \E n \in 1 .. l, w \in 0 .. Pow2[Int64] - 1 :
              Used(w) <= n /\ DecodeVarint(m, r) = Rec(p + n, l - n, t, y, w, e, o)
<1>1. MaxVint \in Nat /\ Pow2[Int64] \in Nat \ {0} /\ r.pos = p
  BY MaxVintIs, PayloadPowers, RecIs
<1>2. CASE \A n \in 1 .. MaxVint : n <= l => ~(Byte(m, r, n) < Pow2[Payload])
  <2>1. PICK d \in 0 .. l : DecodeVarint(m, r) = Rec(p + d, l - d, t, y, v, e, No)
    BY <1>2, DecodeVarintFails
  <2> QED BY <2>1
<1>3. CASE ~\A n \in 1 .. MaxVint : n <= l => ~(Byte(m, r, n) < Pow2[Payload])
  <2> DEFINE K == {n \in 1 .. MaxVint : n <= l /\ Byte(m, r, n) < Pow2[Payload]}
  <2>1. K # {} /\ K \in SUBSET Nat
    BY <1>1, <1>3
  <2>2. PICK n \in K : \A k \in K : n <= k
    <3> HIDE DEF K
    <3> QED BY <2>1, LeastElement
  <2>3. n \in 1 .. MaxVint /\ n <= l /\ Byte(m, r, n) < Pow2[Payload]
    OBVIOUS
  <2>4. ASSUME NEW k \in 1 .. n - 1 PROVE ~(Byte(m, r, k) < Pow2[Payload])
    <3>1. k \in 1 .. MaxVint /\ k <= l /\ ~(n <= k)
      BY <2>3, <1>1
    <3>2. k \notin K
      <4> HIDE DEF K
      <4> QED BY <2>2, <3>1
    <3> QED BY <3>1, <3>2
  <2> HIDE DEF K
  <2> DEFINE g == Word(m, r)[n]
             w == g % Pow2[Int64]
  <2>5. DecodeVarint(m, r) = Rec(p + n, l - n, t, y, w, e, o)
    BY <2>3, <2>4, DecodeVarintOk
  <2>6. g \in 0 .. Pow2[Payload * n] - 1
    <3>1. ASSUME NEW i \in 1 .. l PROVE Byte(m, r, i) \in Nat
      <4>1. p + i \in 1 .. Len(m)
        BY LenProperties
      <4>2. m[p + i] \in Bytes
        BY <4>1, ElementOfSeq
      <4>3. Bytes \subseteq Nat
        BY PayloadPowers DEF Bytes
      <4> QED BY <4>2, <4>3, <1>1 DEF Byte
    <3>2. n \in 0 .. MaxVint
      BY <2>3
    <3> QED BY <3>1, <3>2, <2>3, WordNat
  <2>7. Pow2[Payload * n] \in Nat \ {0}
    BY <2>3, GroupPowers
  <2> HIDE DEF g
  <2>8. w \in 0 .. Pow2[Int64] - 1 /\ w <= g
    <3>1. g \in Nat
      BY <2>6, <2>7
    <3> QED BY <3>1, <1>1
  <2> HIDE DEF w
  <2>9. w \in Nat /\ w < Pow2[Payload * n]
    BY <2>6, <2>7, <2>8, <1>1
  <2>10. Used(w) <= n
    <3>1. /\ Used(w) \in 1 .. MaxVint
          /\ w # 0 => w >= Pow2[Payload * (Used(w) - 1)]
          /\ w = 0 => Used(w) = 1
      BY <2>8, UsedIs
    <3>2. CASE w = 0
      BY <3>1, <3>2, <2>3
    <3>3. CASE w # 0
      <4> SUFFICES ASSUME ~(Used(w) <= n) PROVE FALSE
        OBVIOUS
      <4> DEFINE k == Used(w) - 1
                 a == Payload * n
                 b == Payload * k
      <4>1. n <= k /\ k \in Nat /\ n \in Nat /\ k \in 0 .. MaxVint /\ Used(w) \in 1 .. MaxVint
        BY <3>1, <2>3, <1>1
      <4>2. Pow2[b] \in Nat
        BY <4>1, GroupPowers
      <4> HIDE DEF k
      <4>3. a <= b /\ a \in Nat /\ b \in Nat
        BY <4>1, Widths, Products
      <4>4. b <= Int64 + Payload
        BY <4>1, MaxVintIs
      <4> HIDE DEF a, b
      <4>5. Pow2[a] <= Pow2[b]
        BY <4>3, <4>4, Pow2Order
      <4>6. w < Pow2[a] /\ w >= Pow2[b] /\ Pow2[a] \in Nat
        BY <3>1, <3>3, <2>7, <2>9 DEF a, b, k
      <4> QED BY <4>2, <4>5, <4>6, <2>9
    <3> QED BY <3>2, <3>3
  <2>11. n \in 1 .. l
    BY <2>3
  <2> QED BY <2>5, <2>8, <2>10, <2>11
<1> QED BY <1>2, <1>3

-----------------------------------------------------------------------------
(***************************************************************************)
(* pb_decode_fixed32, pb_decode_fixed64.                                   *)
(***************************************************************************)
IsFixWord(g, m, r, n) ==
  g = [i \in 0 .. n |-> IF i = 0 THEN 0 ELSE g[i-1] + Byte(m, r, i) * Pow2[(Payload + 1) * (i - 1)]]

FixWord(m, r, n) == CHOOSE g : IsFixWord(g, m, r, n)

LEMMA FixWordIs ==
  ASSUME NEW m, NEW r, NEW n \in Nat
  PROVE  /\ FixWord(m, r, n)[0] = 0
         /\ \A i \in 1 .. n :
              FixWord(m, r, n)[i] = FixWord(m, r, n)[i-1] + Byte(m, r, i) * Pow2[(Payload + 1) * (i - 1)]
<1> DEFINE X(i) == Byte(m, r, i) * Pow2[(Payload + 1) * (i - 1)]
           f1 == [i \in 1 .. n |-> X(i)]
<1>1. PICK g : IsSum(g, f1, n)
  BY SumExists
<1>2. g = [k \in 0 .. n |-> IF k = 0 THEN 0 ELSE g[k - 1] + f1[k]]
  BY <1>1 DEF IsSum
<1>3. IsFixWord(g, m, r, n)
  <2> HIDE DEF X
  <2>1. \A k \in 0 .. n : k # 0 => f1[k] = X(k)
    OBVIOUS
  <2>2. g = [k \in 0 .. n |-> IF k = 0 THEN 0 ELSE g[k - 1] + X(k)]
    BY <1>2, <2>1
  <2> QED BY <2>2 DEF IsFixWord, X
<1>4. IsFixWord(FixWord(m, r, n), m, r, n)
  BY <1>3, Zenon DEF FixWord
<1> DEFINE w == FixWord(m, r, n)
<1>5. w = [k \in 0 .. n |-> IF k = 0 THEN 0 ELSE w[k - 1] + X(k)]
  BY <1>4 DEF IsFixWord
<1> HIDE DEF X, w
<1>6. w[0] = 0 /\ \A i \in 1 .. n : w[i] = w[i-1] + X(i)
  BY <1>5
<1> QED BY <1>6 DEF X, w

LEMMA DecodeFixedForm ==
  ASSUME NEW m, NEW r, NEW n
  PROVE  DecodeFixed(m, r, n) =
           IF Get(r, n).ok THEN [Get(r, n) EXCEPT !.val = FixWord(m, r, n)[n]] ELSE Get(r, n)
BY Zenon DEF DecodeFixed, FixWord, IsFixWord

\* Numbers of n bytes.
LEMMA FixPowers ==
  ASSUME NEW i \in Nat, i <= Fix64
  PROVE  /\ Payload + 1 \in Nat /\ (Payload + 1) * i \in Nat /\ (Payload + 1) * i <= Int64 /\ (Payload + 1) * i <= Int64 + Payload
         /\ Pow2[(Payload + 1) * i] \in Nat \ {0}
         /\ i > 0 => Pow2[(Payload + 1) * i] = Pow2[(Payload + 1) * (i - 1)] * Pow2[Payload + 1]
                     /\ Pow2[(Payload + 1) * (i - 1)] \in Nat \ {0}
         /\ Pow2[Payload + 1] \in Nat \ {0} /\ Bytes = 0 .. Pow2[Payload + 1] - 1
         /\ (Payload + 1) * Fix64 = Int64 /\ (Payload + 1) * Fix32 = Int32
<1> DEFINE b == Payload + 1
<1>1. /\ b \in Nat \ {0} /\ Fix64 \in Nat /\ Fix32 \in Nat /\ b * Fix64 = Int64 /\ b * Fix32 = Int32
      /\ Int64 \in Nat /\ Payload \in Nat
  BY Widths
<1>2. Pow2[b] \in Nat \ {0} /\ Bytes = 0 .. Pow2[b] - 1
  <2>1. b \in 0 .. Int64 + Payload
    BY Widths
  <2> QED BY <2>1, Pow2Nat DEF Bytes
<1> HIDE DEF b
<1>3. ASSUME NEW k \in Nat, k <= Fix64
      PROVE b * k \in Nat /\ b * k <= Int64 /\ b * k <= Int64 + Payload /\ Pow2[b * k] \in Nat \ {0}
  <2>1. b * k \in Nat /\ b * k <= b * Fix64
    BY <1>1, <1>3, Products
  <2>2. b * k \in 0 .. Int64 + Payload
    BY <1>1, <2>1
  <2> QED BY <2>1, <2>2, <1>1, Pow2Nat
<1>4. ASSUME i > 0 PROVE Pow2[b * i] = Pow2[b * (i - 1)] * Pow2[b] /\ Pow2[b * (i - 1)] \in Nat \ {0}
  <2> DEFINE k == i - 1
             e == b * k
  <2>1. k \in Nat /\ k <= Fix64 /\ i = k + 1
    BY <1>1, <1>4
  <2> HIDE DEF k
  <2>2. b * i = e + b
    BY <1>1, <2>1
  <2>3. e \in Nat /\ e + b <= Int64 + Payload /\ Pow2[e] \in Nat \ {0}
    BY <1>1, <1>3, <2>1, <2>2
  <2> HIDE DEF e
  <2>4. Pow2[e + b] = Pow2[e] * Pow2[b]
    BY <1>1, <2>3, Pow2Sum
  <2> QED BY <2>2, <2>3, <2>4 DEF e, k
<1>5. i \in Nat /\ i <= Fix64
  OBVIOUS
<1> QED BY <1>1, <1>2, <1>3, <1>4, <1>5 DEF b

LEMMA FixWordNat ==
  ASSUME NEW m, NEW r, NEW n \in Nat, n <= Fix64, \A i \in 1 .. n : Byte(m, r, i) \in Bytes
  PROVE  FixWord(m, r, n)[n] \in 0 .. Pow2[(Payload + 1) * n] - 1
<1> DEFINE w == FixWord(m, r, n)
           b == Payload + 1
           T == {i \in 0 .. n : w[i] \notin 0 .. Pow2[b * i] - 1}
<1> SUFFICES ASSUME T # {} PROVE FALSE
  <2>1. n \in 0 .. n
    OBVIOUS
  <2> QED BY <2>1
<1>1. PICK j \in T : \A x \in T : j <= x
  <2>1. T \in SUBSET Nat
    OBVIOUS
  <2> HIDE DEF T
  <2> QED BY <2>1, LeastElement
<1>2. j \in 0 .. n /\ w[j] \notin 0 .. Pow2[b * j] - 1
  OBVIOUS
<1>3. j # 0
  <2>1. w[0] = 0 /\ b * 0 = 0 /\ Pow2[0] = 1
    BY FixWordIs, PayloadPowers, Widths
  <2> HIDE DEF w
  <2> QED BY <2>1, <1>2
<1>4. j \in 1 .. n /\ j - 1 \in 0 .. n /\ j \in Nat /\ j <= Fix64 /\ j > 0
  BY <1>2, <1>3, FixOrder
<1>5. j - 1 \notin T
  <2> HIDE DEF T
  <2> QED BY <1>1, <1>2
<1>6. w[j-1] \in 0 .. Pow2[b * (j - 1)] - 1
  BY <1>4, <1>5
<1> DEFINE c == Byte(m, r, j)
           a == Pow2[b * (j - 1)]
           q == Pow2[b]
<1>7. w[j] = w[j-1] + c * a
  BY <1>4, FixWordIs
<1>8. a \in Nat \ {0} /\ Pow2[b * j] = a * q /\ q \in Nat \ {0} /\ c \in 0 .. q - 1
  <2>1. c \in Bytes
    BY <1>4
  <2> QED BY <2>1, <1>4, FixPowers
<1> DEFINE z == w[j-1]
<1>9. z \in 0 .. a - 1
  BY <1>6
<1> HIDE DEF a, c, w, T, q, z
<1>10. c * a <= a * q - a /\ c * a \in Nat /\ a * q \in Nat
  <2> DEFINE d == q - 1
  <2>1. d \in Nat /\ c \in Nat /\ c <= d /\ q = d + 1 /\ a \in Nat
    BY <1>8
  <2> HIDE DEF d
  <2>2. a * c <= a * d /\ a * c \in Nat /\ a * d \in Nat
    BY <2>1, Products
  <2>3. a * c = c * a /\ a * (d + 1) = a * d + a
    BY <2>1
  <2> QED BY <2>1, <2>2, <2>3
<1> DEFINE u == c * a
           v == a * q
<1>11. u \in Nat /\ v \in Nat /\ u <= v - a
  BY <1>10
<1> HIDE DEF u, v
<1>12. z + u \in 0 .. v - 1
  BY <1>8, <1>9, <1>11
<1> QED BY <1>2, <1>7, <1>8, <1>12 DEF u, v, z

LEMMA DecodeFixedIs ==
  ASSUME NEW m, NEW p \in Nat, NEW l \in Nat, NEW t, NEW y, NEW v, NEW e, NEW r, r = Rec(p, l, t, y, v, e, Yes),
         NEW n \in Nat
  PROVE  /\ l < n => DecodeFixed(m, r, n) = Rec(p, l, t, y, v, e, No)
         /\ n <= l => DecodeFixed(m, r, n) = Rec(p + n, l - n, t, y, FixWord(m, r, n)[n], e, Yes)
<1>1. r.left = l
  BY RecIs
<1>2. ASSUME l < n PROVE DecodeFixed(m, r, n) = Rec(p, l, t, y, v, e, No)
  <2> DEFINE s == Get(r, n)
  <2>1. s = Failed(r)
    BY <1>1, <1>2 DEF Get
  <2> HIDE DEF s
  <2>2. s = Rec(p, l, t, y, v, e, No)
    BY <2>1, FailedIs
  <2>3. s.ok = No
    BY <2>2, RecIs
  <2>4. ~s.ok
    BY <2>3 DEF No
  <2>5. DecodeFixed(m, r, n) = s
    BY <2>4, DecodeFixedForm, Zenon DEF s
  <2> QED BY <2>2, <2>5
<1>3. ASSUME n <= l PROVE DecodeFixed(m, r, n) = Rec(p + n, l - n, t, y, FixWord(m, r, n)[n], e, Yes)
  <2> DEFINE s == Get(r, n)
             w == FixWord(m, r, n)[n]
             x == [s EXCEPT !.val = w]
  <2>1. s = Advance(r, n)
    BY <1>1, <1>3 DEF Get
  <2>2. x = [s EXCEPT !.val = w]
    OBVIOUS
  <2> HIDE DEF s, w, x
  <2>3. s = Rec(p + n, l - n, t, y, v, e, Yes)
    BY <2>1, AdvanceIs
  <2>4. s.ok = Yes
    BY <2>3, RecIs
  <2>5. s.ok
    BY <2>4 DEF Yes
  <2>6. DecodeFixed(m, r, n) = x
    BY <2>5, DecodeFixedForm, Zenon DEF s, x, w
  <2>7. x = Rec(p + n, l - n, t, y, w, e, Yes)
    BY <2>2, <2>3 DEF Rec
  <2> QED BY <2>6, <2>7 DEF w
<1> QED BY <1>2, <1>3

LEMMA FixedAny ==
  ASSUME NEW m \in Seq(Bytes), NEW p \in Nat, NEW l \in Nat, p + l <= Len(m),
         NEW t, NEW y, NEW v, NEW e, NEW r, r = Rec(p, l, t, y, v, e, Yes), NEW n \in Nat, n <= Fix64
  PROVE  \/ DecodeFixed(m, r, n) = Rec(p, l, t, y, v, e, No)
         \/ n <= l /\ \E w \in 0 .. Pow2[(Payload + 1) * n] - 1 :
              DecodeFixed(m, r, n) = Rec(p + n, l - n, t, y, w, e, Yes)
<1>1. CASE l < n
  BY <1>1, DecodeFixedIs
<1>2. CASE n <= l
  <2>1. r.pos = p
    BY RecIs
  <2>2. ASSUME NEW i \in 1 .. n PROVE Byte(m, r, i) \in Bytes
    <3>1. p + i \in 1 .. Len(m)
      BY <1>2, LenProperties
    <3>2. m[p + i] \in Bytes
      BY <3>1, ElementOfSeq
    <3> QED BY <3>2, <2>1 DEF Byte
  <2> DEFINE w == FixWord(m, r, n)[n]
  <2>3. w \in 0 .. Pow2[(Payload + 1) * n] - 1
    BY <2>2, FixWordNat
  <2>4. DecodeFixed(m, r, n) = Rec(p + n, l - n, t, y, w, e, Yes)
    BY <1>2, DecodeFixedIs
  <2> HIDE DEF w
  <2> QED BY <1>2, <2>3, <2>4
<1> QED BY <1>1, <1>2

-----------------------------------------------------------------------------
(***************************************************************************)
(* pb_decode_string.                                                       *)
(***************************************************************************)
LEMMA StringForm ==
  ASSUME NEW m, NEW r, NEW s, s = DecodeVarint(m, r)
  PROVE  DecodeString(m, r) =
           IF ~s.ok THEN s ELSE IF s.val > s.left THEN Failed(s)
           ELSE [Advance(s, s.val) EXCEPT !.val = SubSeq(m, s.pos + 1, s.pos + s.val)]
BY Zenon DEF DecodeString

LEMMA StringFails ==
  ASSUME NEW m, NEW p \in Nat, NEW l \in Nat, NEW t, NEW y, NEW w, NEW e, NEW r,
         DecodeVarint(m, r) = Rec(p, l, t, y, w, e, No)
  PROVE  DecodeString(m, r) = Rec(p, l, t, y, w, e, No)
<1> DEFINE s == DecodeVarint(m, r)
<1>0. s = DecodeVarint(m, r) /\ s = Rec(p, l, t, y, w, e, No)
  OBVIOUS
<1> HIDE DEF s
<1>1. s.ok = No
  BY <1>0, RecIs
<1>2. ~s.ok
  BY <1>1 DEF No
<1>3. DecodeString(m, r) = s
  BY <1>0, <1>2, StringForm, Zenon
<1> QED BY <1>0, <1>3

LEMMA StringLong ==
  ASSUME NEW m, NEW p \in Nat, NEW l \in Nat, NEW t, NEW y, NEW w \in Nat, NEW e, NEW r,
         DecodeVarint(m, r) = Rec(p, l, t, y, w, e, Yes), w > l
  PROVE  DecodeString(m, r) = Rec(p, l, t, y, w, e, No)
<1> DEFINE s == DecodeVarint(m, r)
<1>0. s = DecodeVarint(m, r) /\ s = Rec(p, l, t, y, w, e, Yes)
  OBVIOUS
<1> HIDE DEF s
<1>1. s.ok = Yes /\ s.val = w /\ s.left = l
  BY <1>0, RecIs
<1>2. s.ok /\ s.val > s.left
  BY <1>1 DEF Yes
<1>3. DecodeString(m, r) = Failed(s)
  BY <1>0, <1>2, StringForm, Zenon
<1>4. Failed(s) = Rec(p, l, t, y, w, e, No)
  BY <1>0, FailedIs
<1> QED BY <1>3, <1>4

LEMMA StringRead ==
  ASSUME NEW m, NEW p \in Nat, NEW l \in Nat, NEW t, NEW y, NEW w \in Nat, NEW e, NEW r,
         DecodeVarint(m, r) = Rec(p, l, t, y, w, e, Yes), w <= l
  PROVE  DecodeString(m, r) = Rec(p + w, l - w, t, y, SubSeq(m, p + 1, p + w), e, Yes)
<1> DEFINE s == DecodeVarint(m, r)
<1>0. s = DecodeVarint(m, r) /\ s = Rec(p, l, t, y, w, e, Yes)
  OBVIOUS
<1> HIDE DEF s
<1>1. s.ok = Yes /\ s.val = w /\ s.left = l /\ s.pos = p
  BY <1>0, RecIs
<1>2. s.ok
  BY <1>1 DEF Yes
<1>3. ~(s.val > s.left)
  BY <1>1
<1> DEFINE a == Advance(s, w)
           c == SubSeq(m, p + 1, p + w)
           x == [a EXCEPT !.val = c]
<1>8. DecodeString(m, r) =
        IF ~s.ok THEN s ELSE IF s.val > s.left THEN Failed(s)
        ELSE [Advance(s, s.val) EXCEPT !.val = SubSeq(m, s.pos + 1, s.pos + s.val)]
  BY <1>0, StringForm, Zenon
<1>4. DecodeString(m, r) = x
  BY <1>1, <1>2, <1>3, <1>8, Zenon
<1>5. x = [a EXCEPT !.val = c]
  OBVIOUS
<1>6. a = Rec(p + w, l - w, t, y, w, e, Yes)
  BY <1>0, AdvanceIs
<1> HIDE DEF a, c, x
<1>7. x = Rec(p + w, l - w, t, y, c, e, Yes)
  BY <1>5, <1>6 DEF Rec
<1> QED BY <1>4, <1>7 DEF c

-----------------------------------------------------------------------------
(***************************************************************************)
(* pb_decode_tag.                                                          *)
(***************************************************************************)
LEMMA DecodeTagForm ==
  ASSUME NEW m, NEW r, NEW s, s = DecodeVarint(m, [r EXCEPT !.ok = TRUE])
  PROVE  DecodeTag(m, r) =
           IF ~s.ok THEN [s EXCEPT !.eom = s.eom \/ s.left = 0]
           ELSE IF s.val = 0 THEN [Failed(s) EXCEPT !.eom = TRUE]
           ELSE DecodeValue(m, Retag(s, (s.val \div 8) % Pow2[Int32], s.val % 8), s.val % 8)
BY Zenon DEF DecodeTag, Retag

LEMMA TagStart ==
  ASSUME NEW p \in Nat, NEW l \in Nat, NEW t, NEW y, NEW v, NEW e, NEW o
  PROVE  [Rec(p, l, t, y, v, e, o) EXCEPT !.ok = TRUE] = Rec(p, l, t, y, v, e, Yes)
<1> DEFINE r == Rec(p, l, t, y, v, e, o)
           x == [r EXCEPT !.ok = TRUE]
           a == Yes
<1>0. r = Rec(p, l, t, y, v, e, o)
  OBVIOUS
<1>1. x = [r EXCEPT !.ok = a]
  BY DEF Yes
<1> HIDE DEF r, x, a
<1>2. x = Rec(p, l, t, y, v, e, a)
  BY <1>0, <1>1 DEF Rec
<1> QED BY <1>0, <1>2 DEF x, a

LEMMA TagFails ==
  ASSUME NEW m, NEW p0 \in Nat, NEW l0 \in Nat, NEW p \in Nat, NEW l \in Nat, NEW t, NEW y, NEW v, NEW w, NEW o,
         NEW r, r = Rec(p0, l0, t, y, v, No, o),
         DecodeVarint(m, Rec(p0, l0, t, y, v, No, Yes)) = Rec(p, l, t, y, w, No, No)
  PROVE  /\ l = 0 => DecodeTag(m, r) = Rec(p, l, t, y, w, Yes, No)
         /\ l # 0 => DecodeTag(m, r) = Rec(p, l, t, y, w, No, No)
<1> DEFINE s == DecodeVarint(m, Rec(p0, l0, t, y, v, No, Yes))
<1>00. s = Rec(p, l, t, y, w, No, No)
  OBVIOUS
<1>0. DecodeTag(m, r) =
        IF ~s.ok THEN [s EXCEPT !.eom = s.eom \/ s.left = 0]
        ELSE IF s.val = 0 THEN [Failed(s) EXCEPT !.eom = TRUE]
        ELSE DecodeValue(m, Retag(s, (s.val \div 8) % Pow2[Int32], s.val % 8), s.val % 8)
  <2>1. [r EXCEPT !.ok = TRUE] = Rec(p0, l0, t, y, v, No, Yes)
    BY TagStart
  <2>2. s = DecodeVarint(m, [r EXCEPT !.ok = TRUE])
    BY <2>1
  <2> QED BY <2>2, DecodeTagForm
<1> HIDE DEF s
<1>1. s.ok = No /\ s.eom = No /\ s.left = l
  BY <1>00, RecIs
<1> DEFINE a == s.eom \/ s.left = 0
           x == [s EXCEPT !.eom = a]
<1>2. ~s.ok
  BY <1>1 DEF No
<1>3. DecodeTag(m, r) = x
  BY <1>2, <1>0, Zenon
<1>4. (l = 0 => a = Yes) /\ (l # 0 => a = No)
  BY <1>1 DEF Yes, No
<1>5. x = [s EXCEPT !.eom = a]
  OBVIOUS
<1> HIDE DEF a, x
<1>6. x = Rec(p, l, t, y, w, a, No)
  BY <1>5, <1>00 DEF Rec
<1> QED BY <1>3, <1>4, <1>6

LEMMA TagZero ==
  ASSUME NEW m, NEW p0 \in Nat, NEW l0 \in Nat, NEW p \in Nat, NEW l \in Nat, NEW t, NEW y, NEW v, NEW w, NEW o,
         NEW r, r = Rec(p0, l0, t, y, v, No, o),
         DecodeVarint(m, Rec(p0, l0, t, y, v, No, Yes)) = Rec(p, l, t, y, w, No, Yes), w = 0
  PROVE  DecodeTag(m, r) = Rec(p, l, t, y, w, Yes, No)
<1> DEFINE s == DecodeVarint(m, Rec(p0, l0, t, y, v, No, Yes))
<1>00. s = Rec(p, l, t, y, w, No, Yes)
  OBVIOUS
<1>0. DecodeTag(m, r) =
        IF ~s.ok THEN [s EXCEPT !.eom = s.eom \/ s.left = 0]
        ELSE IF s.val = 0 THEN [Failed(s) EXCEPT !.eom = TRUE]
        ELSE DecodeValue(m, Retag(s, (s.val \div 8) % Pow2[Int32], s.val % 8), s.val % 8)
  <2>1. [r EXCEPT !.ok = TRUE] = Rec(p0, l0, t, y, v, No, Yes)
    BY TagStart
  <2>2. s = DecodeVarint(m, [r EXCEPT !.ok = TRUE])
    BY <2>1
  <2> QED BY <2>2, DecodeTagForm
<1> HIDE DEF s
<1>1. s.ok = Yes /\ s.val = w
  BY <1>00, RecIs
<1>2. s.ok /\ s.val = 0
  BY <1>1, <1>00 DEF Yes
<1> DEFINE a == Failed(s)
           c == Yes
           x == [a EXCEPT !.eom = TRUE]
<1>3. DecodeTag(m, r) = x
  BY <1>2, <1>0, Zenon
<1>4. a = Rec(p, l, t, y, w, No, No)
  BY <1>00, FailedIs
<1>5. x = [a EXCEPT !.eom = c]
  BY DEF Yes
<1> HIDE DEF a, c, x
<1>6. x = Rec(p, l, t, y, w, c, No)
  BY <1>4, <1>5 DEF Rec
<1> QED BY <1>3, <1>6 DEF c

LEMMA TagValue ==
  ASSUME NEW m, NEW p0 \in Nat, NEW l0 \in Nat, NEW p \in Nat, NEW l \in Nat, NEW t, NEW y, NEW v, NEW w \in Nat, NEW o,
         NEW r, r = Rec(p0, l0, t, y, v, No, o),
         DecodeVarint(m, Rec(p0, l0, t, y, v, No, Yes)) = Rec(p, l, t, y, w, No, Yes), w # 0
  PROVE  DecodeTag(m, r) = DecodeValue(m, Rec(p, l, (w \div 8) % Pow2[Int32], w % 8, w, No, Yes), w % 8)
<1> DEFINE s == DecodeVarint(m, Rec(p0, l0, t, y, v, No, Yes))
<1>00. s = Rec(p, l, t, y, w, No, Yes)
  OBVIOUS
<1>0. DecodeTag(m, r) =
        IF ~s.ok THEN [s EXCEPT !.eom = s.eom \/ s.left = 0]
        ELSE IF s.val = 0 THEN [Failed(s) EXCEPT !.eom = TRUE]
        ELSE DecodeValue(m, Retag(s, (s.val \div 8) % Pow2[Int32], s.val % 8), s.val % 8)
  <2>1. [r EXCEPT !.ok = TRUE] = Rec(p0, l0, t, y, v, No, Yes)
    BY TagStart
  <2>2. s = DecodeVarint(m, [r EXCEPT !.ok = TRUE])
    BY <2>1
  <2> QED BY <2>2, DecodeTagForm
<1> HIDE DEF s
<1>1. s.ok = Yes /\ s.val = w
  BY <1>00, RecIs
<1>2. s.ok
  BY <1>1 DEF Yes
<1>3. ~(s.val = 0)
  BY <1>1, <1>00
<1> DEFINE a == (w \div 8) % Pow2[Int32]
           b == w % 8
           x == Retag(s, a, b)
<1>4. DecodeTag(m, r) = DecodeValue(m, x, b)
  BY <1>1, <1>2, <1>3, <1>0, Zenon
<1>5. x = Retag(s, a, b)
  OBVIOUS
<1> HIDE DEF a, b, x
<1>6. s = Rec(p, l, t, y, w, No, Yes)
  BY <1>00
<1>7. Retag(Rec(p, l, t, y, w, No, Yes), a, b) = Rec(p, l, a, b, w, No, Yes)
  BY TagTypeIs
<1>8. x = Rec(p, l, a, b, w, No, Yes)
  BY <1>5, <1>6, <1>7, Zenon
<1> QED BY <1>4, <1>8 DEF a, b

LEMMA DecodeValueIs ==
  ASSUME NEW m, NEW r, NEW y
  PROVE  /\ y = PB_TYPE_VARINT => DecodeValue(m, r, y) = DecodeVarint(m, r)
         /\ y = PB_TYPE_FIXED64 => DecodeValue(m, r, y) = DecodeFixed(m, r, Fix64)
         /\ y = PB_TYPE_FIXED32 => DecodeValue(m, r, y) = DecodeFixed(m, r, Fix32)
         /\ y = PB_TYPE_STRING => DecodeValue(m, r, y) = DecodeString(m, r)
         /\ y \notin Types => DecodeValue(m, r, y) = Failed(r)
BY DEF DecodeValue, Types, PB_TYPE_VARINT, PB_TYPE_FIXED64, PB_TYPE_STRING, PB_TYPE_FIXED32

\* Behind the last field.
LEMMA TagEnd ==
  ASSUME NEW m, NEW p \in Nat, NEW t, NEW y, NEW v, NEW o, NEW r, r = Rec(p, 0, t, y, v, No, o)
  PROVE  DecodeTag(m, r) = Rec(p, 0, t, y, v, Yes, No)
<1> DEFINE s == Rec(p, 0, t, y, v, No, Yes)
           l == 0
<1>1. s = Rec(p, l, t, y, v, No, Yes) /\ r = Rec(p, l, t, y, v, No, o) /\ l \in Nat /\ \A n \in 1 .. MaxVint : ~(n <= l)
  BY MaxVintIs
<1>2. p + 0 = p /\ 0 - 0 = 0 /\ \A d \in 0 .. 0 : d = 0
  OBVIOUS
<1>3. l = 0
  OBVIOUS
<1> HIDE DEF l, s
<1>4. PICK d \in 0 .. l : DecodeVarint(m, s) = Rec(p + d, l - d, t, y, v, No, No)
  BY <1>1, DecodeVarintFails
<1>5. DecodeVarint(m, s) = Rec(p, l, t, y, v, No, No)
  <2>1. p + d = p /\ l - d = l
    BY <1>2, <1>3
  <2> QED BY <2>1, <1>4
<1>6. DecodeTag(m, r) = Rec(p, l, t, y, v, Yes, No)
  BY <1>1, <1>3, <1>5, TagFails DEF s
<1> QED BY <1>6, <1>3

-----------------------------------------------------------------------------
(***************************************************************************)
(* Any field.                                                              *)
(***************************************************************************)
LEMMA UsedGrows ==
  ASSUME NEW a \in 0 .. Pow2[Int64] - 1, NEW b \in 0 .. Pow2[Int64] - 1, a <= b
  PROVE  Used(a) <= Used(b)
<1>1. /\ MaxVint \in Nat /\ Pow2[Int64] \in Nat /\ Used(a) \in 1 .. MaxVint /\ Used(b) \in 1 .. MaxVint
      /\ b < Pow2[Payload * Used(b)]
      /\ a # 0 => a >= Pow2[Payload * (Used(a) - 1)]
      /\ a = 0 => Used(a) = 1
  BY UsedIs, MaxVintIs, PayloadPowers
<1> SUFFICES ASSUME ~(Used(a) <= Used(b)) PROVE FALSE
  OBVIOUS
<1> DEFINE n == Used(b)
           k == Used(a) - 1
           c == Payload * n
           d == Payload * k
<1>2. a # 0 /\ n <= k /\ k \in Nat /\ n \in Nat /\ k \in 0 .. MaxVint /\ n \in 0 .. MaxVint
  BY <1>1
<1>3. Pow2[d] \in Nat /\ Pow2[c] \in Nat
  BY <1>2, PayloadPowers
<1>8. a >= Pow2[Payload * (Used(a) - 1)] /\ b < Pow2[Payload * Used(b)]
  BY <1>1, <1>2
<1>6. a >= Pow2[d] /\ b < Pow2[c]
  BY <1>8, Zenon
<1> HIDE DEF n, k
<1>4. c <= d /\ c \in Nat /\ d \in Nat
  BY <1>2, Widths, Products
<1>5. d <= Int64 + Payload
  BY <1>2, MaxVintIs
<1> HIDE DEF c, d
<1>7. Pow2[c] <= Pow2[d]
  BY <1>4, <1>5, Pow2Order
<1> QED BY <1>1, <1>3, <1>6, <1>7

\* A value w of type y that takes at most n bytes.
Fits(y, w, n) ==
  /\ y \in Types
  /\ y = PB_TYPE_VARINT => w \in 0 .. Pow2[Int64] - 1 /\ Used(w) <= n
  /\ y = PB_TYPE_FIXED64 => w \in 0 .. Pow2[Int64] - 1 /\ Fix64 <= n
  /\ y = PB_TYPE_FIXED32 => w \in 0 .. Pow2[Int32] - 1 /\ Fix32 <= n
  /\ y = PB_TYPE_STRING => w \in Seq(Bytes) /\ Len(w) < Pow2[Int64] /\ Used(Len(w)) + Len(w) <= n

LEMMA TypesIs ==
  /\ PB_TYPE_VARINT \in Types /\ PB_TYPE_FIXED64 \in Types /\ PB_TYPE_FIXED32 \in Types /\ PB_TYPE_STRING \in Types
  /\ \A y \in Types : y = PB_TYPE_VARINT \/ y = PB_TYPE_FIXED64 \/ y = PB_TYPE_FIXED32 \/ y = PB_TYPE_STRING
  /\ PB_TYPE_VARINT # PB_TYPE_FIXED64 /\ PB_TYPE_VARINT # PB_TYPE_FIXED32 /\ PB_TYPE_VARINT # PB_TYPE_STRING
  /\ PB_TYPE_FIXED64 # PB_TYPE_FIXED32 /\ PB_TYPE_FIXED64 # PB_TYPE_STRING /\ PB_TYPE_FIXED32 # PB_TYPE_STRING
  /\ Types \subseteq 0 .. 7
BY DEF Types, PB_TYPE_VARINT, PB_TYPE_FIXED64, PB_TYPE_STRING, PB_TYPE_FIXED32

LEMMA FixTop ==
  /\ (Payload + 1) * Fix64 = Int64 /\ (Payload + 1) * Fix32 = Int32
BY Widths

\* The ways in which a call for a value of type y ends that began at p with l
\* bytes left.
ValueEnds(r, p, l, t, y) ==
  \/ \E w : \E d \in 0 .. l : r = Rec(p + d, l - d, t, y, w, No, No)
  \/ \E w : \E n \in 0 .. l : Fits(y, w, n) /\ r = Rec(p + n, l - n, t, y, w, No, Yes)

\* The reader of a value stays inside; what it returns takes no more bytes
\* than it read.
LEMMA ValueAny ==
  ASSUME NEW m \in Seq(Bytes), NEW p \in Nat, NEW l \in Nat, p + l <= Len(m), NEW t, NEW y, NEW v,
         NEW r, r = Rec(p, l, t, y, v, No, Yes)
  PROVE  ValueEnds(DecodeValue(m, r, y), p, l, t, y)
<1> SUFFICES \/ \E w : \E d \in 0 .. l : DecodeValue(m, r, y) = Rec(p + d, l - d, t, y, w, No, No)
             \/ \E w : \E n \in 0 .. l : Fits(y, w, n) /\ DecodeValue(m, r, y) = Rec(p + n, l - n, t, y, w, No, Yes)
  BY Zenon DEF ValueEnds
<1>0. 0 \in 0 .. l /\ p + 0 = p /\ l - 0 = l /\ 1 .. l \subseteq 0 .. l
  OBVIOUS
<1>1. CASE y = PB_TYPE_VARINT
  <2>1. DecodeValue(m, r, y) = DecodeVarint(m, r)
    BY <1>1, DecodeValueIs
  <2>2. \/ \E d \in 0 .. l : DecodeVarint(m, r) = Rec(p + d, l - d, t, y, v, No, No)
        \/ \E n \in 1 .. l, w \in 0 .. Pow2[Int64] - 1 :
              Used(w) <= n /\ DecodeVarint(m, r) = Rec(p + n, l - n, t, y, w, No, Yes)
    BY VintAny
  <2>3. ASSUME NEW n, NEW w \in 0 .. Pow2[Int64] - 1, Used(w) <= n PROVE Fits(y, w, n)
    BY <1>1, <2>3, TypesIs DEF Fits
  <2> QED BY <1>0, <2>1, <2>2, <2>3
<1>2. ASSUME NEW n \in Nat, n <= Fix64, DecodeValue(m, r, y) = DecodeFixed(m, r, n),
             \A w \in 0 .. Pow2[(Payload + 1) * n] - 1 : Fits(y, w, n)
      PROVE  \/ \E w : \E d \in 0 .. l : DecodeValue(m, r, y) = Rec(p + d, l - d, t, y, w, No, No)
             \/ \E w : \E k \in 0 .. l : Fits(y, w, k) /\ DecodeValue(m, r, y) = Rec(p + k, l - k, t, y, w, No, Yes)
  <2>1. \/ DecodeFixed(m, r, n) = Rec(p, l, t, y, v, No, No)
        \/ n <= l /\ \E w \in 0 .. Pow2[(Payload + 1) * n] - 1 :
              DecodeFixed(m, r, n) = Rec(p + n, l - n, t, y, w, No, Yes)
    BY <1>2, FixedAny
  <2>2. CASE DecodeFixed(m, r, n) = Rec(p, l, t, y, v, No, No)
    BY <1>0, <1>2, <2>2
  <2>3. CASE n <= l /\ \E w \in 0 .. Pow2[(Payload + 1) * n] - 1 :
               DecodeFixed(m, r, n) = Rec(p + n, l - n, t, y, w, No, Yes)
    <3>1. n \in 0 .. l
      BY <2>3
    <3> QED BY <3>1, <1>2, <2>3
  <2> QED BY <2>1, <2>2, <2>3
<1>3. CASE y = PB_TYPE_FIXED64
  <2>1. DecodeValue(m, r, y) = DecodeFixed(m, r, Fix64)
    BY <1>3, DecodeValueIs
  <2>2. Fix64 \in Nat /\ Fix64 <= Fix64
    BY FixOrder
  <2>3. \A w \in 0 .. Pow2[(Payload + 1) * Fix64] - 1 : Fits(y, w, Fix64)
    BY <1>3, <2>2, TypesIs, FixTop DEF Fits
  <2> QED BY <1>2, <2>1, <2>2, <2>3
<1>4. CASE y = PB_TYPE_FIXED32
  <2>1. DecodeValue(m, r, y) = DecodeFixed(m, r, Fix32)
    BY <1>4, DecodeValueIs
  <2>2. Fix32 \in Nat /\ Fix32 <= Fix64 /\ Fix32 <= Fix32
    BY FixOrder
  <2>3. \A w \in 0 .. Pow2[(Payload + 1) * Fix32] - 1 : Fits(y, w, Fix32)
    BY <1>4, <2>2, TypesIs, FixTop DEF Fits
  <2> QED BY <1>2, <2>1, <2>2, <2>3
<1>5. CASE y = PB_TYPE_STRING
  <2>1. DecodeValue(m, r, y) = DecodeString(m, r)
    BY <1>5, DecodeValueIs
  <2> DEFINE s == DecodeVarint(m, r)
  <2>2. \/ \E d \in 0 .. l : s = Rec(p + d, l - d, t, y, v, No, No)
        \/ \E n \in 1 .. l, w \in 0 .. Pow2[Int64] - 1 : Used(w) <= n /\ s = Rec(p + n, l - n, t, y, w, No, Yes)
    BY VintAny
  <2>3. s = DecodeVarint(m, r)
    OBVIOUS
  <2> HIDE DEF s
  <2>4. CASE \E d \in 0 .. l : s = Rec(p + d, l - d, t, y, v, No, No)
    <3>1. PICK d \in 0 .. l : s = Rec(p + d, l - d, t, y, v, No, No)
      BY <2>4
    <3> DEFINE q == p + d
               k == l - d
    <3>2. q \in Nat /\ k \in Nat /\ DecodeVarint(m, r) = Rec(q, k, t, y, v, No, No)
      BY <3>1, <2>3
    <3> HIDE DEF q, k
    <3>3. DecodeString(m, r) = Rec(q, k, t, y, v, No, No)
      BY <3>2, StringFails
    <3> QED BY <2>1, <3>3 DEF q, k
  <2>5. CASE \E n \in 1 .. l, w \in 0 .. Pow2[Int64] - 1 : Used(w) <= n /\ s = Rec(p + n, l - n, t, y, w, No, Yes)
    <3>1. PICK n \in 1 .. l, w \in 0 .. Pow2[Int64] - 1 : Used(w) <= n /\ s = Rec(p + n, l - n, t, y, w, No, Yes)
      BY <2>5
    <3> DEFINE q == p + n
               k == l - n
    <3>2. q \in Nat /\ k \in Nat /\ DecodeVarint(m, r) = Rec(q, k, t, y, w, No, Yes) /\ w \in Nat /\ n \in Nat
            /\ w < Pow2[Int64]
      BY <3>1, <2>3, PayloadPowers
    <3>3. CASE w > k
      <4> HIDE DEF q, k
      <4>1. DecodeString(m, r) = Rec(q, k, t, y, w, No, No)
        BY <3>2, <3>3, StringLong
      <4>2. n \in 0 .. l
        OBVIOUS
      <4> QED BY <2>1, <4>1, <4>2 DEF q, k
    <3>4. CASE w <= k
      <4> DEFINE c == SubSeq(m, q + 1, q + w)
                 j == n + w
      <4>1. q + w <= Len(m) /\ j \in 0 .. l /\ q + w = p + j /\ k - w = l - j
        BY <3>2, <3>4, LenProperties
      <4> HIDE DEF q, k
      <4>2. DecodeString(m, r) = Rec(q + w, k - w, t, y, c, No, Yes)
        <5>1. w \in Nat /\ w <= k
          BY <3>2, <3>4
        <5>2. q \in Nat /\ k \in Nat /\ DecodeVarint(m, r) = Rec(q, k, t, y, w, No, Yes)
          BY <3>2
        <5> DEFINE e == No
                   b == w
        <5>3. b \in Nat /\ b <= k /\ DecodeVarint(m, r) = Rec(q, k, t, y, b, e, Yes)
          BY <5>1, <5>2
        <5> HIDE DEF e, b
        <5>4. DecodeString(m, r) = Rec(q + b, k - b, t, y, SubSeq(m, q + 1, q + b), e, Yes)
          BY <5>2, <5>3, StringRead
        <5> QED BY <5>4 DEF e, b
      <4>3. c \in Seq(Bytes) /\ Len(c) = w
        <5>1. q \in Nat /\ w \in Nat /\ q + w <= Len(m)
          BY <3>2, <4>1
        <5> QED BY <5>1, Part, Zenon
      <4> HIDE DEF c
      <4>4. Fits(y, c, j)
        <5>1. Used(w) \in Nat /\ w < Pow2[Int64]
          <6>1. Used(w) \in 1 .. MaxVint /\ MaxVint \in Nat
            BY UsedIs, MaxVintIs
          <6> QED BY <6>1, <3>2
        <5>2. Used(Len(c)) + Len(c) <= j /\ Len(c) < Pow2[Int64]
          BY <5>1, <4>3, <3>1, <3>2
        <5> QED BY <5>2, <4>3, <1>5, TypesIs DEF Fits
      <4>5. DecodeString(m, r) = Rec(p + j, l - j, t, y, c, No, Yes)
        BY <4>1, <4>2
      <4> HIDE DEF j
      <4> QED BY <2>1, <4>1, <4>4, <4>5
    <3>5. w > k \/ w <= k
      BY <3>2
    <3> QED BY <3>3, <3>4, <3>5
  <2> QED BY <2>2, <2>4, <2>5
<1>6. CASE y \notin Types
  <2>1. DecodeValue(m, r, y) = Failed(r)
    BY <1>6, DecodeValueIs
  <2>2. Failed(r) = Rec(p, l, t, y, v, No, No)
    BY FailedIs
  <2> QED BY <1>0, <2>1, <2>2
<1> QED BY <1>1, <1>3, <1>4, <1>5, <1>6, TypesIs

\* The tag of a field takes no more bytes than it was read from.
LEMMA TagWordUsed ==
  ASSUME NEW w \in 0 .. Pow2[Int64] - 1, NEW t, t = (w \div 8) % Pow2[Int32], t \in 1 .. Pow2[Int32 - 3] - 1,
         NEW y \in Types, y = w % 8
  PROVE  Used(TagWord(y, t)) <= Used(w)
<1>1. Pow2[Int64] \in Nat /\ Pow2[Int32] \in Nat \ {0}
  BY PayloadPowers
<1>2. TagWord(y, t) = y + 8 * t /\ TagWord(y, t) \in 0 .. Pow2[Int64] - 1
  BY TagWordIs
<1> DEFINE q == w \div 8
<1>3. w \in Nat /\ q \in Nat /\ w = 8 * q + y /\ t = q % Pow2[Int32]
  BY <1>1
<1> HIDE DEF q
<1>4. t <= q
  BY <1>1, <1>3
<1>5. TagWord(y, t) <= w
  BY <1>2, <1>3, <1>4
<1> QED BY <1>2, <1>5, UsedGrows

\* A field of n bytes, as far as its tag is one that callers write.
Canonical(t, y, v, n) ==
  t \in 1 .. Pow2[Int32 - 3] - 1 =>
    \E h \in Nat, k \in Nat : n = h + k /\ Used(TagWord(y, t)) <= h /\ Fits(y, v, k)

\* The ways in which a call for a field ends that began at p with l bytes left.
FieldFails(r, p, l) ==
  \E v : \E d \in 0 .. l, t \in 0 .. Pow2[Int32] - 1, y \in 0 .. 7, e \in {Yes, No} :
    r = Rec(p + d, l - d, t, y, v, e, No)

FieldReads(r, p, l) ==
  \E v : \E n \in 0 .. l, t \in 0 .. Pow2[Int32] - 1, y \in Types :
    r = Rec(p + n, l - n, t, y, v, No, Yes) /\ Canonical(t, y, v, n)

LEMMA FieldAny ==
  ASSUME NEW m \in Seq(Bytes), NEW p \in Nat, NEW l \in Nat, p + l <= Len(m),
         NEW t \in 0 .. Pow2[Int32] - 1, NEW y \in 0 .. 7, NEW v, NEW o, NEW r, r = Rec(p, l, t, y, v, No, o)
  PROVE  FieldFails(DecodeTag(m, r), p, l) \/ FieldReads(DecodeTag(m, r), p, l)
<1> DEFINE r1 == Rec(p, l, t, y, v, No, Yes)
           s == DecodeVarint(m, r1)
<1>1. \/ \E d \in 0 .. l : s = Rec(p + d, l - d, t, y, v, No, No)
      \/ \E n \in 1 .. l, w \in 0 .. Pow2[Int64] - 1 : Used(w) <= n /\ s = Rec(p + n, l - n, t, y, w, No, Yes)
  <2>1. r1 = Rec(p, l, t, y, v, No, Yes)
    OBVIOUS
  <2> HIDE DEF r1
  <2> QED BY <2>1, VintAny
<1>2. s = DecodeVarint(m, Rec(p, l, t, y, v, No, Yes))
  OBVIOUS
<1>3. Pow2[Int32] \in Nat \ {0} /\ Pow2[Int64] \in Nat
  BY PayloadPowers
<1> HIDE DEF s, r1
<1>4. CASE \E d \in 0 .. l : s = Rec(p + d, l - d, t, y, v, No, No)
  <2>1. PICK d \in 0 .. l : s = Rec(p + d, l - d, t, y, v, No, No)
    BY <1>4
  <2> DEFINE q == p + d
             k == l - d
  <2>2. q \in Nat /\ k \in Nat /\ s = Rec(q, k, t, y, v, No, No)
    BY <2>1
  <2> HIDE DEF q, k
  <2>3. DecodeVarint(m, Rec(p, l, t, y, v, No, Yes)) = Rec(q, k, t, y, v, No, No)
    BY <2>2, <1>2
  <2>4. /\ k = 0 => DecodeTag(m, r) = Rec(q, k, t, y, v, Yes, No)
        /\ k # 0 => DecodeTag(m, r) = Rec(q, k, t, y, v, No, No)
    BY <2>2, <2>3, TagFails
  <2>5. \E e \in {Yes, No} : DecodeTag(m, r) = Rec(q, k, t, y, v, e, No)
    BY <2>4
  <2> QED BY <2>5, Zenon DEF q, k, FieldFails
<1>5. CASE \E n \in 1 .. l, w \in 0 .. Pow2[Int64] - 1 : Used(w) <= n /\ s = Rec(p + n, l - n, t, y, w, No, Yes)
  <2>1. PICK n \in 1 .. l, w \in 0 .. Pow2[Int64] - 1 : Used(w) <= n /\ s = Rec(p + n, l - n, t, y, w, No, Yes)
    BY <1>5
  <2> DEFINE q == p + n
             k == l - n
  <2>2. q \in Nat /\ k \in Nat /\ n \in Nat /\ w \in Nat /\ n \in 0 .. l /\ q + k <= Len(m) /\ s = Rec(q, k, t, y, w, No, Yes)
    BY <2>1, <1>3, LenProperties
  <2>3. CASE w = 0
    <3> HIDE DEF q, k
    <3>1. DecodeTag(m, r) = Rec(q, k, t, y, w, Yes, No)
      <4>1. DecodeVarint(m, Rec(p, l, t, y, v, No, Yes)) = Rec(q, k, t, y, w, No, Yes)
        BY <2>2, <1>2
      <4> QED BY <2>2, <2>3, <4>1, TagZero
    <3> QED BY <2>2, <3>1, Zenon DEF q, k, FieldFails
  <2>4. CASE w # 0
    <3> DEFINE a == (w \div 8) % Pow2[Int32]
               b == w % 8
               x == Rec(q, k, a, b, w, No, Yes)
               z == DecodeTag(m, r)
    <3>1. z = DecodeValue(m, x, b)
      <4> HIDE DEF q, k
      <4> DEFINE c == w
      <4>1. DecodeVarint(m, Rec(p, l, t, y, v, No, Yes)) = Rec(q, k, t, y, c, No, Yes) /\ c \in Nat /\ c # 0
        BY <2>2, <2>4, <1>2
      <4> HIDE DEF c
      <4>2. DecodeTag(m, r) = DecodeValue(m, Rec(q, k, (c \div 8) % Pow2[Int32], c % 8, c, No, Yes), c % 8)
        BY <2>2, <4>1, TagValue
      <4> QED BY <4>2 DEF c
    <3>2. a \in 0 .. Pow2[Int32] - 1 /\ b \in 0 .. 7
      <4> DEFINE c == w \div 8
                 g == Pow2[Int32]
      <4>1. c \in Nat /\ g \in Nat \ {0} /\ b \in 0 .. 7
        BY <2>2, <1>3
      <4>2. a = c % g
        OBVIOUS
      <4> HIDE DEF c, a, g, b
      <4>3. a \in 0 .. g - 1
        BY <4>1, <4>2
      <4> QED BY <4>1, <4>3 DEF g
    <3>3. x = Rec(q, k, a, b, w, No, Yes)
      OBVIOUS
    <3>4. b \in Types /\ a \in 1 .. Pow2[Int32 - 3] - 1 => Used(TagWord(b, a)) <= Used(w)
      <4>1. a = (w \div 8) % Pow2[Int32] /\ b = w % 8
        OBVIOUS
      <4> HIDE DEF a, b
      <4> QED BY <4>1, TagWordUsed
    <3> HIDE DEF q, k, a, b, x, z
    <3>5. \/ \E u : \E d \in 0 .. k : DecodeValue(m, x, b) = Rec(q + d, k - d, a, b, u, No, No)
          \/ \E u : \E d \in 0 .. k : Fits(b, u, d) /\ DecodeValue(m, x, b) = Rec(q + d, k - d, a, b, u, No, Yes)
      <4>1. ValueEnds(DecodeValue(m, x, b), q, k, a, b)
        <5> DEFINE e == w
        <5>1. x = Rec(q, k, a, b, e, No, Yes)
          BY <3>3
        <5> HIDE DEF e
        <5> QED BY <2>2, <5>1, ValueAny
      <4> QED BY <4>1, Zenon DEF ValueEnds
    <3>6. ASSUME NEW d \in 0 .. k PROVE n + d \in 0 .. l /\ q + d = p + (n + d) /\ k - d = l - (n + d)
      BY <2>2 DEF q, k
    <3>7. ASSUME NEW u, NEW d \in 0 .. k, z = Rec(q + d, k - d, a, b, u, No, No) PROVE FieldFails(z, p, l)
      <4> DEFINE j == n + d
      <4>1. j \in 0 .. l /\ z = Rec(p + j, l - j, a, b, u, No, No)
        BY <3>6, <3>7
      <4> HIDE DEF j
      <4> QED BY <4>1, <3>2, Zenon DEF FieldFails
    <3>8. ASSUME NEW u, NEW d \in 0 .. k, Fits(b, u, d), z = Rec(q + d, k - d, a, b, u, No, Yes) PROVE FieldReads(z, p, l)
      <4> DEFINE j == n + d
      <4>1. j \in 0 .. l /\ z = Rec(p + j, l - j, a, b, u, No, Yes) /\ j = n + d
        BY <3>6, <3>8
      <4>2. b \in Types
        BY <3>8 DEF Fits
      <4>3. ASSUME a \in 1 .. Pow2[Int32 - 3] - 1 PROVE Used(TagWord(b, a)) <= n
        <5>1. Used(TagWord(b, a)) <= Used(w) /\ Used(w) <= n
          BY <4>2, <4>3, <3>4, <2>1
        <5>2. Used(w) \in 1 .. MaxVint /\ Used(TagWord(b, a)) \in 1 .. MaxVint /\ MaxVint \in Nat
          <6>1. TagWord(b, a) \in 0 .. Pow2[Int64] - 1
            BY <4>2, <4>3, TagWordIs
          <6> QED BY <6>1, UsedIs, MaxVintIs
        <5> QED BY <5>1, <5>2, <2>2
      <4> HIDE DEF j
      <4>4. Canonical(a, b, u, j)
        <5>1. d \in Nat
          BY <2>2
        <5> QED BY <5>1, <2>2, <4>1, <4>3, <3>8, Zenon DEF Canonical
      <4> QED BY <4>1, <4>2, <4>4, <3>2, Zenon DEF FieldReads
    <3> QED BY <3>1, <3>5, <3>7, <3>8, Zenon DEF z
  <2> QED BY <2>3, <2>4
<1> QED BY <1>1, <1>4, <1>5

-----------------------------------------------------------------------------
(***************************************************************************)
(* Lengths.                                                                *)
(***************************************************************************)
\* What pb_eval_vint_length computes is the length pb_add_vint writes.
LEMMA VintLengthIs ==
  ASSUME NEW v \in 0 .. Pow2[Int64] - 1
  PROVE  VintLength(v) = Used(v)
<1> DEFINE n == Used(v)
           K == {i \in 0 .. MaxVint - 1 : v >= Pow2[Payload * i]}
<1>1. /\ MaxVint \in Nat /\ Pow2[Int64] \in Nat /\ n \in 1 .. MaxVint /\ n \in Nat /\ v \in Nat
      /\ v < Pow2[Payload * n]
      /\ v # 0 => v >= Pow2[Payload * (n - 1)]
      /\ v = 0 => n = 1
  BY UsedIs, MaxVintIs, PayloadPowers
<1>2. CASE v = 0
  BY <1>1, <1>2 DEF VintLength
<1>3. CASE v # 0
  <2>1. VintLength(v) = Cardinality(K)
    BY <1>3 DEF VintLength
  <2> DEFINE c == n - 1
  <2>2. c \in Nat /\ c \in 0 .. MaxVint /\ n \in 0 .. MaxVint /\ v >= Pow2[Payload * c]
    BY <1>1, <1>3
  <2>3. ASSUME NEW i \in 0 .. MaxVint, NEW j \in 0 .. MaxVint, i <= j PROVE Pow2[Payload * i] <= Pow2[Payload * j]
    <3> DEFINE a == Payload * i
               b == Payload * j
    <3>1. i \in Nat /\ j \in Nat
      BY <1>1
    <3>2. a <= b /\ a \in Nat /\ b \in Nat
      BY <2>3, <3>1, Widths, Products
    <3>3. b <= Int64 + Payload
      BY MaxVintIs
    <3> HIDE DEF a, b
    <3>4. Pow2[a] <= Pow2[b]
      BY <3>2, <3>3, Pow2Order
    <3> QED BY <3>4 DEF a, b
  <2>4. \A i \in 0 .. MaxVint : Pow2[Payload * i] \in Nat
    BY PayloadPowers
  <2> DEFINE P(i) == Pow2[Payload * i]
  <2>5. /\ \A i \in 0 .. MaxVint : P(i) \in Nat
        /\ \A i \in 0 .. MaxVint, j \in 0 .. MaxVint : i <= j => P(i) <= P(j)
        /\ v < P(n) /\ v >= P(c)
    BY <1>1, <2>2, <2>3, <2>4
  <2>6. K = {i \in 0 .. MaxVint - 1 : v >= P(i)}
    OBVIOUS
  <2> HIDE DEF P, K
  <2>7. K = 0 .. c
    <3>1. ASSUME NEW i \in 0 .. MaxVint - 1 PROVE v >= P(i) <=> i <= c
      <4>1. i \in 0 .. MaxVint /\ P(i) \in Nat /\ P(n) \in Nat /\ P(c) \in Nat
        BY <1>1, <2>2, <2>5
      <4>2. CASE i <= c
        BY <4>1, <4>2, <2>2, <2>5, <1>1
      <4>3. CASE ~(i <= c)
        <5>1. n <= i
          BY <4>3, <1>1
        <5>2. P(n) <= P(i)
          BY <5>1, <4>1, <2>2, <2>5
        <5> QED BY <4>1, <4>3, <5>2, <2>5, <1>1
      <4> QED BY <4>2, <4>3
    <3>2. 0 .. c \subseteq 0 .. MaxVint - 1
      BY <1>1
    <3>3. \A i \in 0 .. MaxVint - 1 : i <= c <=> i \in 0 .. c
      BY <2>2
    <3> HIDE DEF c
    <3> QED BY <2>6, <3>1, <3>2, <3>3
  <2>8. Cardinality(0 .. c) = c - 0 + 1
    <3>1. 0 \in Int /\ c \in Int /\ 0 <= c
      BY <2>2
    <3> HIDE DEF c
    <3> QED BY <3>1, FS_Interval
  <2>9. c - 0 + 1 = n
    BY <1>1
  <2> HIDE DEF c
  <2> QED BY <2>1, <2>7, <2>8, <2>9
<1> QED BY <1>2, <1>3

\* Length of the value of a field.
ValueLength(x) ==
  IF x.type = PB_TYPE_VARINT THEN Used(x.val)
  ELSE IF x.type = PB_TYPE_FIXED64 THEN Fix64
  ELSE IF x.type = PB_TYPE_FIXED32 THEN Fix32
  ELSE Used(Len(x.val)) + Len(x.val)

LEMMA UsedNat ==
  ASSUME NEW v \in 0 .. Pow2[Int64] - 1
  PROVE  Used(v) \in Nat \ {0}
BY UsedIs, MaxVintIs

\* pb_eval_field_length tells the length that pb_add_field_val writes.
LEMMA EncodeLength ==
  ASSUME NEW x, Storable(x)
  PROVE  /\ Encode(x) \in Seq(Bytes) /\ ValueLength(x) \in Nat /\ Used(TagWord(x.type, x.tag)) \in Nat \ {0}
         /\ Len(Encode(x)) = Used(TagWord(x.type, x.tag)) + ValueLength(x)
         /\ EvalLength(x) = Len(Encode(x))
<1> DEFINE w == TagWord(x.type, x.tag)
           T == VintBytes(w)
<1>1. x.tag \in 1 .. Pow2[Int32 - 3] - 1 /\ x.type \in Types
  BY DEF Storable
<1>2. w \in 0 .. Pow2[Int64] - 1
  BY <1>1, TagWordIs
<1> HIDE DEF w
<1>3. T \in Seq(Bytes) /\ Len(T) = Used(w) /\ Used(w) \in Nat \ {0} /\ VintLength(w) = Used(w)
  BY <1>2, VintBytesOK, UsedNat, VintLengthIs
<1>4. Pow2[Int64] \in Nat /\ Pow2[Int32] \in Nat /\ Pow2[Int32] <= Pow2[Int64]
  BY PayloadPowers
<1> HIDE DEF T
<1>5. ASSUME NEW u, u \in Seq(Bytes), Len(u) = ValueLength(x), ValueLength(x) \in Nat, Encode(x) = T \o u,
             EvalLength(x) = VintLength(w) + ValueLength(x)
      PROVE  /\ Encode(x) \in Seq(Bytes) /\ ValueLength(x) \in Nat
             /\ Len(Encode(x)) = Used(w) + ValueLength(x) /\ EvalLength(x) = Len(Encode(x))
  <2>1. T \o u \in Seq(Bytes) /\ Len(T \o u) = Len(T) + Len(u)
    BY <1>3, <1>5, ConcatProperties
  <2> QED BY <2>1, <1>3, <1>5
<1>6. CASE x.type = PB_TYPE_VARINT
  <2> DEFINE u == VintBytes(x.val)
  <2>1. x.val \in 0 .. Pow2[Int64] - 1
    BY <1>6 DEF Storable
  <2>2. u \in Seq(Bytes) /\ Len(u) = Used(x.val) /\ Used(x.val) \in Nat /\ VintLength(x.val) = Used(x.val)
    BY <2>1, VintBytesOK, UsedNat, VintLengthIs
  <2>3. ValueLength(x) = Used(x.val) /\ EvalLength(x) = VintLength(w) + VintLength(x.val)
    BY <1>6, Zenon DEF ValueLength, EvalLength, w
  <2>4. x.type # PB_TYPE_STRING /\ Plain(x) = u
    BY <1>6, TypesIs, Zenon DEF Plain
  <2>5. Encode(x) = T \o u
    BY <2>4, ChunksIs DEF T, w
  <2> HIDE DEF u
  <2>6. EvalLength(x) = VintLength(w) + ValueLength(x) /\ Len(u) = ValueLength(x) /\ ValueLength(x) \in Nat
    BY <2>2, <2>3
  <2> QED BY <2>2, <2>5, <2>6, <1>3, <1>5 DEF w
<1>7. CASE x.type = PB_TYPE_FIXED64
  <2> DEFINE u == FixBytes(x.val, Fix64)
  <2>1. x.val \in Nat /\ Fix64 \in Nat /\ Fix64 <= Fix64
    BY <1>7, <1>4, FixOrder DEF Storable
  <2>2. u \in Seq(Bytes) /\ Len(u) = Fix64
    BY <2>1, FixBytesOK
  <2>3. ValueLength(x) = Fix64 /\ EvalLength(x) = VintLength(w) + Fix64
    BY <1>7, TypesIs, Zenon DEF ValueLength, EvalLength, w
  <2>4. x.type # PB_TYPE_STRING /\ Plain(x) = u
    BY <1>7, TypesIs, Zenon DEF Plain
  <2>5. Encode(x) = T \o u
    BY <2>4, ChunksIs DEF T, w
  <2> HIDE DEF u
  <2>6. EvalLength(x) = VintLength(w) + ValueLength(x) /\ Len(u) = ValueLength(x) /\ ValueLength(x) \in Nat
    BY <2>1, <2>2, <2>3
  <2> QED BY <2>2, <2>5, <2>6, <1>3, <1>5 DEF w
<1>8. CASE x.type = PB_TYPE_FIXED32
  <2> DEFINE u == FixBytes(x.val, Fix32)
  <2>1. x.val \in Nat /\ Fix32 \in Nat /\ Fix32 <= Fix64
    BY <1>8, <1>4, FixOrder DEF Storable
  <2>2. u \in Seq(Bytes) /\ Len(u) = Fix32
    BY <2>1, FixBytesOK
  <2>3. ValueLength(x) = Fix32 /\ EvalLength(x) = VintLength(w) + Fix32
    BY <1>8, TypesIs, Zenon DEF ValueLength, EvalLength, w
  <2>4. x.type # PB_TYPE_STRING /\ Plain(x) = u
    BY <1>8, TypesIs, Zenon DEF Plain
  <2>5. Encode(x) = T \o u
    BY <2>4, ChunksIs DEF T, w
  <2> HIDE DEF u
  <2>6. EvalLength(x) = VintLength(w) + ValueLength(x) /\ Len(u) = ValueLength(x) /\ ValueLength(x) \in Nat
    BY <2>1, <2>2, <2>3
  <2> QED BY <2>2, <2>5, <2>6, <1>3, <1>5 DEF w
<1>9. CASE x.type = PB_TYPE_STRING
  <2> DEFINE s == x.val
             n == Len(s)
             l == VintBytes(n)
  <2>1. s \in Seq(Bytes) /\ n \in Nat /\ n < Pow2[Int64]
    BY <1>9, LenProperties DEF Storable
  <2>2. n \in 0 .. Pow2[Int64] - 1
    BY <2>1, <1>4
  <2>3. Encode(x) = (T \o l) \o s
    BY <1>9, ChunksIs DEF T, w
  <2>4. ValueLength(x) = Used(n) + n /\ EvalLength(x) = VintLength(w) + (VintLength(n) + n)
    BY <1>9, TypesIs, Zenon DEF ValueLength, EvalLength, w
  <2> HIDE DEF n
  <2>5. l \in Seq(Bytes) /\ Len(l) = Used(n) /\ Used(n) \in Nat /\ VintLength(n) = Used(n)
    BY <2>2, VintBytesOK, UsedNat, VintLengthIs
  <2> HIDE DEF l, s
  <2> DEFINE u == l \o s
  <2>6. Len(s) = n
    BY DEF n
  <2>7. u \in Seq(Bytes) /\ Len(u) = Used(n) + n
    BY <2>1, <2>5, <2>6, ConcatProperties
  <2>8. Encode(x) = T \o u
    <3>1. Associative(T, l, s)
      BY <1>3, <2>1, <2>5, Concat3
    <3> QED BY <3>1, <2>3 DEF Associative
  <2> HIDE DEF u
  <2>9. EvalLength(x) = VintLength(w) + ValueLength(x) /\ Len(u) = ValueLength(x) /\ ValueLength(x) \in Nat
    BY <2>1, <2>4, <2>5, <2>7
  <2> QED BY <2>7, <2>8, <2>9, <1>3, <1>5 DEF w
<1> QED BY <1>1, <1>6, <1>7, <1>8, <1>9, TypesIs, Zenon DEF w

-----------------------------------------------------------------------------
(***************************************************************************)
(* A written field is read.                                                *)
(***************************************************************************)
\* The bytes behind the tag.
ValueBytes(x) == IF x.type = PB_TYPE_STRING THEN VintBytes(Len(x.val)) \o x.val ELSE Plain(x)

LEMMA EncodeSplit ==
  ASSUME NEW x, Storable(x)
  PROVE  /\ Encode(x) = VintBytes(TagWord(x.type, x.tag)) \o ValueBytes(x)
         /\ VintBytes(TagWord(x.type, x.tag)) \in Seq(Bytes) /\ ValueBytes(x) \in Seq(Bytes)
         /\ TagWord(x.type, x.tag) \in 0 .. Pow2[Int64] - 1
         /\ Len(VintBytes(TagWord(x.type, x.tag))) = Used(TagWord(x.type, x.tag))
         /\ Len(ValueBytes(x)) = ValueLength(x)
<1> DEFINE w == TagWord(x.type, x.tag)
           T == VintBytes(w)
           u == ValueBytes(x)
<1>1. x.tag \in 1 .. Pow2[Int32 - 3] - 1 /\ x.type \in Types
  BY DEF Storable
<1>2. w \in 0 .. Pow2[Int64] - 1
  BY <1>1, TagWordIs
<1>3. T \in Seq(Bytes) /\ Len(T) = Used(w) /\ Used(w) \in Nat
  <2> HIDE DEF w
  <2> QED BY <1>2, VintBytesOK, UsedNat
<1>4. Encode(x) = T \o u /\ u \in Seq(Bytes)
  <2>1. CASE x.type # PB_TYPE_STRING
    <3>1. u = Plain(x)
      BY <2>1 DEF ValueBytes
    <3> HIDE DEF u, T
    <3> QED BY <2>1, <3>1, ChunksIs DEF T
  <2>2. CASE x.type = PB_TYPE_STRING
    <3> DEFINE l == VintBytes(Len(x.val))
               s == x.val
    <3>1. Encode(x) = (T \o l) \o s /\ l \in Seq(Bytes) /\ s \in Seq(Bytes)
      BY <2>2, ChunksIs
    <3>2. u = l \o s
      BY <2>2 DEF ValueBytes
    <3> HIDE DEF u, T, l, s
    <3>3. Associative(T, l, s)
      BY <1>3, <3>1, Concat3
    <3>4. l \o s \in Seq(Bytes)
      BY <3>1, ConcatProperties
    <3> QED BY <3>1, <3>2, <3>3, <3>4 DEF Associative
  <2> QED BY <2>1, <2>2
<1>5. Len(Encode(x)) = Used(w) + ValueLength(x) /\ ValueLength(x) \in Nat
  BY EncodeLength
<1> HIDE DEF u, T
<1>6. Len(T \o u) = Len(T) + Len(u) /\ Len(u) \in Nat
  BY <1>3, <1>4, ConcatProperties, LenProperties
<1>7. Len(u) = ValueLength(x)
  BY <1>3, <1>4, <1>5, <1>6
<1> QED BY <1>2, <1>3, <1>4, <1>7 DEF u, T

LEMMA JoinedAt ==
  ASSUME NEW S, NEW a \in Seq(S), NEW b \in Seq(S)
  PROVE  /\ Len(a \o b) = Len(a) + Len(b) /\ a \o b \in Seq(S)
         /\ \A i \in 1 .. Len(a) : (a \o b)[i] = a[i]
         /\ \A i \in 1 .. Len(b) : (a \o b)[Len(a) + i] = b[i]
<1> DEFINE s == a \o b
<1>1. s \in Seq(S) /\ Len(s) = Len(a) + Len(b) /\ Len(a) \in Nat /\ Len(b) \in Nat
      /\ \A i \in 1 .. Len(a) + Len(b) : s[i] = IF i <= Len(a) THEN a[i] ELSE b[i - Len(a)]
  BY ConcatProperties, LenProperties
<1> HIDE DEF s
<1>2. ASSUME NEW i \in 1 .. Len(a) PROVE s[i] = a[i]
  <2>1. i \in 1 .. Len(a) + Len(b) /\ i <= Len(a)
    BY <1>1
  <2> QED BY <2>1, <1>1
<1>3. ASSUME NEW i \in 1 .. Len(b) PROVE s[Len(a) + i] = b[i]
  <2> DEFINE j == Len(a) + i
  <2>1. j \in 1 .. Len(a) + Len(b) /\ ~(j <= Len(a)) /\ j - Len(a) = i
    BY <1>1
  <2> HIDE DEF j
  <2>2. s[j] = b[i]
    BY <2>1, <1>1
  <2> QED BY <2>2 DEF j
<1> QED BY <1>1, <1>2, <1>3 DEF s

\* The first n bytes of u are what the message m has behind p.
Shows(m, p, u, n) == \A i \in 1 .. n : m[p + i] = u[i]

LEMMA ShowsJoined ==
  ASSUME NEW m, NEW p \in Nat, NEW n \in Nat, NEW a \in Seq(Bytes), NEW b \in Seq(Bytes),
         Shows(m, p, a \o b, n), n <= Len(a) + Len(b)
  PROVE  /\ n <= Len(a) => Shows(m, p, a, n)
         /\ n >= Len(a) => Shows(m, p, a, Len(a)) /\ Shows(m, p + Len(a), b, n - Len(a))
<1> DEFINE s == a \o b
           k == Len(a)
<1>1. /\ k \in Nat /\ Len(b) \in Nat /\ \A i \in 1 .. k : s[i] = a[i]
      /\ \A i \in 1 .. Len(b) : s[k + i] = b[i]
      /\ \A i \in 1 .. n : m[p + i] = s[i]
  BY JoinedAt, LenProperties DEF Shows
<1>6. n <= k + Len(b)
  OBVIOUS
<1> HIDE DEF s, k
<1>2. ASSUME n <= k PROVE Shows(m, p, a, n)
  <2>1. \A i \in 1 .. n : i \in 1 .. k
    BY <1>1, <1>2
  <2> QED BY <2>1, <1>1 DEF Shows
<1>3. ASSUME n >= k PROVE Shows(m, p, a, k)
  <2>1. \A i \in 1 .. k : i \in 1 .. n
    BY <1>1, <1>3
  <2> QED BY <2>1, <1>1 DEF Shows
<1>4. ASSUME n >= k PROVE Shows(m, p + k, b, n - k)
  <2>1. ASSUME NEW i \in 1 .. n - k PROVE m[(p + k) + i] = b[i]
    <3> DEFINE j == k + i
    <3>1. j \in 1 .. n /\ i \in 1 .. Len(b) /\ (p + k) + i = p + j
      BY <1>1, <1>4, <1>6
    <3>2. s[j] = b[i]
      BY <3>1, <1>1
    <3> HIDE DEF j
    <3>3. m[p + j] = s[j]
      BY <3>1, <1>1
    <3> QED BY <3>1, <3>2, <3>3
  <2> QED BY <2>1 DEF Shows
<1> QED BY <1>2, <1>3, <1>4 DEF k

LEMMA VintShown ==
  ASSUME NEW m, NEW p \in Nat, NEW l \in Nat, NEW t, NEW y, NEW v, NEW o, NEW r, r = Rec(p, l, t, y, v, No, o),
         NEW w \in 0 .. Pow2[Int64] - 1, Used(w) <= l, Shows(m, p, VintBytes(w), Used(w))
  PROVE  DecodeVarint(m, r) = Rec(p + Used(w), l - Used(w), t, y, w, No, o)
<1>1. r.pos = p
  BY RecIs
<1>2. \A i \in 1 .. Used(w) : Byte(m, r, i) = VintBytes(w)[i]
  BY <1>1 DEF Byte, Shows
<1> DEFINE e == No
<1>3. r = Rec(p, l, t, y, v, e, o)
  OBVIOUS
<1> HIDE DEF e
<1>4. DecodeVarint(m, r) = Rec(p + Used(w), l - Used(w), t, y, w, e, o)
  BY <1>2, <1>3, VintRead
<1> QED BY <1>4 DEF e

LEMMA VintShort ==
  ASSUME NEW m, NEW p \in Nat, NEW l \in Nat, NEW t, NEW y, NEW v, NEW o, NEW r, r = Rec(p, l, t, y, v, No, o),
         NEW w \in 0 .. Pow2[Int64] - 1, l < Used(w), Shows(m, p, VintBytes(w), l)
  PROVE  DecodeVarint(m, r) = Rec(p + l, 0, t, y, v, No, No)
<1>1. r.pos = p
  BY RecIs
<1>2. \A i \in 1 .. l : Byte(m, r, i) = VintBytes(w)[i]
  BY <1>1 DEF Byte, Shows
<1> DEFINE e == No
<1>3. r = Rec(p, l, t, y, v, e, o)
  OBVIOUS
<1> HIDE DEF e
<1>4. DecodeVarint(m, r) = Rec(p + l, 0, t, y, v, e, No)
  BY <1>2, <1>3, VintCut
<1> QED BY <1>4 DEF e

LEMMA StorableValue ==
  ASSUME NEW x, Storable(x)
  PROVE  /\ x.type \in Types
         /\ x.type = PB_TYPE_VARINT => x.val \in 0 .. Pow2[Int64] - 1 /\ ValueBytes(x) = VintBytes(x.val) /\ ValueLength(x) = Used(x.val)
         /\ x.type = PB_TYPE_FIXED64 => x.val \in 0 .. Pow2[Int64] - 1 /\ ValueBytes(x) = FixBytes(x.val, Fix64) /\ ValueLength(x) = Fix64
         /\ x.type = PB_TYPE_FIXED32 => x.val \in 0 .. Pow2[Int32] - 1 /\ ValueBytes(x) = FixBytes(x.val, Fix32) /\ ValueLength(x) = Fix32
         /\ x.type = PB_TYPE_STRING =>
              /\ x.val \in Seq(Bytes) /\ Len(x.val) \in 0 .. Pow2[Int64] - 1
              /\ ValueBytes(x) = VintBytes(Len(x.val)) \o x.val
              /\ ValueLength(x) = Used(Len(x.val)) + Len(x.val)
<1>1. Storable(x) /\ Pow2[Int64] \in Nat
  BY PayloadPowers
<1>2. ASSUME x.type = PB_TYPE_VARINT
      PROVE  x.val \in 0 .. Pow2[Int64] - 1 /\ ValueBytes(x) = VintBytes(x.val) /\ ValueLength(x) = Used(x.val)
  <2>1. ValueBytes(x) = VintBytes(x.val) /\ ValueLength(x) = Used(x.val)
    BY <1>2, TypesIs, Zenon DEF ValueBytes, Plain, ValueLength
  <2> QED BY <1>1, <1>2, <2>1 DEF Storable
<1>3. ASSUME x.type = PB_TYPE_FIXED64
      PROVE  x.val \in 0 .. Pow2[Int64] - 1 /\ ValueBytes(x) = FixBytes(x.val, Fix64) /\ ValueLength(x) = Fix64
  <2>1. ValueBytes(x) = FixBytes(x.val, Fix64) /\ ValueLength(x) = Fix64
    BY <1>3, TypesIs, Zenon DEF ValueBytes, Plain, ValueLength
  <2> QED BY <1>1, <1>3, <2>1 DEF Storable
<1>4. ASSUME x.type = PB_TYPE_FIXED32
      PROVE  x.val \in 0 .. Pow2[Int32] - 1 /\ ValueBytes(x) = FixBytes(x.val, Fix32) /\ ValueLength(x) = Fix32
  <2>1. ValueBytes(x) = FixBytes(x.val, Fix32) /\ ValueLength(x) = Fix32
    BY <1>4, TypesIs, Zenon DEF ValueBytes, Plain, ValueLength
  <2> QED BY <1>1, <1>4, <2>1 DEF Storable
<1>5. ASSUME x.type = PB_TYPE_STRING
      PROVE  /\ x.val \in Seq(Bytes) /\ Len(x.val) \in 0 .. Pow2[Int64] - 1
             /\ ValueBytes(x) = VintBytes(Len(x.val)) \o x.val
             /\ ValueLength(x) = Used(Len(x.val)) + Len(x.val)
  <2>1. ValueBytes(x) = VintBytes(Len(x.val)) \o x.val /\ ValueLength(x) = Used(Len(x.val)) + Len(x.val)
    BY <1>5, TypesIs, Zenon DEF ValueBytes, Plain, ValueLength
  <2>2. x.val \in Seq(Bytes) /\ Len(x.val) < Pow2[Int64]
    BY <1>1, <1>5 DEF Storable
  <2>3. Len(x.val) \in 0 .. Pow2[Int64] - 1
    BY <1>1, <2>2, LenProperties
  <2> QED BY <2>1, <2>2, <2>3
<1> QED BY <1>1, <1>2, <1>3, <1>4, <1>5 DEF Storable

\* What pb_add_dword or pb_add_ddword wrote is what is read: w is a number of n
\* bytes.
FixNumber(w, n) == n \in Nat /\ n <= Fix64 /\ w \in Nat /\ w < Pow2[(Payload + 1) * n]

\* The reader r of the message m has these bytes before it.
AtNumber(m, r, p, l, t, y, v, e, w, n) ==
  /\ p \in Nat /\ l \in Nat /\ r = Rec(p, l, t, y, v, e, Yes) /\ n <= l
  /\ FixNumber(w, n) /\ Shows(m, p, FixBytes(w, n), n)

LEMMA FixShown ==
  ASSUME NEW m, NEW p, NEW l, NEW t, NEW y, NEW v, NEW e, NEW r, NEW n, NEW w, AtNumber(m, r, p, l, t, y, v, e, w, n)
  PROVE  DecodeFixed(m, r, n) = Rec(p + n, l - n, t, y, w, e, Yes)
<1> USE DEF AtNumber
<1> DEFINE g == FixWord(m, r, n)
           b == Payload + 1
<1>0. n \in Nat /\ n <= Fix64 /\ w \in Nat /\ w < Pow2[b * n]
  BY DEF FixNumber
<1>1. Spells(g, b, n, w)
  <2>1. g[0] = 0
    BY <1>0, FixWordIs
  <2>2. ASSUME NEW i \in 1 .. n
        PROVE  g[i] = g[i-1] + ((w \div Pow2[b * (i - 1)]) % Pow2[b]) * Pow2[b * (i - 1)]
    <3>1. g[i] = g[i-1] + Byte(m, r, i) * Pow2[b * (i - 1)]
      BY <1>0, FixWordIs
    <3>2. FixBytes(w, n)[i] = (w \div Pow2[b * (i - 1)]) % Pow2[b]
      BY DEF FixBytes
    <3>3. r.pos = p
      BY RecIs
    <3>4. Byte(m, r, i) = (w \div Pow2[b * (i - 1)]) % Pow2[b]
      BY <3>2, <3>3 DEF Byte, Shows
    <3> QED BY <3>1, <3>4
  <2> HIDE DEF g, b
  <2> QED BY <2>1, <2>2 DEF Spells
<1>2. b \in Nat /\ b * n <= Int64 + Payload /\ Pow2[b * n] \in Nat \ {0}
  BY <1>0, FixPowers
<1>3. DecodeFixed(m, r, n) = Rec(p + n, l - n, t, y, g[n], e, Yes)
  BY <1>0, DecodeFixedIs
<1> HIDE DEF b, g
<1>5. g[n] = w % Pow2[b * n]
  BY <1>0, <1>1, <1>2, Digits
<1>6. w % Pow2[b * n] = w
  BY <1>0, <1>2, SmallMod
<1> QED BY <1>3, <1>5, <1>6

LEMMA StringShown ==
  ASSUME NEW m \in Seq(Bytes), NEW p \in Nat, NEW l \in Nat, p + l <= Len(m), NEW t, NEW y, NEW v,
         NEW r, r = Rec(p, l, t, y, v, No, Yes),
         NEW s \in Seq(Bytes), Len(s) \in 0 .. Pow2[Int64] - 1, Used(Len(s)) + Len(s) <= l,
         Shows(m, p, VintBytes(Len(s)) \o s, Used(Len(s)) + Len(s))
  PROVE  DecodeString(m, r) = Rec(p + (Used(Len(s)) + Len(s)), l - (Used(Len(s)) + Len(s)), t, y, s, No, Yes)
<1> DEFINE n == Len(s)
           h == Used(n)
           a == VintBytes(n)
           q == p + h
           k == l - h
<1>1. n \in Nat /\ h \in Nat /\ a \in Seq(Bytes) /\ Len(a) = h
  BY LenProperties, UsedNat, VintBytesOK
<1>2. h <= l /\ q \in Nat /\ k \in Nat /\ n <= k /\ q + n <= Len(m) /\ q + n = p + (h + n) /\ k - n = l - (h + n)
  BY <1>1, LenProperties
<1>3. Shows(m, p, a, h) /\ Shows(m, q, s, n)
  <2>1. Shows(m, p, a \o s, h + n) /\ h + n \in Nat /\ h + n <= Len(a) + Len(s) /\ h + n >= Len(a) /\ (h + n) - Len(a) = n
    BY <1>1
  <2> DEFINE c == h + n
  <2> HIDE DEF c, h, n, a
  <2>2. Shows(m, p, a, Len(a)) /\ Shows(m, p + Len(a), s, c - Len(a))
    BY <2>1, <1>1, ShowsJoined DEF c
  <2> QED BY <2>1, <2>2, <1>1 DEF c
<1>6. n \in 0 .. Pow2[Int64] - 1
  OBVIOUS
<1>9. Len(s) = n
  OBVIOUS
<1> HIDE DEF n
<1>4. DecodeVarint(m, r) = Rec(p + h, l - h, t, y, n, No, Yes)
  <2> DEFINE o == Yes
  <2>1. r = Rec(p, l, t, y, v, No, o)
    OBVIOUS
  <2> HIDE DEF o
  <2>2. DecodeVarint(m, r) = Rec(p + Used(n), l - Used(n), t, y, n, No, o)
    BY <2>1, <1>2, <1>3, <1>6, VintShown
  <2> QED BY <2>2 DEF o
<1> DEFINE c == SubSeq(m, q + 1, q + n)
<1>5. DecodeString(m, r) = Rec(q + n, k - n, t, y, c, No, Yes)
  <2> DEFINE e == No
  <2>1. DecodeVarint(m, r) = Rec(q, k, t, y, n, e, Yes)
    BY <1>4
  <2>3. q \in Nat /\ k \in Nat /\ n \in Nat /\ n <= k
    BY <1>1, <1>2
  <2> DEFINE b == n
  <2>4. b \in Nat /\ b <= k /\ DecodeVarint(m, r) = Rec(q, k, t, y, b, e, Yes)
    BY <2>1, <2>3
  <2> HIDE DEF e, q, k, b
  <2>5. DecodeString(m, r) = Rec(q + b, k - b, t, y, SubSeq(m, q + 1, q + b), e, Yes)
    BY <2>3, <2>4, StringRead
  <2>2. DecodeString(m, r) = Rec(q + n, k - n, t, y, SubSeq(m, q + 1, q + n), e, Yes)
    BY <2>5 DEF b
  <2> QED BY <2>2 DEF e
<1>7. c = s
  <2>4. q \in Nat /\ n \in Nat /\ q + n <= Len(m)
    BY <1>1, <1>2
  <2> HIDE DEF q
  <2>1. c \in Seq(Bytes) /\ Len(c) = n
    BY <2>4, Part, Zenon
  <2>2. \A i \in 1 .. n : c[i] = m[q + i]
    BY <2>4, Part, Zenon
  <2> HIDE DEF c
  <2>3. \A i \in 1 .. Len(c) : c[i] = s[i]
    BY <2>1, <2>2, <1>3 DEF Shows
  <2> QED BY <2>1, <2>3, <1>9, SeqEqual
<1> HIDE DEF c
<1>8. DecodeString(m, r) = Rec(p + (h + n), l - (h + n), t, y, s, No, Yes)
  BY <1>2, <1>5, <1>7
<1> QED BY <1>8 DEF n

\* The bytes of a value give back the value.
LEMMA ValueRead ==
  ASSUME NEW m \in Seq(Bytes), NEW p \in Nat, NEW l \in Nat, p + l <= Len(m), NEW t, NEW y, NEW v,
         NEW r, r = Rec(p, l, t, y, v, No, Yes), NEW x, Storable(x), ValueLength(x) <= l,
         Shows(m, p, ValueBytes(x), ValueLength(x))
  PROVE  DecodeValue(m, r, x.type) = Rec(p + ValueLength(x), l - ValueLength(x), t, y, x.val, No, Yes)
<1> DEFINE w == x.val
<1>1. CASE x.type = PB_TYPE_VARINT
  <2>1. w \in 0 .. Pow2[Int64] - 1 /\ ValueBytes(x) = VintBytes(w) /\ ValueLength(x) = Used(w)
    BY <1>1, StorableValue
  <2>2. DecodeValue(m, r, x.type) = DecodeVarint(m, r)
    BY <1>1, DecodeValueIs
  <2> DEFINE o == Yes
  <2>3. r = Rec(p, l, t, y, v, No, o)
    OBVIOUS
  <2> HIDE DEF o, w
  <2>4. DecodeVarint(m, r) = Rec(p + Used(w), l - Used(w), t, y, w, No, o)
    BY <2>1, <2>3, VintShown
  <2> QED BY <2>1, <2>2, <2>4 DEF o, w
<1>2. ASSUME NEW n, FixNumber(w, n), ValueLength(x) = n, ValueBytes(x) = FixBytes(w, n),
             DecodeValue(m, r, x.type) = DecodeFixed(m, r, n)
      PROVE  DecodeValue(m, r, x.type) = Rec(p + ValueLength(x), l - ValueLength(x), t, y, x.val, No, Yes)
  <2>1. n \in Nat /\ n <= l /\ Shows(m, p, FixBytes(w, n), n)
    BY <1>2 DEF FixNumber
  <2>3. AtNumber(m, r, p, l, t, y, v, No, w, n)
    BY <1>2, <2>1 DEF AtNumber
  <2> HIDE DEF w
  <2>2. DecodeFixed(m, r, n) = Rec(p + n, l - n, t, y, w, No, Yes)
    BY <2>3, FixShown
  <2> QED BY <1>2, <2>2 DEF w
<1>3. CASE x.type = PB_TYPE_FIXED64
  <2>1. w \in 0 .. Pow2[Int64] - 1 /\ ValueBytes(x) = FixBytes(w, Fix64) /\ ValueLength(x) = Fix64
    BY <1>3, StorableValue
  <2>2. DecodeValue(m, r, x.type) = DecodeFixed(m, r, Fix64)
    BY <1>3, DecodeValueIs
  <2> HIDE DEF w
  <2>3. FixNumber(w, Fix64)
    <3>1. Pow2[Int64] \in Nat
      BY PayloadPowers
    <3>2. w \in Nat /\ w < Pow2[Int64]
      BY <2>1, <3>1
    <3>3. (Payload + 1) * Fix64 = Int64 /\ Fix64 \in Nat /\ Fix64 <= Fix64
      BY FixTop, FixOrder
    <3> QED BY <3>2, <3>3, Zenon DEF FixNumber
  <2> QED BY <1>2, <2>1, <2>2, <2>3 DEF w
<1>4. CASE x.type = PB_TYPE_FIXED32
  <2>1. w \in 0 .. Pow2[Int32] - 1 /\ ValueBytes(x) = FixBytes(w, Fix32) /\ ValueLength(x) = Fix32
    BY <1>4, StorableValue
  <2>2. DecodeValue(m, r, x.type) = DecodeFixed(m, r, Fix32)
    BY <1>4, DecodeValueIs
  <2> HIDE DEF w
  <2>3. FixNumber(w, Fix32)
    <3>1. Pow2[Int32] \in Nat
      BY PayloadPowers
    <3>2. w \in Nat /\ w < Pow2[Int32]
      BY <2>1, <3>1
    <3>3. (Payload + 1) * Fix32 = Int32 /\ Fix32 \in Nat /\ Fix32 <= Fix64
      BY FixTop, FixOrder
    <3> QED BY <3>2, <3>3, Zenon DEF FixNumber
  <2> QED BY <1>2, <2>1, <2>2, <2>3 DEF w
<1>5. CASE x.type = PB_TYPE_STRING
  <2>1. /\ w \in Seq(Bytes) /\ Len(w) \in 0 .. Pow2[Int64] - 1 /\ ValueBytes(x) = VintBytes(Len(w)) \o w
        /\ ValueLength(x) = Used(Len(w)) + Len(w)
    BY <1>5, StorableValue
  <2>2. DecodeValue(m, r, x.type) = DecodeString(m, r)
    BY <1>5, DecodeValueIs
  <2> HIDE DEF w
  <2>3. DecodeString(m, r) = Rec(p + (Used(Len(w)) + Len(w)), l - (Used(Len(w)) + Len(w)), t, y, w, No, Yes)
    BY <2>1, StringShown
  <2> QED BY <2>1, <2>2, <2>3 DEF w
<1> QED BY <1>1, <1>3, <1>4, <1>5, StorableValue, TypesIs, Zenon

\* The reader r of the message m has the first n bytes of u before it, and
\* more bytes left.
Before(m, r, p, l, t, y, v, o, u, n) ==
  /\ m \in Seq(Bytes) /\ p \in Nat /\ l \in Nat /\ p + l <= Len(m) /\ r = Rec(p, l, t, y, v, No, o)
  /\ n \in Nat /\ n <= l /\ Shows(m, p, u, n)

LEMMA VintThere ==
  ASSUME NEW m, NEW r, NEW p, NEW l, NEW t, NEW y, NEW v, NEW o, NEW w \in 0 .. Pow2[Int64] - 1,
         Before(m, r, p, l, t, y, v, o, VintBytes(w), Used(w))
  PROVE  DecodeVarint(m, r) = Rec(p + Used(w), l - Used(w), t, y, w, No, o)
<1>1. p \in Nat /\ l \in Nat /\ r = Rec(p, l, t, y, v, No, o) /\ Used(w) <= l /\ Shows(m, p, VintBytes(w), Used(w))
  BY DEF Before
<1> QED BY <1>1, VintShown

LEMMA VintHere ==
  ASSUME NEW m, NEW r, NEW p, NEW l, NEW t, NEW y, NEW v, NEW o, NEW w \in 0 .. Pow2[Int64] - 1,
         Before(m, r, p, l, t, y, v, o, VintBytes(w), l), l < Used(w)
  PROVE  DecodeVarint(m, r) = Rec(p + l, 0, t, y, v, No, No)
<1>1. p \in Nat /\ l \in Nat /\ r = Rec(p, l, t, y, v, No, o) /\ Shows(m, p, VintBytes(w), l)
  BY DEF Before
<1> QED BY <1>1, VintShort

LEMMA ValueThere ==
  ASSUME NEW m, NEW r, NEW p, NEW l, NEW t, NEW y, NEW v, NEW x, Storable(x),
         Before(m, r, p, l, t, y, v, Yes, ValueBytes(x), ValueLength(x))
  PROVE  DecodeValue(m, r, x.type) = Rec(p + ValueLength(x), l - ValueLength(x), t, y, x.val, No, Yes)
<1>1. m \in Seq(Bytes) /\ p \in Nat /\ l \in Nat /\ p + l <= Len(m) /\ r = Rec(p, l, t, y, v, No, Yes)
      /\ ValueLength(x) <= l /\ Shows(m, p, ValueBytes(x), ValueLength(x))
  BY DEF Before
<1> QED BY <1>1, ValueRead

\* A field that is there completely.
LEMMA FieldRead ==
  ASSUME NEW m, NEW r, NEW p, NEW l, NEW t, NEW y, NEW v, NEW o, NEW x, Storable(x),
         Before(m, r, p, l, t, y, v, o, Encode(x), Len(Encode(x)))
  PROVE  DecodeTag(m, r) = Rec(p + Len(Encode(x)), l - Len(Encode(x)), x.tag, x.type, x.val, No, Yes)
<1> DEFINE w == TagWord(x.type, x.tag)
           T == VintBytes(w)
           h == Used(w)
           u == ValueBytes(x)
           n == ValueLength(x)
           E == Encode(x)
           r1 == Rec(p, l, t, y, v, No, Yes)
           q == p + h
           k == l - h
           r2 == Rec(q, k, x.tag, x.type, w, No, Yes)
<1>1. /\ E = T \o u /\ T \in Seq(Bytes) /\ u \in Seq(Bytes) /\ w \in 0 .. Pow2[Int64] - 1 /\ Len(T) = h /\ Len(u) = n
      /\ n \in Nat /\ h \in Nat /\ Len(E) = h + n
  BY EncodeSplit, EncodeLength
<1>2. w % 8 = x.type /\ (w \div 8) % Pow2[Int32] = x.tag /\ w \in Nat /\ w # 0
  <2>1. x.tag \in 1 .. Pow2[Int32 - 3] - 1 /\ x.type \in Types /\ Pow2[Int64] \in Nat
    BY PayloadPowers DEF Storable
  <2>2. w % 8 = x.type /\ (w \div 8) % Pow2[Int32] = x.tag /\ w # 0
    BY <2>1, TagWordIs
  <2> QED BY <2>1, <2>2, <1>1
<1>3. /\ m \in Seq(Bytes) /\ p \in Nat /\ l \in Nat /\ p + l <= Len(m) /\ r = Rec(p, l, t, y, v, No, o)
      /\ h + n <= l /\ Shows(m, p, T \o u, h + n)
  BY <1>1 DEF Before
<1> HIDE DEF T, h, u, n, E
<1>4. Shows(m, p, T, h) /\ Shows(m, q, u, n)
  <2> DEFINE c == h + n
  <2>1. c \in Nat /\ c <= Len(T) + Len(u) /\ c >= Len(T) /\ c - Len(T) = n /\ Shows(m, p, T \o u, c)
    BY <1>1, <1>3
  <2> HIDE DEF c
  <2>2. Shows(m, p, T, Len(T)) /\ Shows(m, p + Len(T), u, c - Len(T))
    BY <2>1, <1>1, <1>3, ShowsJoined
  <2> QED BY <2>1, <2>2, <1>1
<1>5. q \in Nat /\ k \in Nat /\ h <= l /\ n <= k /\ q + k <= Len(m) /\ q + n = p + Len(E) /\ k - n = l - Len(E)
  BY <1>1, <1>3, LenProperties
<1> HIDE DEF w
<1>6. DecodeVarint(m, r1) = Rec(q, k, t, y, w, No, Yes)
  <2>1. r1 = Rec(p, l, t, y, v, No, Yes)
    OBVIOUS
  <2> HIDE DEF r1
  <2>2. Before(m, r1, p, l, t, y, v, Yes, VintBytes(w), Used(w))
    BY <2>1, <1>1, <1>3, <1>4, <1>5 DEF Before, T, h
  <2>3. DecodeVarint(m, r1) = Rec(p + Used(w), l - Used(w), t, y, w, No, Yes)
    BY <2>2, <1>1, VintThere
  <2> QED BY <2>3 DEF h
<1>7. DecodeTag(m, r) = DecodeValue(m, r2, x.type)
  <2> HIDE DEF q, k
  <2> DEFINE c == w
  <2>1. DecodeVarint(m, Rec(p, l, t, y, v, No, Yes)) = Rec(q, k, t, y, c, No, Yes) /\ c \in Nat /\ c # 0
    BY <1>2, <1>6
  <2> HIDE DEF c
  <2>2. DecodeTag(m, r) = DecodeValue(m, Rec(q, k, (c \div 8) % Pow2[Int32], c % 8, c, No, Yes), c % 8)
    BY <2>1, <1>3, <1>5, TagValue
  <2> QED BY <2>2, <1>2 DEF c
<1>8. DecodeValue(m, r2, x.type) = Rec(q + n, k - n, x.tag, x.type, x.val, No, Yes)
  <2>1. r2 = Rec(q, k, x.tag, x.type, w, No, Yes)
    OBVIOUS
  <2> HIDE DEF r2, q, k
  <2>2. Before(m, r2, q, k, x.tag, x.type, w, Yes, ValueBytes(x), ValueLength(x))
    BY <2>1, <1>1, <1>3, <1>4, <1>5 DEF Before, u, n
  <2>3. DecodeValue(m, r2, x.type) = Rec(q + ValueLength(x), k - ValueLength(x), x.tag, x.type, x.val, No, Yes)
    BY <2>2, ValueThere
  <2> QED BY <2>3 DEF n
<1>9. DecodeTag(m, r) = Rec(p + Len(E), l - Len(E), x.tag, x.type, x.val, No, Yes)
  <2> HIDE DEF q, k
  <2> QED BY <1>5, <1>7, <1>8
<1> QED BY <1>9 DEF E

\* A call for a value fails inside the message, which is not over.
ValueFails(r, p, l, t, y) == \E c : \E d \in 0 .. l : r = Rec(p + d, l - d, t, y, c, No, No)

LEMMA ValueCut ==
  ASSUME NEW m, NEW r, NEW p, NEW l, NEW t, NEW y, NEW v, NEW x, Storable(x),
         Before(m, r, p, l, t, y, v, Yes, ValueBytes(x), l), l < ValueLength(x)
  PROVE  ValueFails(DecodeValue(m, r, x.type), p, l, t, y)
<1> DEFINE w == x.val
<1>1. m \in Seq(Bytes) /\ p \in Nat /\ l \in Nat /\ p + l <= Len(m) /\ r = Rec(p, l, t, y, v, No, Yes)
      /\ Shows(m, p, ValueBytes(x), l)
  BY DEF Before
<1>2. /\ 0 \in 0 .. l /\ p + 0 = p /\ l - 0 = l
      /\ l \in 0 .. l /\ l - l = 0
  BY <1>1
<1>3. CASE x.type = PB_TYPE_VARINT
  <2>1. w \in 0 .. Pow2[Int64] - 1 /\ ValueBytes(x) = VintBytes(w) /\ ValueLength(x) = Used(w)
    BY <1>3, StorableValue
  <2>2. DecodeValue(m, r, x.type) = DecodeVarint(m, r)
    BY <1>3, DecodeValueIs
  <2> HIDE DEF w
  <2>3. Before(m, r, p, l, t, y, v, Yes, VintBytes(w), l) /\ l < Used(w)
    BY <2>1
  <2>4. DecodeVarint(m, r) = Rec(p + l, 0, t, y, v, No, No)
    BY <2>1, <2>3, VintHere
  <2>5. DecodeValue(m, r, x.type) = Rec(p + l, l - l, t, y, v, No, No)
    BY <2>2, <2>4, <1>2
  <2> QED BY <2>5, <1>2, Zenon DEF ValueFails
<1>4. ASSUME NEW n \in Nat, l < n, DecodeValue(m, r, x.type) = DecodeFixed(m, r, n)
      PROVE  ValueFails(DecodeValue(m, r, x.type), p, l, t, y)
  <2> DEFINE e == No
             z == DecodeFixed(m, r, n)
  <2>1. r = Rec(p, l, t, y, v, e, Yes)
    BY <1>1
  <2>2. z = Rec(p, l, t, y, v, No, No)
    <3> HIDE DEF e
    <3>1. DecodeFixed(m, r, n) = Rec(p, l, t, y, v, e, No)
      BY <1>1, <1>4, <2>1, DecodeFixedIs
    <3> QED BY <3>1 DEF e
  <2>3. z = Rec(p + 0, l - 0, t, y, v, No, No)
    <3> HIDE DEF z
    <3> QED BY <2>2, <1>2
  <2>4. DecodeValue(m, r, x.type) = Rec(p + 0, l - 0, t, y, v, No, No)
    BY <1>4, <2>3
  <2> QED BY <2>4, <1>2, Zenon DEF ValueFails
<1>5. CASE x.type = PB_TYPE_FIXED64
  <2>1. ValueLength(x) = Fix64 /\ Fix64 \in Nat
    BY <1>5, StorableValue, FixOrder
  <2>2. DecodeValue(m, r, x.type) = DecodeFixed(m, r, Fix64)
    BY <1>5, DecodeValueIs
  <2> QED BY <1>4, <2>1, <2>2
<1>6. CASE x.type = PB_TYPE_FIXED32
  <2>1. ValueLength(x) = Fix32 /\ Fix32 \in Nat
    BY <1>6, StorableValue, FixOrder
  <2>2. DecodeValue(m, r, x.type) = DecodeFixed(m, r, Fix32)
    BY <1>6, DecodeValueIs
  <2> QED BY <1>4, <2>1, <2>2
<1>7. CASE x.type = PB_TYPE_STRING
  <2> DEFINE n == Len(w)
             h == Used(n)
             a == VintBytes(n)
  <2>1. w \in Seq(Bytes) /\ n \in 0 .. Pow2[Int64] - 1 /\ ValueBytes(x) = a \o w /\ ValueLength(x) = h + n
    BY <1>7, StorableValue
  <2>2. DecodeValue(m, r, x.type) = DecodeString(m, r)
    BY <1>7, DecodeValueIs
  <2>9. Len(w) = n
    OBVIOUS
  <2> HIDE DEF w, n
  <2>3. n \in Nat /\ h \in Nat \ {0} /\ a \in Seq(Bytes) /\ Len(a) = h
    BY <2>1, UsedNat, VintBytesOK, PayloadPowers
  <2>4. l <= Len(a) + Len(w) /\ Shows(m, p, a \o w, l)
    BY <1>1, <2>1, <2>3, <2>9
  <2>5. CASE l < h
    <3>1. Shows(m, p, a, l)
      <4>1. l <= Len(a)
        BY <2>5, <2>3, <1>1
      <4> HIDE DEF a
      <4> QED BY <4>1, <2>1, <2>3, <2>4, <1>1, ShowsJoined
    <3>2. Before(m, r, p, l, t, y, v, Yes, VintBytes(n), l)
      BY <1>1, <3>1 DEF Before
    <3>3. DecodeVarint(m, r) = Rec(p + l, 0, t, y, v, No, No)
      BY <2>1, <2>5, <3>2, VintHere
    <3> DEFINE q == p + l
               k == l - l
               e == No
    <3>4. DecodeVarint(m, r) = Rec(q, k, t, y, v, e, No) /\ q \in Nat /\ k \in Nat
      BY <3>3, <1>1
    <3> HIDE DEF q, k, e
    <3>5. DecodeString(m, r) = Rec(q, k, t, y, v, e, No)
      BY <3>4, StringFails
    <3>6. DecodeString(m, r) = Rec(p + l, l - l, t, y, v, No, No)
      BY <3>5 DEF q, k, e
    <3> QED BY <2>2, <3>6, <1>2, Zenon DEF ValueFails
  <2>6. CASE ~(l < h)
    <3> DEFINE q == p + h
               k == l - h
               e == No
               b == n
    <3>0. q \in Nat /\ k \in Nat /\ h \in Nat /\ h <= l /\ h \in 0 .. l /\ b \in Nat /\ b > k
      BY <1>1, <2>1, <2>3, <2>6
    <3>1. Shows(m, p, a, h)
      <4>1. l >= Len(a)
        BY <3>0, <2>3, <1>1
      <4> HIDE DEF a, h
      <4>2. Shows(m, p, a, Len(a))
        BY <4>1, <2>1, <2>3, <2>4, <1>1, ShowsJoined
      <4> QED BY <4>2, <2>3
    <3>2. Before(m, r, p, l, t, y, v, Yes, VintBytes(n), Used(n))
      BY <1>1, <3>0, <3>1 DEF Before
    <3>3. DecodeVarint(m, r) = Rec(p + Used(n), l - Used(n), t, y, n, No, Yes)
      BY <2>1, <3>2, VintThere
    <3>4. DecodeVarint(m, r) = Rec(q, k, t, y, b, e, Yes)
      BY <3>3
    <3> HIDE DEF q, k, e, b
    <3>5. DecodeString(m, r) = Rec(q, k, t, y, b, e, No)
      BY <3>0, <3>4, StringLong
    <3>6. DecodeString(m, r) = Rec(p + h, l - h, t, y, n, No, No)
      BY <3>5 DEF q, k, e, b
    <3> QED BY <2>2, <3>0, <3>6, Zenon DEF ValueFails
  <2> QED BY <2>5, <2>6
<1> QED BY <1>3, <1>5, <1>6, <1>7, StorableValue, TypesIs, Zenon

\* A call for a field fails; the message is over when e says so.
Stops(r, p, l, e) == \E v, t, y : \E d \in 0 .. l : r = Rec(p + d, l - d, t, y, v, e, No)

\* A field of which l bytes are there, but not all: if these are a part of its
\* tag, then the message is over.
LEMMA FieldCut ==
  ASSUME NEW m, NEW r, NEW p, NEW l, NEW t, NEW y, NEW v, NEW o, NEW x, Storable(x),
         Before(m, r, p, l, t, y, v, o, Encode(x), l), l < Len(Encode(x))
  PROVE  /\ l < Used(TagWord(x.type, x.tag)) => Stops(DecodeTag(m, r), p, l, Yes)
         /\ ~(l < Used(TagWord(x.type, x.tag))) => Stops(DecodeTag(m, r), p, l, No)
<1> DEFINE w == TagWord(x.type, x.tag)
           T == VintBytes(w)
           h == Used(w)
           u == ValueBytes(x)
           n == ValueLength(x)
           E == Encode(x)
           r1 == Rec(p, l, t, y, v, No, Yes)
           q == p + h
           k == l - h
           r2 == Rec(q, k, x.tag, x.type, w, No, Yes)
<1>1. /\ E = T \o u /\ T \in Seq(Bytes) /\ u \in Seq(Bytes) /\ w \in 0 .. Pow2[Int64] - 1 /\ Len(T) = h /\ Len(u) = n
      /\ n \in Nat /\ h \in Nat /\ Len(E) = h + n
  BY EncodeSplit, EncodeLength
<1>2. w % 8 = x.type /\ (w \div 8) % Pow2[Int32] = x.tag /\ w \in Nat /\ w # 0
  <2>1. x.tag \in 1 .. Pow2[Int32 - 3] - 1 /\ x.type \in Types /\ Pow2[Int64] \in Nat
    BY PayloadPowers DEF Storable
  <2>2. w % 8 = x.type /\ (w \div 8) % Pow2[Int32] = x.tag /\ w # 0
    BY <2>1, TagWordIs
  <2> QED BY <2>1, <2>2, <1>1
<1>3. /\ m \in Seq(Bytes) /\ p \in Nat /\ l \in Nat /\ p + l <= Len(m) /\ r = Rec(p, l, t, y, v, No, o)
      /\ l < h + n /\ l <= Len(T) + Len(u) /\ Shows(m, p, T \o u, l)
  BY <1>1 DEF Before
<1> HIDE DEF w, T, h, u, n, E
<1>4. r1 = Rec(p, l, t, y, v, No, Yes)
  OBVIOUS
<1>5. ASSUME l < h PROVE Stops(DecodeTag(m, r), p, l, Yes)
  <2>1. Shows(m, p, T, l)
    <3>1. l <= Len(T)
      BY <1>1, <1>3, <1>5
    <3> QED BY <3>1, <1>1, <1>3, ShowsJoined
  <2> HIDE DEF r1
  <2>2. Before(m, r1, p, l, t, y, v, Yes, VintBytes(w), l) /\ l < Used(w)
    BY <1>3, <1>4, <1>5, <2>1 DEF Before, T, h
  <2>3. DecodeVarint(m, r1) = Rec(p + l, 0, t, y, v, No, No)
    BY <2>2, <1>1, VintHere
  <2> DEFINE a == p + l
             b == l - l
  <2>4. DecodeVarint(m, Rec(p, l, t, y, v, No, Yes)) = Rec(a, b, t, y, v, No, No) /\ a \in Nat /\ b \in Nat /\ b = 0 /\ l \in 0 .. l
    BY <2>3, <1>3 DEF r1
  <2> HIDE DEF a, b
  <2>5. DecodeTag(m, r) = Rec(a, b, t, y, v, Yes, No)
    BY <2>4, <1>3, TagFails
  <2> QED BY <2>4, <2>5, Zenon DEF a, b, Stops
<1>6. ASSUME ~(l < h) PROVE Stops(DecodeTag(m, r), p, l, No)
  <2>0. q \in Nat /\ k \in Nat /\ h <= l /\ k < n /\ q + k <= Len(m)
    BY <1>1, <1>3, <1>6, LenProperties
  <2>1. Shows(m, p, T, h) /\ Shows(m, q, u, k)
    <3>1. l >= Len(T)
      BY <1>1, <1>3, <1>6
    <3>2. Shows(m, p, T, Len(T)) /\ Shows(m, p + Len(T), u, l - Len(T))
      BY <3>1, <1>1, <1>3, ShowsJoined
    <3> QED BY <3>2, <1>1
  <2>2. DecodeVarint(m, r1) = Rec(q, k, t, y, w, No, Yes)
    <3> HIDE DEF r1
    <3>2. Before(m, r1, p, l, t, y, v, Yes, VintBytes(w), Used(w))
      BY <1>1, <1>3, <1>4, <2>0, <2>1 DEF Before, T, h
    <3>3. DecodeVarint(m, r1) = Rec(p + Used(w), l - Used(w), t, y, w, No, Yes)
      BY <3>2, <1>1, VintThere
    <3> QED BY <3>3 DEF h
  <2>3. DecodeTag(m, r) = DecodeValue(m, r2, x.type)
    <3> HIDE DEF q, k
    <3> DEFINE c == w
    <3>1. DecodeVarint(m, Rec(p, l, t, y, v, No, Yes)) = Rec(q, k, t, y, c, No, Yes) /\ c \in Nat /\ c # 0
      BY <1>2, <2>2
    <3> HIDE DEF c
    <3>2. DecodeTag(m, r) = DecodeValue(m, Rec(q, k, (c \div 8) % Pow2[Int32], c % 8, c, No, Yes), c % 8)
      BY <3>1, <1>3, <2>0, TagValue
    <3> QED BY <3>2, <1>2 DEF c
  <2>4. r2 = Rec(q, k, x.tag, x.type, w, No, Yes)
    OBVIOUS
  <2> HIDE DEF r2, q, k
  <2>5. Before(m, r2, q, k, x.tag, x.type, w, Yes, ValueBytes(x), k) /\ k < ValueLength(x)
    BY <1>3, <2>0, <2>1, <2>4 DEF Before, u, n
  <2>6. ValueFails(DecodeValue(m, r2, x.type), q, k, x.tag, x.type)
    BY <2>5, ValueCut
  <2>7. PICK c : \E d \in 0 .. k : DecodeTag(m, r) = Rec(q + d, k - d, x.tag, x.type, c, No, No)
    BY <2>3, <2>6, Zenon DEF ValueFails
  <2>8. PICK d \in 0 .. k : DecodeTag(m, r) = Rec(q + d, k - d, x.tag, x.type, c, No, No)
    BY <2>7
  <2> DEFINE j == h + d
  <2>9. j \in 0 .. l /\ q + d = p + j /\ k - d = l - j
    BY <1>1, <1>3, <2>0 DEF q, k
  <2>10. DecodeTag(m, r) = Rec(p + j, l - j, x.tag, x.type, c, No, No)
    <3> HIDE DEF j
    <3> QED BY <2>8, <2>9
  <2> HIDE DEF j
  <2> QED BY <2>9, <2>10, Zenon DEF Stops
<1> QED BY <1>5, <1>6 DEF h, w

-----------------------------------------------------------------------------
(***************************************************************************)
(* Messages.                                                               *)
(***************************************************************************)
Encodings(xs) == [i \in 1 .. Len(xs) |-> Encode(xs[i])]

LEMMA WrittenAt ==
  ASSUME NEW xs \in Seq(Written), NEW i \in 1 .. Len(xs)
  PROVE  xs[i] \in Written /\ Storable(xs[i]) /\ Encode(xs[i]) \in Seq(Bytes)
<1>1. xs[i] \in Written
  BY ElementOfSeq
<1> DEFINE x == xs[i]
<1> HIDE DEF x
<1>2. x \in Written
  BY <1>1 DEF x
<1>3. Storable(x)
  BY <1>2, WrittenStorable
<1>4. Encode(x) \in Seq(Bytes)
  BY <1>3, EncodeLength
<1> QED BY <1>2, <1>3, <1>4 DEF x

LEMMA EncodingsIs ==
  ASSUME NEW xs \in Seq(Written)
  PROVE  /\ Encodings(xs) \in Seq(Seq(Bytes)) /\ Len(Encodings(xs)) = Len(xs)
         /\ \A i \in 1 .. Len(xs) : Encodings(xs)[i] = Encode(xs[i])
<1>1. Len(xs) \in Nat /\ \A i \in 1 .. Len(xs) : Encode(xs[i]) \in Seq(Bytes)
  BY WrittenAt, LenProperties
<1> DEFINE R == Seq(Bytes)
           n == Len(xs)
           e == Encodings(xs)
<1>2. e = [i \in 1 .. n |-> Encode(xs[i])] /\ n \in Nat /\ \A i \in 1 .. n : Encode(xs[i]) \in R
  BY <1>1 DEF Encodings
<1> HIDE DEF R, n, e
<1>3. e \in Seq(R) /\ Len(e) = n /\ \A i \in 1 .. n : e[i] = Encode(xs[i])
  BY <1>2
<1> QED BY <1>3 DEF R, n, e

\* The first k fields.
LEMMA FirstFields ==
  ASSUME NEW xs \in Seq(Written), NEW k \in 0 .. Len(xs)
  PROVE  /\ SubSeq(xs, 1, k) \in Seq(Written) /\ Len(SubSeq(xs, 1, k)) = k
         /\ Encodings(SubSeq(xs, 1, k)) = SubSeq(Encodings(xs), 1, k)
<1> DEFINE ys == SubSeq(xs, 1, k)
           a == Encodings(ys)
           b == SubSeq(Encodings(xs), 1, k)
           R == Seq(Bytes)
<1>1. ys \in Seq(Written) /\ Len(ys) = k /\ k \in Nat /\ \A i \in 1 .. k : ys[i] = xs[i]
  BY Prefix
<1>2. Encodings(xs) \in Seq(R) /\ k \in 0 .. Len(Encodings(xs)) /\ \A i \in 1 .. k : Encodings(xs)[i] = Encode(xs[i])
  BY EncodingsIs
<1> HIDE DEF ys
<1>3. a \in Seq(R) /\ Len(a) = k /\ \A i \in 1 .. k : a[i] = Encode(ys[i])
  BY <1>1, EncodingsIs
<1> HIDE DEF R
<1>4. b \in Seq(R) /\ Len(b) = k /\ \A i \in 1 .. k : b[i] = Encodings(xs)[i]
  BY <1>2, Prefix
<1>5. \A i \in 1 .. k : a[i] = b[i]
  BY <1>1, <1>2, <1>3, <1>4
<1> HIDE DEF a, b
<1>6. a = b
  BY <1>3, <1>4, <1>5, SeqEqual
<1> QED BY <1>1, <1>6 DEF ys, a, b

LEMMA MessageType ==
  ASSUME NEW xs \in Seq(Written)
  PROVE  Message(xs) \in Seq(Bytes) /\ Len(Message(xs)) \in Nat
<1>1. Message(xs) = FlattenSeq(Encodings(xs))
  BY DEF Message, Encodings
<1>2. Message(xs) \in Seq(Bytes)
  BY <1>1, EncodingsIs, Flatten
<1> QED BY <1>2, LenProperties

LEMMA MessageNone == Message(<<>>) = <<>>
<1>1. Encodings(<<>>) = <<>>
  BY DEF Encodings
<1>2. FlattenSeq(<<>>) = <<>>
  BY Zenon DEF FlattenSeq
<1>3. Message(<<>>) = FlattenSeq(Encodings(<<>>))
  BY DEF Message, Encodings
<1> QED BY <1>1, <1>2, <1>3

\* One field more.
LEMMA MessageStep ==
  ASSUME NEW xs \in Seq(Written), NEW k \in 1 .. Len(xs)
  PROVE  Message(SubSeq(xs, 1, k)) = Message(SubSeq(xs, 1, k - 1)) \o Encode(xs[k])
<1> DEFINE j == k - 1
           cs == Encodings(xs)
           R == Seq(Bytes)
           a == SubSeq(cs, 1, k)
           b == SubSeq(cs, 1, j)
<1>0. k \in Nat /\ j \in 0 .. Len(xs) /\ k \in 0 .. Len(xs) /\ j = k - 1
  BY LenProperties
<1>1. cs \in Seq(Seq(Bytes)) /\ Len(cs) = Len(xs) /\ cs[k] = Encode(xs[k])
  BY EncodingsIs
<1>2. Encodings(SubSeq(xs, 1, k)) = a /\ Encodings(SubSeq(xs, 1, j)) = b
  <2> HIDE DEF j
  <2> QED BY <1>0, FirstFields
<1>3. Message(SubSeq(xs, 1, k)) = FlattenSeq(a) /\ Message(SubSeq(xs, 1, j)) = FlattenSeq(b)
  BY <1>2, Zenon DEF Message, Encodings
<1>4. a \in Seq(R) /\ Len(a) = k /\ a[k] = cs[k] /\ SubSeq(a, 1, j) = b
  <2>1. cs \in Seq(R) /\ k \in 1 .. Len(cs) /\ k \in 0 .. Len(cs)
    BY <1>0, <1>1
  <2> HIDE DEF R, cs
  <2>2. a \in Seq(R) /\ Len(a) = k /\ \A i \in 1 .. k : a[i] = cs[i]
    BY <2>1, Prefix
  <2>3. SubSeq(a, 1, j) = b
    BY <2>1, PrefixStep
  <2> QED BY <2>2, <2>3, <1>0
<1> HIDE DEF a, b, cs, j
<1>5. Ends(a, b, Encode(xs[k]))
  <2>1. k # 0 /\ Len(a) - 1 = j
    BY <1>0, <1>4
  <2> QED BY <2>1, <1>1, <1>4 DEF Ends
<1>6. FlattenSeq(a) = FlattenSeq(b) \o Encode(xs[k])
  BY <1>4, <1>5, FlattenLast
<1> QED BY <1>3, <1>6 DEF j

LEMMA WholeMessage ==
  ASSUME NEW xs \in Seq(Written)
  PROVE  SubSeq(xs, 1, Len(xs)) = xs
<1> DEFINE n == Len(xs)
           ys == SubSeq(xs, 1, n)
<1>1. n \in Nat /\ n \in 0 .. Len(xs)
  BY LenProperties
<1>2. ys \in Seq(Written) /\ Len(ys) = n /\ \A i \in 1 .. n : ys[i] = xs[i]
  <2> HIDE DEF n
  <2> QED BY <1>1, Prefix
<1> HIDE DEF ys
<1> QED BY <1>2, SeqEqual DEF ys

LEMMA NoFields ==
  ASSUME NEW xs \in Seq(Written)
  PROVE  SubSeq(xs, 1, 0) = <<>> /\ Message(SubSeq(xs, 1, 0)) = <<>> /\ Len(Message(SubSeq(xs, 1, 0))) = 0
<1> DEFINE ys == SubSeq(xs, 1, 0)
<1>1. ys \in Seq(Written) /\ Len(ys) = 0
  <2>1. 0 \in 0 .. Len(xs)
    BY LenProperties
  <2> QED BY <2>1, Prefix
<1> HIDE DEF ys
<1>2. ys = <<>>
  BY <1>1
<1>3. Message(ys) = <<>>
  BY <1>2, MessageNone
<1>4. Len(Message(ys)) = 0
  BY <1>3
<1> QED BY <1>2, <1>3, <1>4 DEF ys

LEMMA MessageAdd ==
  ASSUME NEW xs \in Seq(Written), NEW x \in Written
  PROVE  Append(xs, x) \in Seq(Written) /\ Message(Append(xs, x)) = Message(xs) \o Encode(x)
<1> DEFINE ys == Append(xs, x)
           n == Len(xs)
           k == n + 1
<1>1. n \in Nat /\ ys \in Seq(Written) /\ Len(ys) = k /\ ys[k] = x /\ \A i \in 1 .. n : ys[i] = xs[i]
  BY AppendProperties, LenProperties
<1>2. k \in 1 .. Len(ys) /\ n \in 0 .. Len(ys) /\ k - 1 = n
  BY <1>1
<1> HIDE DEF ys
<1>3. SubSeq(ys, 1, n) = xs
  <2> DEFINE zs == SubSeq(ys, 1, n)
  <2>1. zs \in Seq(Written) /\ Len(zs) = n /\ \A i \in 1 .. n : zs[i] = ys[i]
    BY <1>1, <1>2, Prefix
  <2> HIDE DEF zs
  <2>2. zs = xs
    BY <1>1, <2>1, SeqEqual
  <2> QED BY <2>2 DEF zs
<1>4. SubSeq(ys, 1, k) = ys
  BY <1>1, WholeMessage
<1> HIDE DEF k
<1>5. Message(SubSeq(ys, 1, k)) = Message(SubSeq(ys, 1, k - 1)) \o Encode(ys[k])
  BY <1>1, <1>2, MessageStep
<1>6. Message(ys) = Message(xs) \o Encode(x)
  BY <1>1, <1>2, <1>3, <1>4, <1>5
<1> QED BY <1>1, <1>6 DEF ys

\* u begins with what v is.
Begins(u, v) == Len(v) <= Len(u) /\ \A i \in 1 .. Len(v) : u[i] = v[i]

LEMMA MessageGrows ==
  ASSUME NEW xs \in Seq(Written), NEW j \in 0 .. Len(xs), NEW k \in j .. Len(xs)
  PROVE  Begins(Message(SubSeq(xs, 1, k)), Message(SubSeq(xs, 1, j)))
<1> DEFINE M(i) == Message(SubSeq(xs, 1, i))
           n == Len(xs)
           T == {i \in j .. n : ~Begins(M(i), M(j))}
<1>1. n \in Nat /\ j \in Nat
  BY LenProperties
<1>2. ASSUME NEW i \in 0 .. n PROVE M(i) \in Seq(Bytes) /\ Len(M(i)) \in Nat
  <2> DEFINE ys == SubSeq(xs, 1, i)
  <2>1. ys \in Seq(Written)
    BY FirstFields
  <2> HIDE DEF ys
  <2>2. Message(ys) \in Seq(Bytes) /\ Len(Message(ys)) \in Nat
    BY <2>1, MessageType
  <2> QED BY <2>2 DEF ys
<1>3. ASSUME NEW i \in 1 .. n PROVE M(i) = M(i - 1) \o Encode(xs[i]) /\ Encode(xs[i]) \in Seq(Bytes)
  BY MessageStep, WrittenAt
<1> SUFFICES ASSUME T # {} PROVE FALSE
  OBVIOUS
<1>4. PICK m \in T : \A y \in T : m <= y
  <2>1. T \in SUBSET Nat
    BY <1>1
  <2> HIDE DEF T
  <2> QED BY <2>1, LeastElement
<1> HIDE DEF M
<1>5. m \in j .. n /\ ~Begins(M(m), M(j)) /\ m \in Nat
  BY <1>1
<1>6. m # j
  <2>1. Begins(M(j), M(j))
    BY <1>2, <1>1 DEF Begins
  <2> QED BY <2>1, <1>5
<1>7. m - 1 \in j .. n /\ m \in 1 .. n /\ m - 1 \in 0 .. n /\ m - 1 \notin T
  <2>1. m - 1 \in j .. n /\ m \in 1 .. n /\ m - 1 \in 0 .. n
    BY <1>1, <1>5, <1>6
  <2>2. ~(m <= m - 1)
    BY <1>5
  <2> HIDE DEF T
  <2> QED BY <2>1, <2>2, <1>4
<1>8. Begins(M(m - 1), M(j))
  BY <1>7
<1> DEFINE a == M(m - 1)
           e == Encode(xs[m])
           b == M(j)
<1>9. M(m) = a \o e /\ a \in Seq(Bytes) /\ e \in Seq(Bytes) /\ Len(b) \in Nat /\ Begins(a, b)
  BY <1>2, <1>3, <1>7, <1>8
<1> HIDE DEF a, e, b
<1>10. Len(a \o e) = Len(a) + Len(e) /\ (\A i \in 1 .. Len(a) : (a \o e)[i] = a[i]) /\ Len(a) \in Nat /\ Len(e) \in Nat
  BY <1>9, JoinedAt, LenProperties
<1>11. Begins(a \o e, b)
  <2> DEFINE c == a \o e
  <2>1. /\ Len(c) = Len(a) + Len(e) /\ \A i \in 1 .. Len(a) : c[i] = a[i]
        /\ Len(b) <= Len(a) /\ \A i \in 1 .. Len(b) : a[i] = b[i]
    BY <1>9, <1>10 DEF Begins
  <2> HIDE DEF c
  <2>2. \A i \in 1 .. Len(b) : i \in 1 .. Len(a)
    BY <2>1, <1>9, <1>10
  <2>3. Len(b) <= Len(c) /\ \A i \in 1 .. Len(b) : c[i] = b[i]
    BY <2>1, <2>2, <1>9, <1>10
  <2> QED BY <2>3 DEF Begins, c
<1> QED BY <1>5, <1>9, <1>11 DEF b

\* Where a field is in its message.
LEMMA MessageAt ==
  ASSUME NEW xs \in Seq(Written), NEW k \in 1 .. Len(xs)
  PROVE  /\ Len(Message(SubSeq(xs, 1, k - 1))) \in Nat /\ Len(Message(SubSeq(xs, 1, k))) \in Nat
         /\ Len(Message(SubSeq(xs, 1, k))) = Len(Message(SubSeq(xs, 1, k - 1))) + Len(Encode(xs[k]))
         /\ Len(Message(SubSeq(xs, 1, k))) <= Len(Message(xs))
         /\ Shows(Message(xs), Len(Message(SubSeq(xs, 1, k - 1))), Encode(xs[k]), Len(Encode(xs[k])))
<1> DEFINE j == k - 1
           a == Message(SubSeq(xs, 1, j))
           b == Message(SubSeq(xs, 1, k))
           c == Message(xs)
           e == Encode(xs[k])
<1>1. Len(xs) \in Nat /\ j \in 0 .. Len(xs) /\ k \in 0 .. Len(xs) /\ Len(xs) \in k .. Len(xs)
  BY LenProperties
<1>2. b = a \o e /\ e \in Seq(Bytes)
  BY MessageStep, WrittenAt
<1>3. a \in Seq(Bytes) /\ c \in Seq(Bytes)
  <2> DEFINE ys == SubSeq(xs, 1, j)
  <2> HIDE DEF j
  <2>1. ys \in Seq(Written)
    BY <1>1, FirstFields
  <2> HIDE DEF ys
  <2>2. Message(ys) \in Seq(Bytes)
    BY <2>1, MessageType
  <2>3. Message(xs) \in Seq(Bytes)
    BY MessageType
  <2> QED BY <2>2, <2>3 DEF ys
<1>4. Begins(c, b)
  <2> DEFINE n == Len(xs)
  <2>1. n \in k .. Len(xs) /\ SubSeq(xs, 1, n) = xs
    BY <1>1, WholeMessage
  <2> HIDE DEF n
  <2>2. Begins(Message(SubSeq(xs, 1, n)), Message(SubSeq(xs, 1, k)))
    BY <1>1, <2>1, MessageGrows
  <2> QED BY <2>1, <2>2
<1> HIDE DEF a, b, c, e
<1>5. /\ Len(a) \in Nat /\ Len(e) \in Nat /\ Len(b) = Len(a) + Len(e)
      /\ \A i \in 1 .. Len(e) : b[Len(a) + i] = e[i]
  BY <1>2, <1>3, JoinedAt, LenProperties
<1>6. Len(b) <= Len(c) /\ \A i \in 1 .. Len(b) : c[i] = b[i]
  BY <1>4 DEF Begins
<1>7. ASSUME NEW i \in 1 .. Len(e) PROVE c[Len(a) + i] = e[i]
  <2>1. Len(a) + i \in 1 .. Len(b)
    BY <1>5
  <2> QED BY <2>1, <1>5, <1>6
<1>8. Shows(c, Len(a), e, Len(e))
  BY <1>7 DEF Shows
<1>9. Len(b) \in Nat
  BY <1>5
<1> QED BY <1>5, <1>6, <1>8, <1>9 DEF a, b, c, e

-----------------------------------------------------------------------------
\* The sums in Length.
IsLength(g, xs) == g = [i \in 0 .. Len(xs) |-> IF i = 0 THEN 0 ELSE g[i-1] + EvalLength(xs[i])]

\* What the callers are told about the length of their fields is what is written.
LEMMA LengthIs ==
  ASSUME NEW xs \in Seq(Written)
  PROVE  Length(xs) = Len(Message(xs))
<1> DEFINE n == Len(xs)
           f1 == [i \in 1 .. n |-> EvalLength(xs[i])]
           h == CHOOSE g : IsLength(g, xs)
           M(i) == Len(Message(SubSeq(xs, 1, i)))
           T == {i \in 0 .. n : h[i] # M(i)}
<1>1. n \in Nat /\ n \in 0 .. n
  BY LenProperties
<1>2. \E g : IsLength(g, xs)
  <2>1. PICK g : IsSum(g, f1, n)
    BY <1>1, SumExists
  <2>2. g = [k \in 0 .. n |-> IF k = 0 THEN 0 ELSE g[k - 1] + f1[k]]
    BY <2>1 DEF IsSum
  <2> DEFINE E(k) == EvalLength(xs[k])
  <2>3. \A k \in 0 .. n : k # 0 => f1[k] = E(k)
    BY <1>1
  <2> HIDE DEF E, f1
  <2>4. g = [k \in 0 .. n |-> IF k = 0 THEN 0 ELSE g[k - 1] + E(k)]
    BY <2>2, <2>3
  <2> QED BY <2>4 DEF IsLength, E
<1>3. IsLength(h, xs)
  BY <1>2, Zenon
<1>4. Length(xs) = h[n]
  BY Zenon DEF Length, IsLength
<1> HIDE DEF h, M
<1>5. h[0] = 0 /\ \A i \in 1 .. n : h[i] = h[i-1] + EvalLength(xs[i])
  <2> DEFINE E(k) == EvalLength(xs[k])
  <2>1. h = [i \in 0 .. n |-> IF i = 0 THEN 0 ELSE h[i-1] + E(i)]
    BY <1>3 DEF IsLength
  <2> HIDE DEF E, n
  <2>2. h[0] = 0 /\ \A i \in 1 .. n : h[i] = h[i-1] + E(i)
    BY <2>1, <1>1
  <2> QED BY <2>2 DEF E
<1>6. M(0) = 0
  BY NoFields DEF M
<1>7. ASSUME NEW i \in 1 .. n PROVE M(i) = M(i - 1) + EvalLength(xs[i])
  <2>1. M(i) = M(i - 1) + Len(Encode(xs[i]))
    BY MessageAt DEF M
  <2> DEFINE x == xs[i]
  <2>2. Storable(x)
    BY WrittenAt
  <2> HIDE DEF x
  <2>3. EvalLength(x) = Len(Encode(x))
    BY <2>2, EncodeLength
  <2> QED BY <2>1, <2>3 DEF x
<1> HIDE DEF n
<1>8. T = {}
  <2> SUFFICES ASSUME T # {} PROVE FALSE
    OBVIOUS
  <2>1. PICK m \in T : \A y \in T : m <= y
    <3>1. T \in SUBSET Nat
      BY <1>1
    <3> HIDE DEF T
    <3> QED BY <3>1, LeastElement
  <2>2. m \in 0 .. n /\ h[m] # M(m) /\ m \in Nat
    BY <1>1
  <2>3. m # 0
    BY <2>2, <1>5, <1>6
  <2>4. m \in 1 .. n /\ m - 1 \in 0 .. n
    BY <2>2, <2>3, <1>1
  <2>5. m - 1 \notin T
    <3>1. ~(m <= m - 1)
      BY <2>2
    <3> HIDE DEF T
    <3> QED BY <3>1, <2>1
  <2>6. h[m - 1] = M(m - 1)
    BY <2>4, <2>5
  <2> HIDE DEF T
  <2> QED BY <2>2, <2>4, <2>6, <1>5, <1>7
<1>9. h[n] = M(n)
  BY <1>1, <1>8
<1>10. M(n) = Len(Message(xs))
  BY WholeMessage DEF M, n
<1> QED BY <1>4, <1>9, <1>10

-----------------------------------------------------------------------------
(***************************************************************************)
(* A reader of the buffer.                                                 *)
(***************************************************************************)
\* The message m has n bytes of the fields xs at position o.
Source(m, o, n, xs) ==
  /\ m \in Seq(Bytes) /\ xs \in Seq(Written) /\ o \in Nat /\ n \in Nat
  /\ n <= Len(Message(xs)) /\ o + n <= Len(m) /\ Shows(m, o, Message(xs), n)

\* The reader r has read the first k fields of these.
At(r, o, n, xs, k, t, y, v, b) ==
  /\ k \in 0 .. Len(xs) /\ Len(Message(SubSeq(xs, 1, k))) <= n
  /\ r = Rec(o + Len(Message(SubSeq(xs, 1, k))), n - Len(Message(SubSeq(xs, 1, k))), t, y, v, No, b)

LEMMA MessageLength ==
  ASSUME NEW xs \in Seq(Written), NEW k \in 0 .. Len(xs)
  PROVE  Len(Message(SubSeq(xs, 1, k))) \in Nat
<1> DEFINE ys == SubSeq(xs, 1, k)
<1>1. ys \in Seq(Written)
  BY FirstFields
<1> HIDE DEF ys
<1>2. Len(Message(ys)) \in Nat
  BY <1>1, MessageType
<1> QED BY <1>2 DEF ys

\* All fields have been read.
LEMMA OwnEnd ==
  ASSUME NEW m, NEW o, NEW n, NEW xs, Source(m, o, n, xs), NEW r, NEW k, NEW t, NEW y, NEW v, NEW b,
         At(r, o, n, xs, k, t, y, v, b), k = Len(xs)
  PROVE  Stops(DecodeTag(m, r), o + Len(Message(SubSeq(xs, 1, k))), n - Len(Message(SubSeq(xs, 1, k))), Yes)
<1> DEFINE c == Len(Message(SubSeq(xs, 1, k)))
           p == o + c
           l == n - c
<1>1. /\ xs \in Seq(Written) /\ o \in Nat /\ n \in Nat /\ n <= Len(Message(xs)) /\ k \in 0 .. Len(xs)
      /\ c <= n /\ r = Rec(p, l, t, y, v, No, b)
  BY DEF Source, At
<1>2. c \in Nat /\ c = Len(Message(xs))
  BY <1>1, MessageLength, WholeMessage
<1>3. p \in Nat /\ l = 0 /\ 0 \in 0 .. l
  BY <1>1, <1>2
<1>4. r = Rec(p, 0, t, y, v, No, b)
  BY <1>1, <1>3
<1> HIDE DEF p
<1>5. DecodeTag(m, r) = Rec(p, 0, t, y, v, Yes, No)
  BY <1>3, <1>4, TagEnd
<1>6. DecodeTag(m, r) = Rec(p + 0, l - 0, t, y, v, Yes, No)
  <2>1. p + 0 = p /\ l - 0 = 0
    BY <1>3
  <2> QED BY <2>1, <1>5
<1> QED BY <1>3, <1>6, Zenon DEF p, Stops

LEMMA Ahead ==
  ASSUME NEW m, NEW o, NEW n, NEW xs, Source(m, o, n, xs), NEW r, NEW k, NEW t, NEW y, NEW v, NEW b,
         At(r, o, n, xs, k, t, y, v, b), k < Len(xs), NEW p, p = o + Len(Message(SubSeq(xs, 1, k))),
         NEW l, l = n - Len(Message(SubSeq(xs, 1, k))), NEW e, e = Encode(xs[k + 1]), NEW i \in Nat, i <= l, i <= Len(e)
  PROVE  Before(m, r, p, l, t, y, v, b, e, i)
<1> DEFINE c == Len(Message(SubSeq(xs, 1, k)))
           j == k + 1
           z == Message(xs)
<1>1. /\ m \in Seq(Bytes) /\ xs \in Seq(Written) /\ o \in Nat /\ n \in Nat /\ n <= Len(z) /\ k \in 0 .. Len(xs)
      /\ c <= n /\ r = Rec(p, l, t, y, v, No, b) /\ o + n <= Len(m) /\ Shows(m, o, z, n)
  BY DEF Source, At
<1>2. c \in Nat
  BY <1>1, MessageLength
<1>3. j \in 1 .. Len(xs) /\ j - 1 = k
  BY <1>1, LenProperties
<1>4. Shows(z, c, e, Len(e))
  <2> HIDE DEF j
  <2>1. Shows(Message(xs), Len(Message(SubSeq(xs, 1, j - 1))), Encode(xs[j]), Len(Encode(xs[j])))
    BY <1>1, <1>3, MessageAt
  <2> QED BY <2>1, <1>3 DEF j
<1>9. p = o + c /\ l = n - c
  OBVIOUS
<1> HIDE DEF c, z
<1>5. Len(e) \in Nat
  <2>1. e \in Seq(Bytes)
    <3> HIDE DEF j
    <3>1. Encode(xs[j]) \in Seq(Bytes)
      BY <1>1, <1>3, WrittenAt
    <3> QED BY <3>1 DEF j
  <2> QED BY <2>1, LenProperties
<1>6. ASSUME NEW a \in 1 .. i PROVE m[p + a] = e[a]
  <2> DEFINE d == c + a
  <2>1. a \in 1 .. Len(e) /\ d \in 1 .. n /\ p + a = o + d
    <3>1. /\ o \in Nat /\ n \in Nat /\ c \in Nat /\ Len(e) \in Nat /\ p = o + c /\ l = n - c
          /\ i \in Nat /\ i <= l /\ i <= Len(e) /\ a \in Nat /\ 1 <= a /\ a <= i /\ d = c + a
      <4>1. a \in Nat /\ 1 <= a /\ a <= i
        <5>1. i \in Nat
          OBVIOUS
        <5> QED BY <5>1
      <4>2. /\ o \in Nat /\ n \in Nat /\ c \in Nat /\ Len(e) \in Nat /\ p = o + c /\ l = n - c
        BY <1>1, <1>2, <1>5, <1>9
      <4>3. i \in Nat /\ i <= l /\ i <= Len(e) /\ d = c + a
        OBVIOUS
      <4> QED BY <4>1, <4>2, <4>3, Zenon
    <3> DEFINE u == Len(e)
    <3>2. a <= u /\ u \in Nat
      BY <3>1
    <3>3. d \in Nat /\ 1 <= d /\ d <= n /\ p + a = o + d
      <4> HIDE DEF d
      <4> QED BY <3>1
    <3> QED BY <3>1, <3>2, <3>3
  <2>2. z[d] = e[a]
    BY <2>1, <1>4 DEF Shows
  <2> HIDE DEF d
  <2>3. m[o + d] = z[d]
    BY <2>1, <1>1 DEF Shows
  <2> QED BY <2>1, <2>2, <2>3
<1>7. p \in Nat /\ l \in Nat /\ p + l <= Len(m)
  BY <1>1, <1>2, <1>9, LenProperties
<1>8. Shows(m, p, e, i)
  BY <1>6 DEF Shows
<1> QED BY <1>1, <1>7, <1>8 DEF Before

\* The next field is there completely.
LEMMA OwnNext ==
  ASSUME NEW m, NEW o, NEW n, NEW xs, Source(m, o, n, xs), NEW r, NEW k, NEW t, NEW y, NEW v, NEW b,
         At(r, o, n, xs, k, t, y, v, b), k < Len(xs), Len(Message(SubSeq(xs, 1, k + 1))) <= n
  PROVE  DecodeTag(m, r) = Rec(o + Len(Message(SubSeq(xs, 1, k + 1))), n - Len(Message(SubSeq(xs, 1, k + 1))),
                               xs[k+1].tag, xs[k+1].type, xs[k+1].val, No, Yes)
<1> DEFINE j == k + 1
           c == Len(Message(SubSeq(xs, 1, k)))
           d == Len(Message(SubSeq(xs, 1, j)))
           x == xs[j]
           e == Encode(x)
           p == o + c
           l == n - c
<1>1. /\ m \in Seq(Bytes) /\ xs \in Seq(Written) /\ o \in Nat /\ n \in Nat /\ k \in 0 .. Len(xs) /\ c <= n /\ d <= n
  BY DEF Source, At
<1>2. j \in 1 .. Len(xs) /\ j - 1 = k
  BY <1>1, LenProperties
<1>3. c \in Nat /\ d \in Nat /\ d = c + Len(e)
  <2> HIDE DEF j
  <2>1. /\ Len(Message(SubSeq(xs, 1, j - 1))) \in Nat /\ Len(Message(SubSeq(xs, 1, j))) \in Nat
        /\ Len(Message(SubSeq(xs, 1, j))) = Len(Message(SubSeq(xs, 1, j - 1))) + Len(Encode(xs[j]))
    BY <1>1, <1>2, MessageAt
  <2> QED BY <2>1, <1>2
<1>4. Storable(x) /\ e \in Seq(Bytes)
  <2> HIDE DEF j
  <2> QED BY <1>1, <1>2, WrittenAt
<1> DEFINE i == Len(e)
<1>5. i \in Nat /\ i <= l /\ i <= Len(e) /\ o + d = p + i /\ n - d = l - i
  <2> HIDE DEF e, c, d
  <2> QED BY <1>1, <1>3, <1>4, LenProperties
<1>6. Before(m, r, p, l, t, y, v, b, e, i)
  <2>1. p = o + Len(Message(SubSeq(xs, 1, k))) /\ l = n - Len(Message(SubSeq(xs, 1, k))) /\ e = Encode(xs[k + 1])
    OBVIOUS
  <2> HIDE DEF p, l, e, i
  <2> QED BY <2>1, <1>5, Ahead
<1> HIDE DEF p, l, x, d, c
<1>7. DecodeTag(m, r) = Rec(p + Len(Encode(x)), l - Len(Encode(x)), x.tag, x.type, x.val, No, Yes)
  BY <1>4, <1>6, FieldRead
<1>8. DecodeTag(m, r) = Rec(o + d, n - d, x.tag, x.type, x.val, No, Yes)
  BY <1>5, <1>7
<1> QED BY <1>8 DEF x, d

\* A part of the next field is there.
LEMMA OwnCut ==
  ASSUME NEW m, NEW o, NEW n, NEW xs, Source(m, o, n, xs), NEW r, NEW k, NEW t, NEW y, NEW v, NEW b,
         At(r, o, n, xs, k, t, y, v, b), k < Len(xs), n < Len(Message(SubSeq(xs, 1, k + 1))),
         NEW p, p = o + Len(Message(SubSeq(xs, 1, k))), NEW l, l = n - Len(Message(SubSeq(xs, 1, k))),
         NEW h, h = VintLength(TagWord(xs[k+1].type, xs[k+1].tag))
  PROVE  /\ l < h => Stops(DecodeTag(m, r), p, l, Yes)
         /\ ~(l < h) => Stops(DecodeTag(m, r), p, l, No)
<1> DEFINE j == k + 1
           c == Len(Message(SubSeq(xs, 1, k)))
           d == Len(Message(SubSeq(xs, 1, j)))
           x == xs[j]
           e == Encode(x)
<1>1. /\ m \in Seq(Bytes) /\ xs \in Seq(Written) /\ o \in Nat /\ n \in Nat /\ k \in 0 .. Len(xs) /\ c <= n /\ n < d
  BY DEF Source, At
<1>2. j \in 1 .. Len(xs) /\ j - 1 = k
  BY <1>1, LenProperties
<1>3. c \in Nat /\ d \in Nat /\ d = c + Len(e)
  <2> HIDE DEF j
  <2>1. /\ Len(Message(SubSeq(xs, 1, j - 1))) \in Nat /\ Len(Message(SubSeq(xs, 1, j))) \in Nat
        /\ Len(Message(SubSeq(xs, 1, j))) = Len(Message(SubSeq(xs, 1, j - 1))) + Len(Encode(xs[j]))
    BY <1>1, <1>2, MessageAt
  <2> QED BY <2>1, <1>2
<1>4. Storable(x) /\ e \in Seq(Bytes)
  <2> HIDE DEF j
  <2> QED BY <1>1, <1>2, WrittenAt
<1>5. l \in Nat /\ l <= l /\ l < Len(e) /\ l <= Len(e)
  <2>1. l = n - c
    OBVIOUS
  <2> HIDE DEF e, c, d
  <2> QED BY <2>1, <1>1, <1>3, <1>4, LenProperties
<1>6. Before(m, r, p, l, t, y, v, b, e, l)
  <2>1. e = Encode(xs[k + 1])
    OBVIOUS
  <2> HIDE DEF e
  <2> QED BY <2>1, <1>5, Ahead
<1> DEFINE w == TagWord(x.type, x.tag)
<1>7. h = Used(w)
  <2>1. w \in 0 .. Pow2[Int64] - 1
    <3> HIDE DEF x
    <3> QED BY <1>4, EncodeSplit
  <2>2. h = VintLength(w)
    OBVIOUS
  <2> HIDE DEF w
  <2>3. VintLength(w) = Used(w)
    BY <2>1, VintLengthIs
  <2> QED BY <2>2, <2>3
<1> HIDE DEF x
<1>8. Before(m, r, p, l, t, y, v, b, Encode(x), l) /\ l < Len(Encode(x))
  BY <1>5, <1>6
<1>9. /\ l < Used(TagWord(x.type, x.tag)) => Stops(DecodeTag(m, r), p, l, Yes)
      /\ ~(l < Used(TagWord(x.type, x.tag))) => Stops(DecodeTag(m, r), p, l, No)
  BY <1>4, <1>8, FieldCut
<1> QED BY <1>7, <1>9

-----------------------------------------------------------------------------
(***************************************************************************)
(* The steps of a reader.                                                  *)
(***************************************************************************)
LEMMA CanonicalStorable ==
  ASSUME NEW x, NEW n \in Nat, Canonical(x.tag, x.type, x.val, n), x.tag \in 1 .. Pow2[Int32 - 3] - 1
  PROVE  Storable(x) /\ Len(Encode(x)) <= n
<1> DEFINE t == x.tag
           y == x.type
           v == x.val
           u == Used(TagWord(y, t))
<1>1. PICK h \in Nat, k \in Nat : n = h + k /\ u <= h /\ Fits(y, v, k)
  BY DEF Canonical
<1>2. Storable(x)
  <2>1. y \in Types
    BY <1>1 DEF Fits
  <2>2. y \in {PB_TYPE_VARINT, PB_TYPE_FIXED64} => v \in 0 .. Pow2[Int64] - 1
    BY <1>1 DEF Fits
  <2>3. y = PB_TYPE_FIXED32 => v \in 0 .. Pow2[Int32] - 1
    BY <1>1 DEF Fits
  <2>4. y = PB_TYPE_STRING => v \in Seq(Bytes) /\ Len(v) < Pow2[Int64]
    BY <1>1 DEF Fits
  <2> QED BY <2>1, <2>2, <2>3, <2>4 DEF Storable
<1> DEFINE w == ValueLength(x)
<1>3. w <= k
  <2>1. \/ y = PB_TYPE_VARINT \/ y = PB_TYPE_FIXED64 \/ y = PB_TYPE_FIXED32 \/ y = PB_TYPE_STRING
    BY <1>1, TypesIs DEF Fits
  <2>2. CASE y = PB_TYPE_VARINT
    BY <1>1, <2>2 DEF Fits, ValueLength
  <2>3. CASE y = PB_TYPE_FIXED64
    BY <1>1, <2>3, TypesIs DEF Fits, ValueLength
  <2>4. CASE y = PB_TYPE_FIXED32
    BY <1>1, <2>4, TypesIs DEF Fits, ValueLength
  <2>5. CASE y = PB_TYPE_STRING
    BY <1>1, <2>5, TypesIs DEF Fits, ValueLength
  <2> QED BY <2>1, <2>2, <2>3, <2>4, <2>5
<1>4. w \in Nat /\ u \in Nat /\ Len(Encode(x)) = u + w
  BY <1>2, EncodeLength
<1> HIDE DEF w, u
<1>5. Len(Encode(x)) <= n
  BY <1>1, <1>3, <1>4
<1> QED BY <1>2, <1>5

LEMMA ReaderIs ==
  ASSUME NEW m, NEW r, Reader(m, r), r.eom = No
  PROVE  /\ r = Rec(r.pos, r.left, r.tag, r.type, r.val, No, r.ok)
         /\ r.pos \in Nat /\ r.left \in Nat /\ r.pos + r.left <= Len(m)
         /\ r.tag \in 0 .. Pow2[Int32] - 1 /\ r.type \in 0 .. 7
BY Zenon DEF Reader, Rec

\* A reader, as far as its message is concerned.
Inside(m, p, l, t, y) ==
  /\ m \in Seq(Bytes) /\ p \in Nat /\ l \in Nat /\ p + l <= Len(m)
  /\ t \in 0 .. Pow2[Int32] - 1 /\ y \in 0 .. 7

LEMMA IsReader ==
  ASSUME NEW m, NEW p, NEW l, NEW t, NEW y, NEW v, NEW e \in {Yes, No}, NEW o \in {Yes, No}, NEW r,
         r = Rec(p, l, t, y, v, e, o), Inside(m, p, l, t, y)
  PROVE  Reader(m, r)
<1>1. r.pos = p /\ r.left = l /\ r.tag = t /\ r.type = y /\ r.val = v /\ r.eom = e /\ r.ok = o
  BY RecIs
<1>2. r = [pos |-> r.pos, left |-> r.left, tag |-> r.tag, type |-> r.type, val |-> r.val,
           eom |-> r.eom, ok |-> r.ok]
  BY <1>1, Zenon DEF Rec
<1>3. e \in BOOLEAN /\ o \in BOOLEAN
  BY DEF Yes, No
<1> QED BY <1>1, <1>2, <1>3 DEF Reader, Inside

\* Every call for a field leaves a reader inside the message; the field it
\* returns can be written again.
LEMMA ReadInside ==
  ASSUME NEW m, NEW r, NEW p, NEW l, NEW t, NEW y, NEW v, NEW o, Inside(m, p, l, t, y),
         r = Rec(p, l, t, y, v, No, o), starts \in Seq(Nat), Reading(DecodeTag(m, r), p)
  PROVE  /\ phase' \in {"read", "end"} /\ Reader(m, f') /\ starts' \in Seq(Nat) /\ Rewritable'
<1> DEFINE d == DecodeTag(m, r)
<1>1. FieldFails(d, p, l) \/ FieldReads(d, p, l)
  BY FieldAny DEF Inside
<1>2. /\ f' = d /\ starts' = (IF d.ok THEN Append(starts, p) ELSE starts)
      /\ phase' = (IF d.ok THEN "read" ELSE "end")
  BY DEF Reading
<1> HIDE DEF d
<1>3. CASE FieldFails(d, p, l)
  <2>1. PICK w : \E c \in 0 .. l, a \in 0 .. Pow2[Int32] - 1, b \in 0 .. 7, e \in {Yes, No} :
          d = Rec(p + c, l - c, a, b, w, e, No)
    BY <1>3 DEF FieldFails
  <2>2. PICK c \in 0 .. l, a \in 0 .. Pow2[Int32] - 1, b \in 0 .. 7, e \in {Yes, No} :
          d = Rec(p + c, l - c, a, b, w, e, No)
    BY <2>1
  <2> DEFINE p1 == p + c
             l1 == l - c
  <2>3. Inside(m, p1, l1, a, b)
    BY DEF Inside
  <2>4. d = Rec(p1, l1, a, b, w, e, No)
    BY <2>2
  <2> HIDE DEF p1, l1
  <2>5. d.ok = No /\ No \in {Yes, No}
    BY <2>4, RecIs
  <2>6. Reader(m, d)
    BY <2>3, <2>4, <2>5, IsReader
  <2>7. phase' = "end" /\ starts' = starts
    BY <1>2, <2>5 DEF No
  <2>8. Rewritable'
    BY <2>7 DEF Rewritable
  <2> QED BY <1>2, <2>6, <2>7, <2>8
<1>4. CASE FieldReads(d, p, l)
  <2>1. PICK w : \E c \in 0 .. l, a \in 0 .. Pow2[Int32] - 1, b \in Types :
          d = Rec(p + c, l - c, a, b, w, No, Yes) /\ Canonical(a, b, w, c)
    BY <1>4 DEF FieldReads
  <2>2. PICK c \in 0 .. l, a \in 0 .. Pow2[Int32] - 1, b \in Types :
          d = Rec(p + c, l - c, a, b, w, No, Yes) /\ Canonical(a, b, w, c)
    BY <2>1
  <2> DEFINE p1 == p + c
             l1 == l - c
  <2>3. Inside(m, p1, l1, a, b) /\ c \in Nat /\ p1 - p = c /\ p \in Nat
    BY TypesIs DEF Inside
  <2>4. d = Rec(p1, l1, a, b, w, No, Yes)
    BY <2>2
  <2> HIDE DEF p1, l1
  <2>5. d.ok = Yes /\ d.eom = No /\ d.pos = p1 /\ d.tag = a /\ d.type = b /\ d.val = w /\ No \in {Yes, No} /\ Yes \in {Yes, No}
    BY <2>4, RecIs
  <2>6. Reader(m, d)
    BY <2>3, <2>4, <2>5, IsReader
  <2>7. phase' = "read" /\ starts' = Append(starts, p)
    BY <1>2, <2>5 DEF Yes
  <2>8. starts' \in Seq(Nat) /\ starts'[Len(starts')] = p
    BY <2>3, <2>7, AppendProperties, LenProperties
  <2> DEFINE x == FieldOf(d)
  <2>9. x.tag = a /\ x.type = b /\ x.val = w
    BY <2>5 DEF FieldOf
  <2> HIDE DEF x
  <2>10. x.tag \in 1 .. Pow2[Int32 - 3] - 1 => Storable(x) /\ Len(Encode(x)) <= c
    BY <2>2, <2>3, <2>9, CanonicalStorable
  <2>11. d.ok /\ ~d.eom
    BY <2>5 DEF Yes, No
  <2>12. d.tag \in 1 .. Pow2[Int32 - 3] - 1 => Storable(FieldOf(d)) /\ Len(Encode(FieldOf(d))) <= d.pos - starts'[Len(starts')]
    BY <2>3, <2>5, <2>8, <2>9, <2>10 DEF x
  <2>13. Rewritable'
    BY <1>2, <2>11, <2>12 DEF Rewritable
  <2> QED BY <1>2, <2>6, <2>7, <2>8, <2>13
<1> QED BY <1>1, <1>3, <1>4

\* The reader has come to the end of the fields g of the buffer, or not further.
Ended(r, n, xs, g) ==
  IF g = Len(xs) THEN r.eom
  ELSE /\ n < Len(Message(SubSeq(xs, 1, g + 1)))
       /\ r.eom <=> n - Len(Message(SubSeq(xs, 1, g))) < VintLength(TagWord(xs[g+1].type, xs[g+1].tag))

\* The bytes of the buffer are part of the message, which is cut off only if they
\* are all of it.
Given(m, o, n) ==
  Source(m, o, n, sent) /\ buf = Message(sent) /\ ((o = 0 /\ n = Len(m)) \/ (o > 0 /\ n = Len(buf)))

LEMMA Followed ==
  ASSUME NEW m, NEW o, NEW n, Given(m, o, n), msg' = m, buf' = buf, sent' = sent,
         NEW g \in 0 .. Len(sent), got' = SubSeq(sent, 1, g), f'.pos + f'.left = o + n,
         phase' = "read" => f'.pos = o + Len(Message(SubSeq(sent, 1, g))),
         phase' = "end" => Ended(f', n, sent, g)
  PROVE  Follows(o, n)'
<1>1. sent \in Seq(Written) /\ buf = Message(sent) /\ o + n <= Len(m) /\ Shows(m, o, Message(sent), n)
  BY DEF Given, Source
<1>2. Len(got') = g /\ got' = SubSeq(sent, 1, Len(got'))
  BY <1>1, FirstFields
<1>3. Len(got') \in 0 .. Len(sent)
  BY <1>2
<1>4. \A i \in 1 .. n : msg'[o+i] = buf'[i]
  BY <1>1 DEF Shows
<1>5. (o = 0 /\ n = Len(msg')) \/ (o > 0 /\ n = Len(buf'))
  BY DEF Given
<1>6. phase' = "read" => f'.pos = o + Len(Message(got'))
  OBVIOUS
<1>7. phase' = "end" =>
        IF Len(got') = Len(sent') THEN f'.eom
        ELSE /\ n < Len(Message(SubSeq(sent', 1, Len(got') + 1)))
             /\ f'.eom <=> n - Len(Message(got')) < VintLength(TagWord(sent'[Len(got')+1].type, sent'[Len(got')+1].tag))
  <2> HAVE phase' = "end"
  <2>1. Ended(f', n, sent, g)
    OBVIOUS
  <2> QED BY <2>1, <1>2, Zenon DEF Ended
<1> QED BY <1>1, <1>2, <1>3, <1>4, <1>5, <1>6, <1>7 DEF Follows

\* Where a reader is that has stopped.
LEMMA StopsIs ==
  ASSUME NEW r, NEW p \in Nat, NEW l \in Nat, NEW e, Stops(r, p, l, e)
  PROVE  r.pos + r.left = p + l /\ r.eom = e /\ r.ok = No
<1>1. PICK v, t, y : \E d \in 0 .. l : r = Rec(p + d, l - d, t, y, v, e, No)
  BY DEF Stops
<1>2. PICK d \in 0 .. l : r = Rec(p + d, l - d, t, y, v, e, No)
  BY <1>1
<1> DEFINE a == p + d
           b == l - d
<1>3. r = Rec(a, b, t, y, v, e, No) /\ a + b = p + l
  BY <1>2
<1> HIDE DEF a, b
<1> QED BY <1>3, RecIs

\* The reader r of this message is behind the fields that were got.
Behind(m, o, n, r, k, t, y, v, b) ==
  Given(m, o, n) /\ At(r, o, n, sent, k, t, y, v, b) /\ got = SubSeq(sent, 1, k)

LEMMA ReadStep ==
  ASSUME NEW m, NEW o, NEW n, NEW r, NEW k, NEW t, NEW y, NEW v, NEW b, Behind(m, o, n, r, k, t, y, v, b),
         NEW p, msg' = m, Reading(DecodeTag(m, r), p)
  PROVE  Follows(o, n)'
<1> DEFINE d == DecodeTag(m, r)
           c == Len(Message(SubSeq(sent, 1, k)))
           j == k + 1
           c1 == Len(Message(SubSeq(sent, 1, j)))
           a == o + c
           l == n - c
<1>1. /\ Given(m, o, n) /\ Source(m, o, n, sent) /\ At(r, o, n, sent, k, t, y, v, b) /\ got = SubSeq(sent, 1, k)
      /\ sent \in Seq(Written) /\ o \in Nat /\ n \in Nat /\ k \in 0 .. Len(sent) /\ c <= n
  BY DEF Behind, Given, Source, At
<1>2. c \in Nat /\ Len(sent) \in Nat
  BY <1>1, MessageLength, LenProperties
<1>3. a \in Nat /\ l \in Nat /\ a + l = o + n
  BY <1>1, <1>2
<1>4. /\ f' = d /\ buf' = buf /\ sent' = sent
      /\ phase' = (IF d.ok THEN "read" ELSE "end")
      /\ got' = (IF d.ok THEN Append(got, FieldOf(d)) ELSE got)
  BY DEF Reading
<1>5. CASE k = Len(sent)
  <2>1. Stops(d, a, l, Yes)
    BY <1>1, <1>5, OwnEnd
  <2> HIDE DEF d, a, l
  <2>2. d.pos + d.left = o + n /\ d.eom = Yes /\ d.ok = No
    BY <2>1, <1>3, StopsIs
  <2>3. phase' = "end" /\ got' = SubSeq(sent, 1, k)
    BY <2>2, <1>1, <1>4 DEF No
  <2>4. Ended(f', n, sent, k)
    BY <2>2, <1>4, <1>5 DEF Ended, Yes
  <2> QED BY <1>1, <1>4, <2>2, <2>3, <2>4, Followed
<1>6. CASE k < Len(sent) /\ n < c1
  <2> DEFINE h == VintLength(TagWord(sent[j].type, sent[j].tag))
  <2>1. \/ l < h /\ Stops(d, a, l, Yes)
        \/ ~(l < h) /\ Stops(d, a, l, No)
    BY <1>1, <1>6, OwnCut
  <2> HIDE DEF d, a, l, h
  <2>2. /\ d.pos + d.left = o + n /\ d.ok = No
        /\ \/ l < h /\ d.eom = Yes
           \/ ~(l < h) /\ d.eom = No
    BY <2>1, <1>3, StopsIs
  <2>3. phase' = "end" /\ got' = SubSeq(sent, 1, k)
    BY <2>2, <1>1, <1>4 DEF No
  <2>4. d.eom <=> l < h
    BY <2>2 DEF Yes, No
  <2>5. Ended(f', n, sent, k)
    BY <2>4, <1>4, <1>6 DEF Ended, h, l
  <2> QED BY <1>1, <1>4, <2>2, <2>3, <2>5, Followed
<1>7. CASE k < Len(sent) /\ c1 <= n
  <2> DEFINE x == sent[j]
             a1 == o + c1
             l1 == n - c1
  <2>1. d = Rec(a1, l1, x.tag, x.type, x.val, No, Yes)
    BY <1>1, <1>7, OwnNext
  <2>2. j \in 0 .. Len(sent) /\ j \in 1 .. Len(sent) /\ k = j - 1
    BY <1>1, <1>2, <1>7
  <2>3. c1 \in Nat
    <3> HIDE DEF j
    <3> QED BY <1>1, <2>2, MessageLength
  <2>4. a1 + l1 = o + n
    BY <1>1, <2>3
  <2> HIDE DEF d, a1, l1
  <2>5. d.pos = a1 /\ d.left = l1 /\ d.tag = x.tag /\ d.type = x.type /\ d.val = x.val /\ d.ok = Yes
    BY <2>1, RecIs
  <2>6. FieldOf(d) = x
    <3> HIDE DEF j
    <3>1. x \in Written
      BY <1>1, <2>2, WrittenAt
    <3> HIDE DEF x
    <3>2. x = [tag |-> x.tag, type |-> x.type, val |-> x.val]
      BY <3>1 DEF Written
    <3> QED BY <2>5, <3>2 DEF FieldOf
  <2>7. phase' = "read" /\ got' = Append(got, x)
    BY <2>5, <2>6, <1>4 DEF Yes
  <2>8. Append(SubSeq(sent, 1, k), x) = SubSeq(sent, 1, j)
    <3> DEFINE g == SubSeq(sent, 1, k)
               u == SubSeq(sent, 1, j)
               w == Append(g, x)
    <3> HIDE DEF j
    <3>1. g \in Seq(Written) /\ Len(g) = k /\ \A i \in 1 .. k : g[i] = sent[i]
      BY <1>1, Prefix
    <3>2. u \in Seq(Written) /\ Len(u) = j /\ \A i \in 1 .. j : u[i] = sent[i]
      BY <1>1, <2>2, Prefix
    <3>3. x \in Written
      BY <1>1, <2>2, WrittenAt
    <3>4. x = sent[j]
      OBVIOUS
    <3> HIDE DEF g, u, x
    <3>5. w \in Seq(Written) /\ Len(w) = k + 1 /\ w[k + 1] = x /\ \A i \in 1 .. k : w[i] = g[i]
      BY <3>1, <3>3, <1>1, AppendProperties
    <3> HIDE DEF w
    <3>6. k \in Nat /\ j = k + 1
      BY <1>1, <2>2
    <3>7. \A i \in 1 .. j : w[i] = u[i]
      BY <3>1, <3>2, <3>4, <3>5, <3>6
    <3>8. w = u
      BY <3>2, <3>5, <3>6, <3>7, SeqEqual
    <3> QED BY <3>8 DEF w, g, u, x
  <2>9. got' = SubSeq(sent, 1, j) /\ f'.pos + f'.left = o + n /\ f'.pos = o + c1
    BY <2>4, <2>5, <2>7, <2>8, <1>1, <1>4 DEF a1
  <2> HIDE DEF j
  <2>10. phase' # "end"
    BY <2>7
  <2> QED BY <1>1, <1>4, <2>2, <2>9, <2>10, Followed DEF c1
<1> QED
  <2>1. c1 \in Nat \/ ~(k < Len(sent))
    <3> SUFFICES ASSUME k < Len(sent) PROVE c1 \in Nat
      OBVIOUS
    <3>1. j \in 0 .. Len(sent)
      BY <1>1, <1>2
    <3> HIDE DEF j
    <3> QED BY <1>1, <3>1, MessageLength
  <2> HIDE DEF c1
  <2> QED BY <2>1, <1>1, <1>2, <1>5, <1>6, <1>7

-----------------------------------------------------------------------------
(***************************************************************************)
(* The inductive invariant.                                                *)
(***************************************************************************)
\* The invariant from what the actions establish.
LEMMA Whole ==
  ASSUME NEW m \in Seq(Bytes), msg' = m, buf' \in Seq(Bytes), Len(buf') <= Room, phase' \in {"write", "read", "end"},
         Reader(m, f'), sent' \in Seq(Written), starts' \in Seq(Nat), Rewritable', Writing', Origin'
  PROVE  IInv'
<1>1. /\ f'.pos \in Nat /\ f'.left \in Nat /\ f'.pos + f'.left <= Len(m)
      /\ f'.tag \in 0 .. Pow2[Int32] - 1 /\ f'.type \in 0 .. 7 /\ f'.ok \in BOOLEAN /\ f'.eom \in BOOLEAN
  BY Zenon DEF Reader
<1>2. TypeOK'
  BY <1>1 DEF TypeOK
<1>3. Bounded'
  BY <1>1, <1>2 DEF Bounded
<1> QED BY <1>3 DEF IInv

LEMMA Empty == <<>> \in Seq(Bytes) /\ Len(<<>>) = 0 /\ <<>> \in Seq(Written) /\ <<>> \in Seq(Nat)
OBVIOUS

LEMMA FreshIs ==
  ASSUME NEW m \in Seq(Bytes)
  PROVE  Fresh(m) = Rec(0, Len(m), 0, 0, 0, No, Yes) /\ Inside(m, 0, Len(m), 0, 0)
<1>1. 0 \in 0 .. Pow2[Int32] - 1
  <2>1. Pow2[Int32] \in Nat \ {0}
    BY Pow2Nat, Widths
  <2> QED BY <2>1
<1>2. Fresh(m) = Rec(0, Len(m), 0, 0, 0, No, Yes)
  BY Zenon DEF Fresh, Rec, Yes, No
<1> QED BY <1>1, <1>2, LenProperties DEF Inside

LEMMA InitIInv == Init => IInv
<1> SUFFICES ASSUME Init PROVE IInv
  OBVIOUS
<1>1. /\ phase = "write" /\ buf = <<>> /\ sent = <<>>
      /\ msg = <<>> /\ f = Fresh(<<>>) /\ got = <<>> /\ starts = <<>>
  BY DEF Init
<1>2. Reader(msg, f)
  <2> DEFINE m == <<>>
  <2>1. Fresh(m) = Rec(0, Len(m), 0, 0, 0, No, Yes) /\ Inside(m, 0, Len(m), 0, 0) /\ No \in {Yes, No} /\ Yes \in {Yes, No}
    BY Empty, FreshIs
  <2> DEFINE r == Fresh(m)
             l == Len(m)
  <2>2. r = Rec(0, l, 0, 0, 0, No, Yes) /\ Inside(m, 0, l, 0, 0)
    BY <2>1
  <2> HIDE DEF m, r, l
  <2>3. Reader(m, r)
    BY <2>1, <2>2, IsReader
  <2> QED BY <2>3, <1>1 DEF m, r
<1>3. /\ f.pos \in Nat /\ f.left \in Nat /\ f.pos + f.left <= Len(msg)
      /\ f.tag \in 0 .. Pow2[Int32] - 1 /\ f.type \in 0 .. 7 /\ f.ok \in BOOLEAN /\ f.eom \in BOOLEAN
  BY <1>2, Zenon DEF Reader
<1>4. buf \in Seq(Bytes) /\ msg \in Seq(Bytes) /\ Len(buf) = 0
  BY <1>1, Empty
<1>5. Bounded
  <2>1. Room \in Nat
    BY RoomIs
  <2> QED BY <1>1, <1>3, <1>4, <2>1 DEF Bounded, TypeOK
<1>6. Rewritable
  BY <1>1 DEF Rewritable
<1>7. Writing
  BY <1>1, MessageNone DEF Writing
<1>8. Origin
  BY <1>1 DEF Origin
<1> QED BY <1>1, <1>2, <1>5, <1>6, <1>7, <1>8, Empty DEF IInv

\* One more field is written, or the writer gives up.
LEMMA AddIInv ==
  ASSUME IInv, NEW cs, NEW x \in Written, Makes(Bytes, cs, Encode(x)), Add(cs, x)
  PROVE  IInv'
<1>1. /\ buf \in Seq(Bytes) /\ Len(buf) <= Room /\ sent \in Seq(Written) /\ starts \in Seq(Nat) /\ Reader(msg, f)
      /\ msg \in Seq(Bytes) /\ Writing
  BY DEF IInv, Bounded, TypeOK
<1>2. phase = "write" /\ buf' = Fitting(buf, cs) /\ msg' = msg /\ f' = f /\ got' = got /\ starts' = starts
  BY DEF Add
<1>3. buf = Message(sent) /\ msg = <<>> /\ f = Fresh(<<>>) /\ got = <<>> /\ starts = <<>>
  BY <1>1, <1>2 DEF Writing
<1> DEFINE e == Encode(x)
           c == Fitting(buf, cs)
<1>4. cs \in Seq(Seq(Bytes)) /\ FlattenSeq(cs) = e
  BY DEF Makes
<1>5. c \in Seq(Bytes) /\ Len(c) <= Room /\ (Len(buf) + Len(e) <= Room => c = buf \o e)
  BY <1>1, <1>4, FittingIs
<1> HIDE DEF c
<1>6. CASE Len(buf) + Len(e) <= Room
  <2>1. phase' = "write" /\ sent' = Append(sent, x)
    BY <1>2, <1>4, <1>6 DEF Add
  <2>2. sent' \in Seq(Written) /\ Message(sent') = buf \o e
    BY <2>1, <1>1, <1>3, MessageAdd
  <2>3. Writing'
    BY <1>2, <1>3, <1>5, <1>6, <2>2 DEF Writing, c
  <2>4. Rewritable' /\ Origin'
    BY <2>1 DEF Rewritable, Origin
  <2> QED BY <1>1, <1>2, <1>5, <2>1, <2>2, <2>3, <2>4, Whole DEF c
<1>7. CASE ~(Len(buf) + Len(e) <= Room)
  <2>1. phase' = "end" /\ sent' = sent
    BY <1>2, <1>4, <1>7 DEF Add
  <2>2. Writing' /\ Rewritable'
    BY <2>1 DEF Writing, Rewritable
  <2>3. Origin'
    BY <2>1, <1>2, <1>3 DEF Origin
  <2> QED BY <1>1, <1>2, <1>5, <2>1, <2>2, <2>3, Whole DEF c
<1> QED BY <1>6, <1>7

\* What the callers' operations write is a field, in pieces.
LEMMA ChunksMake ==
  ASSUME NEW x \in Written
  PROVE  Makes(Bytes, Chunks(x), Encode(x))
<1>1. Storable(x)
  BY WrittenStorable
<1>2. Chunks(x) \in Seq(Seq(Bytes))
  BY <1>1, ChunksIs
<1>3. FlattenSeq(Chunks(x)) = Encode(x)
  BY DEF Encode
<1> QED BY <1>2, <1>3 DEF Makes

LEMMA WriteIInv ==
  ASSUME IInv, NEW t \in Tags,
         \/ \E v \in Ints : knv_add_varint(t, v) \/ knv_add_fixed32(t, v) \/ knv_add_fixed64(t, v)
         \/ \E s \in Strs : knv_add_string(t, s) \/ knv_add_string_head(t, s)
  PROVE  IInv'
<1>1. Ints \subseteq 0 .. Pow2[Int64] - 1
  BY DataAssumption
<1>2. ASSUME NEW v \in Ints, knv_add_varint(t, v) PROVE IInv'
  <2> DEFINE x == [tag |-> t, type |-> PB_TYPE_VARINT, val |-> v]
  <2>1. x \in Written
    BY <1>1 DEF Written
  <2>2. Add(Chunks(x), x)
    BY <1>2, Zenon DEF knv_add_varint
  <2> HIDE DEF x
  <2> QED BY <2>1, <2>2, ChunksMake, AddIInv
<1>3. ASSUME NEW v \in Ints, knv_add_fixed32(t, v) PROVE IInv'
  <2> DEFINE w == v % Pow2[Int32]
             x == [tag |-> t, type |-> PB_TYPE_FIXED32, val |-> w]
  <2>1. w \in 0 .. Pow2[Int32] - 1
    <3> DEFINE b == Pow2[Int32]
    <3>1. b \in Nat \ {0} /\ v \in Nat
      BY <1>1, Pow2Nat, Widths
    <3> HIDE DEF b
    <3>2. v % b \in 0 .. b - 1
      BY <3>1, Division
    <3> QED BY <3>2 DEF b
  <2> HIDE DEF w
  <2>2. x \in Written
    BY <2>1 DEF Written
  <2>3. Add(Chunks(x), x)
    BY <1>3, Zenon DEF knv_add_fixed32, w
  <2> HIDE DEF x
  <2> QED BY <2>2, <2>3, ChunksMake, AddIInv
<1>4. ASSUME NEW v \in Ints, knv_add_fixed64(t, v) PROVE IInv'
  <2> DEFINE x == [tag |-> t, type |-> PB_TYPE_FIXED64, val |-> v]
  <2>1. x \in Written
    BY <1>1 DEF Written
  <2>2. Add(Chunks(x), x)
    BY <1>4, Zenon DEF knv_add_fixed64
  <2> HIDE DEF x
  <2> QED BY <2>1, <2>2, ChunksMake, AddIInv
<1>5. ASSUME NEW s \in Strs, knv_add_string(t, s) PROVE IInv'
  <2> DEFINE x == [tag |-> t, type |-> PB_TYPE_STRING, val |-> s]
  <2>1. x \in Written
    BY DEF Written
  <2>2. Add(Chunks(x), x)
    BY <1>5, Zenon DEF knv_add_string
  <2> HIDE DEF x
  <2> QED BY <2>1, <2>2, ChunksMake, AddIInv
<1>6. ASSUME NEW s \in Strs, knv_add_string_head(t, s) PROVE IInv'
  <2> DEFINE x == [tag |-> t, type |-> PB_TYPE_STRING, val |-> s]
             cs == SubSeq(Chunks(x), 1, 2) \o [i \in 1 .. Len(x.val) |-> <<x.val[i]>>]
  <2>1. x \in Written /\ x.type = PB_TYPE_STRING /\ x.val = s
    BY DEF Written
  <2>2. Add(SubSeq(Chunks(x), 1, 2) \o [i \in 1 .. Len(s) |-> <<s[i]>>], x)
    BY <1>6, Zenon DEF knv_add_string_head
  <2> HIDE DEF x
  <2>3. Add(cs, x)
    BY <2>1, <2>2
  <2>4. Makes(Bytes, cs, Encode(x))
    BY <2>1, WrittenStorable, HeadChunks
  <2> HIDE DEF cs
  <2> QED BY <2>1, <2>3, <2>4, AddIInv
<1> QED BY <1>2, <1>3, <1>4, <1>5, <1>6

LEMMA AgainIInv ==
  ASSUME IInv, NEW i \in DOMAIN sent, knv_add_field(sent[i])
  PROVE  IInv'
<1>1. sent \in Seq(Written) /\ i \in 1 .. Len(sent)
  BY LenProperties DEF IInv
<1> DEFINE x == sent[i]
<1>2. x \in Written
  BY <1>1, WrittenAt
<1>3. Add(Chunks(x), x)
  BY DEF knv_add_field
<1> HIDE DEF x
<1> QED BY <1>2, <1>3, ChunksMake, AddIInv

\* A call of a reader of the buffer.
LEMMA StartIInv ==
  ASSUME IInv, NEW m, NEW o, NEW n, NEW r, NEW k, NEW p, NEW l, NEW t, NEW y, NEW v, NEW b,
         Behind(m, o, n, r, k, t, y, v, b), r = Rec(p, l, t, y, v, No, b), Inside(m, p, l, t, y),
         msg' = m, Reading(DecodeTag(m, r), p)
  PROVE  IInv'
<1>1. buf \in Seq(Bytes) /\ Len(buf) <= Room /\ sent \in Seq(Written) /\ starts \in Seq(Nat)
  BY DEF IInv, Bounded, TypeOK
<1>2. m \in Seq(Bytes)
  BY DEF Inside
<1>3. phase' \in {"read", "end"} /\ Reader(m, f') /\ starts' \in Seq(Nat) /\ Rewritable'
  BY <1>1, ReadInside
<1>4. Follows(o, n)'
  BY ReadStep
<1>5. buf' = buf /\ sent' = sent
  BY DEF Reading
<1>6. o \in 0 .. Len(msg') /\ n \in 0 .. Len(buf')
  <2>1. /\ o \in Nat /\ n \in Nat /\ n <= Len(Message(sent)) /\ o + n <= Len(m) /\ buf = Message(sent)
    BY DEF Behind, Given, Source
  <2>2. Len(buf) \in Nat /\ Len(m) \in Nat
    BY <1>1, <1>2, LenProperties
  <2> QED BY <2>1, <2>2, <1>5
<1>7. Writing'
  BY <1>3 DEF Writing
<1>8. Origin'
  BY <1>4, <1>6 DEF Origin
<1> QED BY <1>1, <1>2, <1>3, <1>5, <1>7, <1>8, Whole

LEMMA BeginIInv ==
  ASSUME IInv, NEW n \in 0 .. Room, knv_begin(n)
  PROVE  IInv'
<1>1. buf \in Seq(Bytes) /\ sent \in Seq(Written) /\ Writing
  BY DEF IInv, Bounded, TypeOK
<1>2. phase = "write" /\ n <= Len(buf) /\ n \in Nat
  BY RoomIs DEF knv_begin
<1>3. buf = Message(sent) /\ got = <<>>
  BY <1>1, <1>2 DEF Writing
<1> DEFINE m == SubSeq(buf, 1, n)
           r == Fresh(m)
           z == 0
<1>4. msg' = m /\ Reading(DecodeTag(m, r), z)
  BY DEF knv_begin
<1>5. n \in 0 .. Len(buf) /\ z \in 0 .. Len(sent)
  BY <1>1, <1>2, LenProperties
<1>6. m \in Seq(Bytes) /\ Len(m) = n /\ \A i \in 1 .. n : m[i] = buf[i]
  BY <1>1, <1>5, Prefix
<1>7. Len(Message(SubSeq(sent, 1, z))) = 0 /\ SubSeq(sent, 1, z) = <<>>
  BY <1>1, NoFields
<1> HIDE DEF m
<1>8. r = Rec(z, n, z, z, z, No, Yes) /\ Inside(m, z, n, z, z)
  BY <1>6, FreshIs
<1> HIDE DEF r
<1>9. Source(m, z, n, sent)
  <2>1. \A i \in 1 .. n : m[z + i] = buf[i]
    BY <1>6
  <2>2. Shows(m, z, Message(sent), n)
    BY <2>1, <1>3 DEF Shows
  <2>3. z \in Nat /\ z + n <= Len(m) /\ n <= Len(Message(sent))
    BY <1>2, <1>3, <1>6
  <2> QED BY <2>2, <2>3, <1>1, <1>2, <1>6 DEF Source
<1>10. Given(m, z, n)
  BY <1>3, <1>6, <1>9 DEF Given
<1>11. At(r, z, n, sent, z, z, z, z, Yes)
  <2> DEFINE c == Len(Message(SubSeq(sent, 1, z)))
  <2>1. z + c = z /\ n - c = n /\ c <= n
    BY <1>2, <1>7
  <2> HIDE DEF c
  <2>2. r = Rec(z + c, n - c, z, z, z, No, Yes)
    BY <2>1, <1>8
  <2> QED BY <2>1, <2>2, <1>5 DEF At, c
<1>12. Behind(m, z, n, r, z, z, z, z, Yes)
  BY <1>3, <1>7, <1>10, <1>11 DEF Behind
<1> HIDE DEF z
<1> QED BY <1>4, <1>8, <1>12, StartIInv

\* No field has no bytes.
LEMMA NoBytes ==
  ASSUME NEW xs \in Seq(Written), Message(xs) = <<>>
  PROVE  xs = <<>>
<1> SUFFICES ASSUME xs # <<>> PROVE FALSE
  OBVIOUS
<1> DEFINE k == 1
           c == Len(Message(SubSeq(xs, 1, k - 1)))
           x == xs[k]
           e == Encode(x)
<1>1. k \in 1 .. Len(xs)
  BY LenProperties, EmptySeq
<1> HIDE DEF k
<1>2. c \in Nat /\ c + Len(e) <= Len(Message(xs))
  BY <1>1, MessageAt
<1>3. Storable(x)
  BY <1>1, WrittenAt
<1> HIDE DEF x
<1> DEFINE u == Used(TagWord(x.type, x.tag))
<1>4. u \in Nat \ {0} /\ ValueLength(x) \in Nat /\ Len(e) = u + ValueLength(x)
  BY <1>3, EncodeLength
<1>5. Len(Message(xs)) = 0
  BY Empty
<1> HIDE DEF c, e, u
<1> QED BY <1>2, <1>4, <1>5

LEMMA ForgedIInv ==
  ASSUME IInv, buf = <<>>, phase = "write", NEW m \in Forged, knv_begin_forged(m)
  PROVE  IInv'
<1>1. buf \in Seq(Bytes) /\ Len(buf) <= Room /\ sent \in Seq(Written) /\ starts \in Seq(Nat) /\ Writing
  BY DEF IInv, Bounded, TypeOK
<1>2. buf = Message(sent) /\ got = <<>>
  BY <1>1 DEF Writing
<1>3. m \in Seq(Bytes)
  BY DataAssumption
<1>4. sent = <<>>
  BY <1>1, <1>2, NoBytes
<1> DEFINE r == Fresh(m)
           z == 0
           l == Len(m)
<1>5. msg' = m /\ Reading(DecodeTag(m, r), z)
  BY DEF knv_begin_forged
<1>6. r = Rec(z, l, z, z, z, No, Yes) /\ Inside(m, z, l, z, z)
  BY <1>3, FreshIs
<1> HIDE DEF r, l
<1>7. CASE m = <<>>
  <2>1. m = SubSeq(buf, 1, 0)
    <3>1. SubSeq(sent, 1, 0) = <<>>
      BY <1>1, NoFields
    <3> QED BY <3>1, <1>4, <1>7
  <2> DEFINE n == 0
  <2>2. n \in 0 .. Room /\ n <= Len(buf)
    BY RoomIs, Empty
  <2>3. m = SubSeq(buf, 1, n)
    BY <2>1
  <2>4. knv_begin(n)
    BY <1>5, <2>2, <2>3 DEF knv_begin, r
  <2> HIDE DEF n
  <2> QED BY <2>2, <2>4, BeginIInv
<1>8. CASE m # <<>>
  <2> HIDE DEF z
  <2>1. phase' \in {"read", "end"} /\ Reader(m, f') /\ starts' \in Seq(Nat) /\ Rewritable'
    BY <1>1, <1>5, <1>6, ReadInside
  <2>2. buf' = buf /\ sent' = sent
    BY <1>5 DEF Reading
  <2>3. Writing'
    BY <2>1 DEF Writing
  <2>4. Origin'
    BY <2>1, <2>2, <1>4, <1>5, <1>8 DEF Origin
  <2> QED BY <2>1, <2>2, <2>3, <2>4, <1>1, <1>3, <1>5, Whole
<1> QED BY <1>7, <1>8

LEMMA NextFieldIInv ==
  ASSUME IInv, knv_next
  PROVE  IInv'
<1>1. /\ buf \in Seq(Bytes) /\ Len(buf) <= Room /\ msg \in Seq(Bytes) /\ sent \in Seq(Written) /\ starts \in Seq(Nat)
      /\ Reader(msg, f) /\ Rewritable /\ Origin
  BY DEF IInv, Bounded, TypeOK
<1>2. phase = "read" /\ msg' = msg /\ Reading(DecodeTag(msg, f), f.pos)
  BY DEF knv_next
<1>3. f.eom = No
  <2>1. f.eom \in BOOLEAN /\ ~f.eom
    BY <1>1, <1>2, Zenon DEF Rewritable, Reader
  <2> QED BY <2>1 DEF No
<1> DEFINE p == f.pos
           l == f.left
           t == f.tag
           y == f.type
           v == f.val
           b == f.ok
           m == msg
<1>4. f = Rec(p, l, t, y, v, No, b) /\ p \in Nat /\ l \in Nat /\ p + l <= Len(m) /\ Inside(m, p, l, t, y)
  BY <1>1, <1>3, ReaderIs DEF Inside
<1>5. CASE buf = <<>> /\ sent = <<>> /\ msg # <<>>
  <2>1. phase' \in {"read", "end"} /\ Reader(m, f') /\ starts' \in Seq(Nat) /\ Rewritable'
    BY <1>1, <1>2, <1>4, ReadInside
  <2>2. buf' = buf /\ sent' = sent
    BY <1>2 DEF Reading
  <2>3. Writing'
    BY <2>1 DEF Writing
  <2>4. Origin'
    BY <2>1, <2>2, <1>2, <1>5 DEF Origin
  <2> QED BY <2>1, <2>2, <2>3, <2>4, <1>1, <1>2, Whole
<1>6. ASSUME NEW o \in 0 .. Len(msg), NEW n \in 0 .. Len(buf), Follows(o, n) PROVE IInv'
  <2> DEFINE k == Len(got)
             c == Len(Message(SubSeq(sent, 1, k)))
  <2>1. /\ buf = Message(sent) /\ ((o = 0 /\ n = Len(m)) \/ (o > 0 /\ n = Len(buf)))
        /\ o + n <= Len(m) /\ p + l = o + n /\ \A i \in 1 .. n : m[o+i] = buf[i]
    BY <1>6 DEF Follows
  <2>2. k \in 0 .. Len(sent) /\ got = SubSeq(sent, 1, k) /\ p = o + Len(Message(got))
    BY <1>2, <1>6 DEF Follows
  <2>3. o \in Nat /\ n \in Nat /\ n <= Len(buf)
    BY <1>1, LenProperties
  <2> HIDE DEF k
  <2>4. c \in Nat /\ p = o + c
    BY <1>1, <2>2, MessageLength
  <2> HIDE DEF c, p, l, t, y, v, b, m
  <2>5. o + c = p /\ n - c = l /\ c <= n
    BY <2>1, <2>3, <2>4, <1>4
  <2>6. f = Rec(o + c, n - c, t, y, v, No, b)
    BY <2>5, <1>4
  <2>7. At(f, o, n, sent, k, t, y, v, b)
    BY <2>2, <2>5, <2>6 DEF At, c
  <2>8. Shows(m, o, Message(sent), n)
    BY <2>1 DEF Shows
  <2>9. Given(m, o, n)
    BY <2>1, <2>3, <2>8, <1>1 DEF Given, Source, m
  <2>10. Behind(m, o, n, f, k, t, y, v, b)
    BY <2>2, <2>7, <2>9 DEF Behind
  <2>11. msg' = m /\ Reading(DecodeTag(m, f), p)
    BY <1>2 DEF m, p
  <2> QED BY <2>10, <2>11, <1>4, StartIInv
<1> QED BY <1>1, <1>2, <1>5, <1>6 DEF Origin

\* A message behind its length, with other bytes behind it.
LEMMA Delimited ==
  ASSUME NEW xs \in Seq(Bytes), Len(xs) \in 0 .. Pow2[Int64] - 1, NEW n \in Nat, NEW m,
         m = VintBytes(Len(xs)) \o xs \o [i \in 1 .. n |-> Pow2[Payload]], NEW h, h = Used(Len(xs))
  PROVE  /\ m \in Seq(Bytes) /\ h \in Nat \ {0} /\ h + Len(xs) <= Len(m)
         /\ Shows(m, 0, VintBytes(Len(xs)), h) /\ Shows(m, h, xs, Len(xs))
<1> DEFINE u == VintBytes(Len(xs))
           a == u \o xs
           g == Pow2[Payload]
           z == [i \in 1 .. n |-> g]
           k == Len(xs)
<1>1. u \in Seq(Bytes) /\ Len(u) = h /\ h \in Nat \ {0} /\ k \in Nat
  BY VintBytesOK, UsedNat, LenProperties
<1>2. z \in Seq(Bytes)
  <2>1. g \in Nat /\ Bytes = 0 .. 2 * g - 1
    <3>1. Pow2[Payload] \in Nat /\ Bytes = 0 .. 2 * Pow2[Payload] - 1
      BY PayloadPowers DEF Bytes
    <3> QED BY <3>1
  <2>2. g > 0
    BY PayloadPowers
  <2>3. g \in Bytes
    <3> HIDE DEF g
    <3> QED BY <2>1, <2>2
  <2> HIDE DEF g
  <2> QED BY <2>3
<1>3. m = a \o z
  OBVIOUS
<1> HIDE DEF u, z
<1>4. a \in Seq(Bytes) /\ Len(a) = h + k /\ (\A i \in 1 .. h : a[i] = u[i]) /\ \A i \in 1 .. k : a[h + i] = xs[i]
  BY <1>1, JoinedAt
<1> HIDE DEF a, k
<1>5. m \in Seq(Bytes) /\ Len(m) = Len(a) + Len(z) /\ (\A i \in 1 .. Len(a) : m[i] = a[i]) /\ Len(z) \in Nat
  <2> DEFINE w == a \o z
  <2>1. w \in Seq(Bytes) /\ Len(w) = Len(a) + Len(z) /\ (\A i \in 1 .. Len(a) : w[i] = a[i]) /\ Len(z) \in Nat
    BY <1>2, <1>4, JoinedAt, LenProperties
  <2>2. m = w
    BY <1>3
  <2> HIDE DEF w
  <2> QED BY <2>1, <2>2
<1>6. ASSUME NEW i \in 1 .. h PROVE m[0 + i] = u[i]
  <2>1. i \in 1 .. Len(a) /\ 0 + i = i
    BY <1>1, <1>4
  <2> QED BY <2>1, <1>4, <1>5
<1>7. ASSUME NEW i \in 1 .. k PROVE m[h + i] = xs[i]
  <2>1. h + i \in 1 .. Len(a)
    BY <1>1, <1>4
  <2> QED BY <2>1, <1>4, <1>5
<1>8. Shows(m, 0, u, h) /\ Shows(m, h, xs, k)
  BY <1>6, <1>7 DEF Shows
<1>9. h + k <= Len(m)
  BY <1>1, <1>4, <1>5
<1> QED BY <1>1, <1>5, <1>8, <1>9 DEF u, k

LEMMA DelimitedIInv ==
  ASSUME IInv, NEW e \in 0 .. 1, knv_begin_delimited(e)
  PROVE  IInv'
<1>1. buf \in Seq(Bytes) /\ Len(buf) <= Room /\ sent \in Seq(Written) /\ Writing
  BY DEF IInv, Bounded, TypeOK
<1>2. phase = "write"
  BY DEF knv_begin_delimited
<1>3. buf = Message(sent) /\ got = <<>>
  BY <1>1, <1>2 DEF Writing
<1> DEFINE n == Len(buf)
           m == VintBytes(n) \o buf \o [i \in 1 .. e |-> Pow2[Payload]]
           s == DecodeVarint(m, Fresh(m))
           h == Used(n)
           l == Len(m)
           z == 0
<1>4. /\ msg' = m
      /\ IF s.val > s.left THEN Reading(Failed(s), 0)
         ELSE Reading(DecodeTag(m, [s EXCEPT !.left = s.val]), s.pos)
  BY Zenon DEF knv_begin_delimited
<1>5. n \in Nat /\ n \in 0 .. Pow2[Int64] - 1
  <2>1. Room \in Nat /\ Room < Pow2[Int64] /\ Pow2[Int64] \in Nat
    BY RoomIs, Pow2Nat, Widths
  <2>2. n \in Nat /\ n <= Room
    BY <1>1, LenProperties
  <2> HIDE DEF n
  <2> DEFINE b == Pow2[Int64]
  <2>3. b \in Nat /\ Room < b
    BY <2>1
  <2> HIDE DEF b
  <2>4. n \in 0 .. b - 1
    BY <2>1, <2>2, <2>3
  <2> QED BY <2>2, <2>4 DEF b
<1>6. m \in Seq(Bytes) /\ h \in Nat \ {0} /\ h + n <= l /\ Shows(m, z, VintBytes(n), h) /\ Shows(m, h, buf, n)
  <2>1. e \in Nat
    OBVIOUS
  <2> QED BY <2>1, <1>1, <1>5, Delimited
<1> HIDE DEF m
<1>7. Fresh(m) = Rec(z, l, z, z, z, No, Yes) /\ Inside(m, z, l, z, z) /\ l \in Nat /\ z + l <= Len(m)
  BY <1>6, FreshIs, LenProperties
<1> DEFINE r0 == Fresh(m)
           a == l - h
           r == [s EXCEPT !.left = s.val]
<1>8. s = Rec(h, a, z, z, n, No, Yes)
  <2> HIDE DEF n, h, l
  <2>1. h <= l /\ z + h = h
    BY <1>5, <1>6, <1>7
  <2>2. r0 = Rec(z, l, z, z, z, No, Yes) /\ z \in Nat /\ h \in Nat
    BY <1>6, <1>7
  <2> HIDE DEF r0, z
  <2>3. Before(m, r0, z, l, z, z, z, Yes, VintBytes(n), h)
    BY <2>1, <2>2, <1>6, <1>7 DEF Before
  <2>4. DecodeVarint(m, r0) = Rec(z + h, l - h, z, z, n, No, Yes)
    BY <2>3, <1>5, VintThere DEF h
  <2>5. DecodeVarint(m, r0) = Rec(h, l - h, z, z, n, No, Yes)
    BY <2>1, <2>4
  <2> QED BY <2>5 DEF r0
<1> HIDE DEF s
<1>9. s.val = n /\ s.left = a /\ s.pos = h
  BY <1>8, RecIs
<1>10. ~(s.val > s.left)
  <2> HIDE DEF n, h, l
  <2> QED BY <1>5, <1>6, <1>7, <1>9
<1>11. r = Rec(h, n, z, z, n, No, Yes)
  <2>1. r = [s EXCEPT !.left = n]
    BY <1>9
  <2> HIDE DEF n, h, a, r
  <2> QED BY <2>1, <1>8 DEF Rec
<1>12. Reading(DecodeTag(m, r), h)
  BY <1>4, <1>9, <1>10
<1> HIDE DEF r
<1>13. Len(Message(SubSeq(sent, 1, z))) = 0 /\ SubSeq(sent, 1, z) = <<>> /\ z \in 0 .. Len(sent)
  BY <1>1, NoFields, LenProperties
<1>14. z \in 0 .. Pow2[Int32] - 1 /\ z \in 0 .. 7
  BY <1>7 DEF Inside
<1> HIDE DEF h, l
<1>15. Inside(m, h, n, z, z)
  BY <1>5, <1>6, <1>14 DEF Inside, l
<1>16. Source(m, h, n, sent)
  <2>1. n = Len(Message(sent)) /\ n <= n
    BY <1>3, <1>5
  <2>2. n <= Len(Message(sent)) /\ Shows(m, h, Message(sent), n)
    BY <2>1, <1>3, <1>6
  <2> HIDE DEF n
  <2> QED BY <2>2, <1>1, <1>5, <1>6 DEF Source, l
<1>17. Given(m, h, n)
  <2>1. h > 0
    BY <1>6
  <2> QED BY <2>1, <1>3, <1>16 DEF Given
<1> HIDE DEF n
<1>18. At(r, h, n, sent, z, z, z, n, Yes)
  <2> DEFINE c == Len(Message(SubSeq(sent, 1, z)))
  <2>1. h + c = h /\ n - c = n /\ c <= n
    BY <1>5, <1>6, <1>13
  <2> HIDE DEF c
  <2>2. r = Rec(h + c, n - c, z, z, n, No, Yes)
    BY <2>1, <1>11
  <2> QED BY <2>1, <2>2, <1>13 DEF At, c
<1>19. Behind(m, h, n, r, z, z, z, n, Yes)
  BY <1>3, <1>13, <1>17, <1>18 DEF Behind
<1> HIDE DEF z
<1> QED BY <1>4, <1>11, <1>12, <1>15, <1>19, StartIInv

LEMMA NextIInv == IInv /\ [Next]_vars => IInv'
<1> SUFFICES ASSUME IInv, [Next]_vars PROVE IInv'
  OBVIOUS
<1>1. ASSUME NEW t \in Tags, NEW v \in Ints, knv_add_varint(t, v) \/ knv_add_fixed32(t, v) \/ knv_add_fixed64(t, v)
      PROVE  IInv'
  BY <1>1, WriteIInv
<1>2. ASSUME NEW t \in Tags, NEW s \in Strs, knv_add_string(t, s) \/ knv_add_string_head(t, s) PROVE IInv'
  BY <1>2, WriteIInv
<1>3. ASSUME NEW i \in DOMAIN sent, knv_add_field(sent[i]) PROVE IInv'
  BY <1>3, AgainIInv
<1>4. ASSUME NEW n \in 0 .. Room, knv_begin(n) PROVE IInv'
  BY <1>4, BeginIInv
<1>5. ASSUME NEW n \in 0 .. 1, knv_begin_delimited(n) PROVE IInv'
  BY <1>5, DelimitedIInv
<1>6. ASSUME buf = <<>>, phase = "write", NEW m \in Forged, knv_begin_forged(m) PROVE IInv'
  BY <1>6, ForgedIInv
<1>7. CASE knv_next
  BY <1>7, NextFieldIInv
<1>8. CASE UNCHANGED vars
  <2>1. Bounded' /\ Reader(msg, f)' /\ Rewritable' /\ Writing'
    BY <1>8 DEF IInv, vars, Bounded, TypeOK, Rewritable, Writing
  <2>2. Origin'
    <3>1. ASSUME NEW o, NEW n, Follows(o, n) PROVE Follows(o, n)'
      BY <1>8, <3>1 DEF vars, Follows
    <3>2. phase' = phase /\ msg' = msg /\ buf' = buf /\ got' = got /\ sent' = sent /\ Origin
      BY <1>8 DEF vars, IInv
    <3> QED BY <3>1, <3>2 DEF Origin
  <2>3. sent' \in Seq(Written) /\ starts' \in Seq(Nat)
    BY <1>8 DEF IInv, vars
  <2> QED BY <2>1, <2>2, <2>3 DEF IInv
<1> QED BY <1>1, <1>2, <1>3, <1>4, <1>5, <1>6, <1>7, <1>8 DEF Next

\* Whatever is written and whatever arrives, the fields that were read are the
\* first ones that were written, and each can be written in the bytes it took.
THEOREM Invariance == Spec => []IInv
BY InitIInv, NextIInv, PTL DEF Spec

\* pb_add never writes beyond the buffer, and pb_decode_varint, pb_get and
\* pb_decode_string never read beyond the message, whatever lengths it announces.
THEOREM InBounds == Spec => []Bounded
<1>1. IInv => Bounded
  BY DEF IInv
<1> QED BY <1>1, Invariance, PTL

-----------------------------------------------------------------------------
(***************************************************************************)
(* What the callers rely on.                                               *)
(***************************************************************************)
LEMMA IInvRewrite == IInv => Rewrite
<1> DEFINE x == FieldOf(f)
           e == Encode(x)
           q == Fresh(e)
           r == DecodeTag(e, q)
           c == Len(e)
<1> SUFFICES ASSUME IInv, phase = "read", x.tag \in 1 .. Pow2[Int32 - 3] - 1
             PROVE  /\ r.ok /\ FieldOf(r) = x /\ r.left = 0
                    /\ c <= f.pos - starts[Len(starts)]
                    /\ c = EvalLength(x)
  BY Zenon DEF Rewrite
<1>1. Storable(x) /\ c <= f.pos - starts[Len(starts)]
  <2>1. f.tag \in 1 .. Pow2[Int32 - 3] - 1
    BY DEF FieldOf
  <2> QED BY <2>1 DEF IInv, Rewritable
<1>2. x = [tag |-> x.tag, type |-> x.type, val |-> x.val]
  BY DEF FieldOf
<1> HIDE DEF x
<1>3. e \in Seq(Bytes) /\ c = EvalLength(x)
  BY <1>1, EncodeLength
<1> DEFINE z == 0
<1>4. q = Rec(z, c, z, z, z, No, Yes) /\ Inside(e, z, c, z, z) /\ c \in Nat /\ c <= c
  <2>1. Fresh(e) = Rec(0, Len(e), 0, 0, 0, No, Yes) /\ Inside(e, 0, Len(e), 0, 0)
    BY <1>3, FreshIs
  <2>2. c \in Nat
    BY <1>3, LenProperties
  <2> HIDE DEF e
  <2> QED BY <2>1, <2>2
<1>5. Before(e, q, z, c, z, z, z, Yes, e, c)
  <2>1. \A i \in 1 .. c : e[z + i] = e[i]
    OBVIOUS
  <2>2. Shows(e, z, e, c)
    BY <2>1 DEF Shows
  <2> HIDE DEF e, q, c, z
  <2> QED BY <2>2, <1>3, <1>4 DEF Before, Inside
<1>6. z + c = c /\ c - c = z
  BY <1>4
<1> HIDE DEF q
<1>7. r = Rec(z + c, c - c, x.tag, x.type, x.val, No, Yes)
  <2> HIDE DEF z
  <2> QED BY <1>1, <1>5, FieldRead
<1>8. r = Rec(c, z, x.tag, x.type, x.val, No, Yes)
  BY <1>6, <1>7
<1> HIDE DEF r, z
<1>9. r.left = z /\ r.tag = x.tag /\ r.type = x.type /\ r.val = x.val /\ r.ok = Yes
  BY <1>8, RecIs
<1>10. FieldOf(r) = x
  BY <1>2, <1>9 DEF FieldOf
<1>11. r.ok
  BY <1>9 DEF Yes
<1> QED BY <1>1, <1>3, <1>9, <1>10, <1>11 DEF z

\* A prefix of the fields is not longer than all of them.
LEMMA NotLonger ==
  ASSUME NEW xs \in Seq(Written), NEW k \in 1 .. Len(xs)
  PROVE  Len(Message(SubSeq(xs, 1, k))) <= Len(Message(xs))
BY MessageAt

\* Where the reader of a buffer is when it stops.
LEMMA FollowsEnd ==
  ASSUME IInv, NEW o \in 0 .. Len(msg), NEW n \in 0 .. Len(buf), Follows(o, n), phase = "end"
  PROVE  /\ buf = Message(sent) /\ Len(got) \in 0 .. Len(sent) /\ got = SubSeq(sent, 1, Len(got))
         /\ Len(got) = Len(sent) => f.eom
         /\ Len(got) # Len(sent) =>
              /\ n = Len(msg) /\ n < Len(Message(SubSeq(sent, 1, Len(got) + 1))) /\ n < Len(Message(sent))
              /\ f.eom <=> n - Len(Message(got)) < VintLength(TagWord(sent[Len(got)+1].type, sent[Len(got)+1].tag))
<1> DEFINE k == Len(got)
           j == k + 1
           c == Len(Message(SubSeq(sent, 1, j)))
<1>1. buf \in Seq(Bytes) /\ msg \in Seq(Bytes) /\ sent \in Seq(Written)
  BY DEF IInv, Bounded, TypeOK
<1>2. /\ buf = Message(sent) /\ k \in 0 .. Len(sent) /\ got = SubSeq(sent, 1, k)
      /\ (o = 0 /\ n = Len(msg)) \/ (o > 0 /\ n = Len(buf))
      /\ IF k = Len(sent) THEN f.eom
         ELSE /\ n < c
              /\ f.eom <=> n - Len(Message(got)) < VintLength(TagWord(sent[j].type, sent[j].tag))
  BY Zenon DEF Follows
<1>3. ASSUME k # Len(sent) PROVE n < Len(buf)
  <2>1. j \in 1 .. Len(sent)
    BY <1>1, <1>2, <1>3, LenProperties
  <2> HIDE DEF j
  <2>2. c <= Len(buf) /\ c \in Nat
    BY <1>1, <1>2, <2>1, NotLonger, MessageAt
  <2>3. n < c /\ n \in Nat /\ Len(buf) \in Nat
    BY <1>1, <1>2, <1>3, LenProperties DEF j
  <2> HIDE DEF c
  <2> QED BY <2>2, <2>3
<1>4. ASSUME k # Len(sent) PROVE n = Len(msg)
  <2>1. n # Len(buf)
    BY <1>1, <1>3, <1>4, LenProperties
  <2> QED BY <1>2, <2>1
<1> HIDE DEF k, c
<1> QED BY <1>2, <1>3, <1>4 DEF k, c

LEMMA IInvRoundTrip == IInv => RoundTrip
<1> SUFFICES ASSUME IInv, phase = "end", sent # <<>>, Len(msg) >= Length(sent)
             PROVE  got = sent /\ f.eom
  BY DEF RoundTrip
<1>1. buf \in Seq(Bytes) /\ msg \in Seq(Bytes) /\ sent \in Seq(Written) /\ Origin
  BY DEF IInv, Bounded, TypeOK
<1>2. Length(sent) = Len(Message(sent)) /\ Message(sent) \in Seq(Bytes)
  BY <1>1, LengthIs, MessageType
<1>3. Len(Message(sent)) # 0 /\ Len(Message(sent)) \in Nat
  <2>1. Message(sent) # <<>>
    BY <1>1, NoBytes
  <2> DEFINE b == Message(sent)
  <2> HIDE DEF b
  <2>2. b \in Seq(Bytes) /\ b # <<>>
    BY <1>2, <2>1 DEF b
  <2>3. Len(b) \in Nat \ {0}
    BY <2>2, EmptySeq
  <2> QED BY <2>3 DEF b
<1>4. msg # <<>>
  <2>1. Len(msg) # 0
    BY <1>1, <1>2, <1>3, LenProperties
  <2> QED BY <2>1
<1>5. PICK o \in 0 .. Len(msg), n \in 0 .. Len(buf) : Follows(o, n)
  BY <1>1, <1>4 DEF Origin
<1>6. Len(got) = Len(sent)
  <2> SUFFICES ASSUME Len(got) # Len(sent) PROVE FALSE
    OBVIOUS
  <2>1. n = Len(msg) /\ n < Len(Message(sent))
    BY <1>5, FollowsEnd
  <2> DEFINE a == Len(msg)
             c == Len(Message(sent))
  <2>2. a \in Nat /\ c \in Nat /\ a >= c /\ a < c
    BY <1>1, <1>2, <1>3, <2>1, LenProperties
  <2> HIDE DEF a, c
  <2> QED BY <2>2
<1>7. f.eom /\ got = SubSeq(sent, 1, Len(sent))
  BY <1>5, <1>6, FollowsEnd
<1> QED BY <1>1, <1>7, WholeMessage

LEMMA IInvTruncation == IInv => Truncation
<1> SUFFICES ASSUME IInv, IsPrefix(msg, buf)
             PROVE  /\ IsPrefix(got, sent)
                    /\ phase = "end" /\ msg # <<>> /\ Len(got) < Len(sent) =>
                         /\ Length(SubSeq(sent, 1, Len(got) + 1)) > Len(msg)
                         /\ f.eom <=> Len(msg) - Length(got) < VintLength(TagWord(sent[Len(got)+1].type, sent[Len(got)+1].tag))
  BY DEF Truncation
<1>1. buf \in Seq(Bytes) /\ msg \in Seq(Bytes) /\ sent \in Seq(Written) /\ Writing /\ Origin /\ phase \in {"write", "read", "end"}
  BY DEF IInv, Bounded, TypeOK
<1>2. ASSUME got = <<>> PROVE IsPrefix(got, sent)
  <2>1. Len(got) = 0 /\ 0 <= Len(sent) /\ got \in Seq(Written)
    BY <1>1, <1>2, Empty, LenProperties
  <2>2. SubSeq(got, 1, 0) = <<>> /\ SubSeq(sent, 1, 0) = <<>>
    BY <1>1, <2>1, NoFields
  <2>3. SubSeq(got, 1, Len(got)) = SubSeq(sent, 1, Len(got))
    BY <2>1, <2>2
  <2> QED BY <2>1, <2>3 DEF IsPrefix
<1>3. CASE phase = "write"
  BY <1>1, <1>2, <1>3 DEF Writing
<1>4. CASE phase = "end" /\ msg = <<>> /\ got = <<>>
  BY <1>2, <1>4
<1>5. ~(buf = <<>> /\ msg # <<>>)
  <2> SUFFICES ASSUME buf = <<>>, msg # <<>> PROVE FALSE
    OBVIOUS
  <2>1. Len(buf) = 0 /\ Len(msg) \in Nat \ {0}
    BY <1>1, EmptySeq
  <2>2. Len(msg) <= Len(buf)
    BY DEF IsPrefix
  <2> QED BY <2>1, <2>2
<1>6. ASSUME NEW o \in 0 .. Len(msg), NEW n \in 0 .. Len(buf), Follows(o, n)
      PROVE  IsPrefix(got, sent)
  <2> DEFINE k == Len(got)
  <2>1. k \in 0 .. Len(sent) /\ got = SubSeq(sent, 1, k)
    BY <1>6 DEF Follows
  <2>2. k <= Len(sent)
    BY <1>1, <2>1, LenProperties
  <2>3. got \in Seq(Written)
    <3> HIDE DEF k
    <3> QED BY <1>1, <2>1, FirstFields
  <2>4. SubSeq(got, 1, k) = SubSeq(sent, 1, k)
    BY <2>1, <2>3, WholeMessage
  <2> QED BY <2>2, <2>4 DEF IsPrefix
<1>7. ASSUME NEW o \in 0 .. Len(msg), NEW n \in 0 .. Len(buf), Follows(o, n),
             phase = "end", Len(got) < Len(sent)
      PROVE  /\ Length(SubSeq(sent, 1, Len(got) + 1)) > Len(msg)
             /\ f.eom <=> Len(msg) - Length(got) < VintLength(TagWord(sent[Len(got)+1].type, sent[Len(got)+1].tag))
  <2> DEFINE k == Len(got)
             j == k + 1
             g == SubSeq(sent, 1, j)
             h == VintLength(TagWord(sent[j].type, sent[j].tag))
  <2>1. k \in 0 .. Len(sent) /\ got = SubSeq(sent, 1, k) /\ Len(sent) \in Nat
    BY <1>1, <1>7, FollowsEnd, LenProperties
  <2>2. k # Len(sent) /\ j \in 0 .. Len(sent)
    BY <1>7, <2>1
  <2>3. n = Len(msg) /\ n < Len(Message(g)) /\ (f.eom <=> n - Len(Message(got)) < h)
    BY <1>7, <2>2, FollowsEnd
  <2>4. got \in Seq(Written) /\ g \in Seq(Written)
    <3> HIDE DEF k, j
    <3> QED BY <1>1, <2>1, <2>2, FirstFields
  <2> HIDE DEF k, j, g, h
  <2>5. Length(got) = Len(Message(got)) /\ Length(g) = Len(Message(g))
    BY <2>4, LengthIs
  <2>6. Length(g) > Len(msg) /\ (f.eom <=> Len(msg) - Length(got) < h)
    BY <2>3, <2>5
  <2> QED BY <2>6 DEF g, h, j, k
<1>8. CASE phase # "write" /\ \E o \in 0 .. Len(msg), n \in 0 .. Len(buf) : Follows(o, n)
  BY <1>6, <1>7, <1>8
<1> QED BY <1>1, <1>3, <1>4, <1>5, <1>8 DEF Origin

\* A field that was read of any message is written in the bytes it took, or in
\* fewer, and read the same way again: pb_add_field_val undoes pb_decode_tag, and
\* pb_eval_field_length tells its length.
THEOREM Rewrites == Spec => []Rewrite
BY IInvRewrite, Invariance, PTL

\* The message that was written is the message that is read, field by field, with
\* knv_begin, knv_begin_delimited and knv_next, and its end is recognised.
THEOREM RoundTrips == Spec => []RoundTrip
BY IInvRoundTrip, Invariance, PTL

\* Of a message that was cut off, knv_begin and knv_next return the complete fields
\* and then fail; pb_decode_tag takes the cut for the end of the message only when
\* it is in a tag or between two fields.
THEOREM Truncates == Spec => []Truncation
BY IInvTruncation, Invariance, PTL
=============================================================================
