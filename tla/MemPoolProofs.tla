--------------------------- MODULE MemPoolProofs ---------------------------
(***************************************************************************)
(* get_magic finds the right class, the accounting of mem_pool.cc is exact *)
(* and the memory of a class is bounded by the highest limit it has had,   *)
(* for every table of classes, every limit and every sequence of calls and *)
(* failures.                                                               *)
(***************************************************************************)
EXTENDS MemPool, MagicSearch, SumsProofs, FiniteSetTheorems, TLAPS

-----------------------------------------------------------------------------
(***************************************************************************)
(* Counting the elements with memory.                                      *)
(***************************************************************************)

\* The elements with memory are finitely many, at most all of them, and one
\* less if the one at the bottom has none.
LEMMA CountBound ==
  ASSUME NEW s \in Seq(BOOLEAN)
  PROVE  /\ IsFiniteSet(WithMem(s)) /\ Count(s) \in Nat
         /\ Count(s) <= Len(s)
         /\ s # <<>> /\ ~s[1] => Count(s) <= Len(s) - 1
<1>1. Len(s) \in Nat /\ DOMAIN s = 1 .. Len(s)
  OBVIOUS
<1>2. IsFiniteSet(1 .. Len(s)) /\ Cardinality(1 .. Len(s)) = Len(s)
  BY <1>1, FS_Interval
<1>3. WithMem(s) \subseteq 1 .. Len(s)
  BY <1>1 DEF WithMem
<1>4. IsFiniteSet(WithMem(s)) /\ Count(s) \in Nat /\ Count(s) <= Len(s)
  BY <1>2, <1>3, FS_Subset, FS_CardinalityType DEF Count
<1>5. ASSUME s # <<>>, ~s[1] PROVE Count(s) <= Len(s) - 1
  <2>1. IsFiniteSet((1 .. Len(s)) \ {1}) /\ Cardinality((1 .. Len(s)) \ {1}) = Len(s) - 1
    <3>1. 1 \in 1 .. Len(s)
      BY <1>5
    <3> QED BY <1>2, <3>1, FS_RemoveElement
  <2>2. WithMem(s) \subseteq (1 .. Len(s)) \ {1}
    BY <1>3, <1>5 DEF WithMem
  <2> QED BY <2>1, <2>2, FS_Subset DEF Count
<1> QED BY <1>4, <1>5

\* An element put on top counts if it has memory.
LEMMA CountAppend ==
  ASSUME NEW s \in Seq(BOOLEAN), NEW b \in BOOLEAN
  PROVE  /\ Append(s, b) \in Seq(BOOLEAN) /\ Len(Append(s, b)) = Len(s) + 1
         /\ Count(Append(s, b)) = IF b THEN Count(s) + 1 ELSE Count(s)
         /\ Append(s, b) # <<>>
         /\ s # <<>> => Append(s, b)[1] = s[1]
         /\ s = <<>> => Append(s, b)[1] = b
<1> DEFINE r == Append(s, b)
           k == Len(s) + 1
<1>1. /\ Len(s) \in Nat /\ r \in Seq(BOOLEAN) /\ Len(r) = k
      /\ DOMAIN s = 1 .. Len(s) /\ DOMAIN r = 1 .. k
      /\ r[k] = b /\ \A j \in 1 .. Len(s) : r[j] = s[j]
  OBVIOUS
<1>2. k \notin WithMem(s)
  BY <1>1 DEF WithMem
<1>3. WithMem(r) = IF b THEN WithMem(s) \union {k} ELSE WithMem(s)
  <2>1. \A j : j \in DOMAIN r <=> j \in DOMAIN s \/ j = k
    BY <1>1
  <2> HIDE DEF r, k
  <2> QED BY <1>1, <2>1 DEF WithMem
<1>4. IsFiniteSet(WithMem(s))
  BY CountBound
<1>5. Count(r) = IF b THEN Count(s) + 1 ELSE Count(s)
  <2>1. Cardinality(WithMem(s) \union {k}) = Cardinality(WithMem(s)) + 1
    BY <1>2, <1>4, FS_AddElement
  <2> HIDE DEF r, k
  <2> QED BY <1>3, <2>1 DEF Count
<1>6. r # <<>> /\ (s # <<>> => r[1] = s[1]) /\ (s = <<>> => r[1] = b)
  BY <1>1
<1> QED BY <1>1, <1>5, <1>6 DEF r

\* The two cases of it.
LEMMA CountPush ==
  ASSUME NEW s \in Seq(BOOLEAN)
  PROVE  /\ Count(Append(s, TRUE)) = Count(s) + 1
         /\ Count(Append(s, FALSE)) = Count(s)
         /\ Append(s, FALSE)[1] = IF s = <<>> THEN FALSE ELSE s[1]
         /\ s # <<>> => Append(s, TRUE)[1] = s[1]
         /\ \A b \in BOOLEAN : Append(s, b) \in Seq(BOOLEAN) /\ Len(Append(s, b)) = Len(s) + 1 /\ Append(s, b) # <<>>
<1>1. TRUE \in BOOLEAN /\ FALSE \in BOOLEAN
  OBVIOUS
<1>2. Count(Append(s, TRUE)) = IF TRUE THEN Count(s) + 1 ELSE Count(s)
  BY <1>1, CountAppend
<1>3. Count(Append(s, FALSE)) = IF FALSE THEN Count(s) + 1 ELSE Count(s)
  BY <1>1, CountAppend
<1>4. Append(s, FALSE)[1] = IF s = <<>> THEN FALSE ELSE s[1]
  BY <1>1, CountAppend
<1>5. s # <<>> => Append(s, TRUE)[1] = s[1]
  BY <1>1, CountAppend
<1> QED BY <1>2, <1>3, <1>4, <1>5, CountAppend

\* A free list is what is below its top, and the top.
Rest(s) == SubSeq(s, 1, Len(s) - 1)

LEMMA TopAndRest ==
  ASSUME NEW s \in Seq(BOOLEAN), s # <<>>
  PROVE  /\ Rest(s) \in Seq(BOOLEAN) /\ Len(Rest(s)) = Len(s) - 1 /\ Len(s) \in Nat \ {0}
         /\ s[Len(s)] \in BOOLEAN /\ s = Append(Rest(s), s[Len(s)])
         /\ Count(s) = IF s[Len(s)] THEN Count(Rest(s)) + 1 ELSE Count(Rest(s))
         /\ Rest(s) # <<>> => Rest(s)[1] = s[1]
         /\ Rest(s) = <<>> => Len(s) = 1
<1>1. Len(s) \in Nat \ {0} /\ s[Len(s)] \in BOOLEAN /\ DOMAIN s = 1 .. Len(s)
  OBVIOUS
<1>2. Rest(s) = [j \in 1 .. Len(s) - 1 |-> s[j]]
  BY <1>1 DEF Rest
<1>3. Rest(s) \in Seq(BOOLEAN) /\ Len(Rest(s)) = Len(s) - 1
  BY <1>1 DEF Rest
<1>4. s = Append(Rest(s), s[Len(s)])
  BY <1>1, <1>2, <1>3
<1>5. Count(s) = IF s[Len(s)] THEN Count(Rest(s)) + 1 ELSE Count(Rest(s))
  <2> DEFINE b == s[Len(s)]
  <2>1. Count(Append(Rest(s), b)) = IF b THEN Count(Rest(s)) + 1 ELSE Count(Rest(s))
    <3> HIDE DEF b
    <3>1. b \in BOOLEAN
      BY <1>1 DEF b
    <3> QED BY <3>1, <1>3, CountAppend
  <2> QED BY <1>4, <2>1
<1>6. Rest(s) # <<>> => Rest(s)[1] = s[1]
  BY <1>1, <1>2, <1>3
<1>7. Rest(s) = <<>> => Len(s) = 1
  <2>1. Rest(s) = <<>> => Len(Rest(s)) = 0
    OBVIOUS
  <2>2. Len(s) \in Nat /\ Len(Rest(s)) = Len(s) - 1
    BY <1>1, <1>3
  <2>3. \A k \in Nat : k - 1 = 0 => k = 1
    OBVIOUS
  <2> QED BY <2>1, <2>2, <2>3, Zenon
<1> QED BY <1>1, <1>3, <1>4, <1>5, <1>6, <1>7

-----------------------------------------------------------------------------
(***************************************************************************)
(* One class, as values: element size z, limit mx, handed out tot, free    *)
(* fr, free list s, elements out o, highest limit h.                       *)
(***************************************************************************)
Sound(z, mx, tot, fr, s, o, h) ==
  /\ tot = z * o
  /\ fr = z * Count(s)
  /\ mx <= h
  /\ \/ z * (o + Len(s)) <= h
     \/ s # <<>> /\ ~s[1] /\ z * (o + Len(s) - 1) <= h

\* Multiplication by one more and one less.
LEMMA TimesSucc ==
  ASSUME NEW z \in Nat, NEW k \in Nat
  PROVE  /\ z * k \in Nat /\ z * (k + 1) = z * k + z
         /\ k # 0 => z * (k - 1) = z * k - z /\ z * (k - 1) \in Nat /\ z <= z * k
<1>1. z * k \in Nat /\ z * (k + 1) = z * k + z
  OBVIOUS
<1>2. ASSUME k # 0 PROVE z * (k - 1) = z * k - z /\ z * (k - 1) \in Nat /\ z <= z * k
  <2>1. k - 1 \in Nat
    BY <1>2
  <2>2. z * (k - 1) \in Nat
    BY <2>1
  <2>3. z * (k - 1) = z * k - z
    BY <2>1
  <2> QED BY <1>1, <2>2, <2>3
<1> QED BY <1>1, <1>2

\* Multiplication keeps the order.
LEMMA TimesMono ==
  ASSUME NEW z \in Nat, NEW j \in Nat, NEW k \in Nat, j <= k
  PROVE  z * j <= z * k
<1>1. PICK d \in Nat : k = j + d
  BY k - j \in Nat
<1>2. z * k = z * j + z * d
  BY <1>1
<1>3. z * d \in Nat /\ z * j \in Nat /\ z * k \in Nat
  OBVIOUS
<1> QED BY <1>2, <1>3

\* What a class holds is bounded by its highest limit.
LEMMA SoundHeld ==
  ASSUME NEW z \in Nat, NEW mx \in Nat, NEW s \in Seq(BOOLEAN), NEW o \in Nat, NEW h \in Nat,
         NEW tot, NEW fr, Sound(z, mx, tot, fr, s, o, h)
  PROVE  z * (o + Count(s)) <= h
<1>1. Count(s) \in Nat /\ Len(s) \in Nat /\ Count(s) <= Len(s)
      /\ (s # <<>> /\ ~s[1] => Count(s) <= Len(s) - 1)
  BY CountBound
<1>2. CASE z * (o + Len(s)) <= h
  <2>1. z * (o + Count(s)) <= z * (o + Len(s))
    BY <1>1, TimesMono
  <2> QED BY <1>1, <1>2, <2>1
<1>3. CASE s # <<>> /\ ~s[1] /\ z * (o + Len(s) - 1) <= h
  <2>1. o + Len(s) - 1 \in Nat /\ o + Count(s) \in Nat /\ o + Count(s) <= o + Len(s) - 1
    BY <1>1, <1>3
  <2>2. z * (o + Count(s)) <= z * (o + Len(s) - 1)
    BY <2>1, TimesMono
  <2> QED BY <1>3, <2>1, <2>2
<1> QED BY <1>2, <1>3 DEF Sound

\* Picking up the element on top, which has memory (mem_pool.cc 49-61).
LEMMA SoundPickUp ==
  ASSUME NEW z \in Nat, NEW mx \in Nat, NEW s \in Seq(BOOLEAN), NEW o \in Nat, NEW h \in Nat,
         NEW tot, NEW fr, Sound(z, mx, tot, fr, s, o, h), s # <<>>, s[Len(s)]
  PROVE  /\ tot \in Nat /\ fr \in Nat /\ z <= fr
         /\ Sound(z, mx, tot + z, fr - z, Rest(s), o + 1, h)
<1> DEFINE r == Rest(s)
<1>1. /\ r \in Seq(BOOLEAN) /\ Len(r) = Len(s) - 1 /\ Len(s) \in Nat \ {0}
      /\ Count(s) = Count(r) + 1 /\ (r # <<>> => r[1] = s[1]) /\ (r = <<>> => Len(s) = 1)
  BY TopAndRest
<1>2. Count(r) \in Nat
  BY <1>1, CountBound
<1> HIDE DEF r
<1>3. tot \in Nat /\ tot + z = z * (o + 1)
  BY TimesSucc DEF Sound
<1>4. fr \in Nat /\ z <= fr /\ fr - z = z * Count(r)
  <2>1. fr = z * (Count(r) + 1) /\ z * (Count(r) + 1) = z * Count(r) + z /\ z * Count(r) \in Nat
    BY <1>1, <1>2, TimesSucc DEF Sound
  <2> QED BY <2>1
<1>5. o + 1 + Len(r) = o + Len(s) /\ o + 1 + Len(r) - 1 = o + Len(s) - 1
  BY <1>1
<1>6. s[1] \/ (r # <<>> /\ r[1] = s[1])
  BY <1>1
<1>7. \/ z * (o + 1 + Len(r)) <= h
      \/ r # <<>> /\ ~r[1] /\ z * (o + 1 + Len(r) - 1) <= h
  BY <1>5, <1>6 DEF Sound
<1> QED BY <1>3, <1>4, <1>7 DEF Sound, r

\* Giving memory to an element without it, below the limit (lines 38-48).
LEMMA SoundMalloc ==
  ASSUME NEW z \in Nat, NEW mx \in Nat, NEW s \in Seq(BOOLEAN), NEW o \in Nat, NEW h \in Nat,
         NEW tot, NEW fr, Sound(z, mx, tot, fr, s, o, h),
         s # <<>> => ~s[Len(s)], tot + z <= mx
  PROVE  tot \in Nat /\ Sound(z, mx, tot + z, fr, IF s = <<>> THEN <<>> ELSE Rest(s), o + 1, h)
<1>1. tot \in Nat /\ tot + z = z * (o + 1) /\ z * (o + 1) <= h
  <2>1. tot \in Nat /\ tot + z = z * (o + 1)
    BY TimesSucc DEF Sound
  <2> QED BY <2>1 DEF Sound
<1>2. CASE s = <<>>
  <2>1. z * (o + 1 + Len(s)) <= h
    BY <1>1, <1>2
  <2> QED BY <1>1, <1>2, <2>1 DEF Sound
<1>3. CASE s # <<>>
  <2> DEFINE r == Rest(s)
  <2>1. /\ r \in Seq(BOOLEAN) /\ Len(r) = Len(s) - 1 /\ Len(s) \in Nat \ {0}
        /\ Count(s) = Count(r) /\ (r # <<>> => r[1] = s[1]) /\ (r = <<>> => Len(s) = 1)
    BY <1>3, TopAndRest
  <2> HIDE DEF r
  <2>2. o + 1 + Len(r) = o + Len(s) /\ o + 1 + Len(r) - 1 = o + Len(s) - 1
    BY <2>1
  <2>3. r = <<>> => z * (o + 1 + Len(r)) <= h
    <3>1. r = <<>> => Len(r) = 0 /\ o + 1 + Len(r) = o + 1
      OBVIOUS
    <3> QED BY <1>1, <3>1
  <2>4. \/ z * (o + 1 + Len(r)) <= h
        \/ r # <<>> /\ ~r[1] /\ z * (o + 1 + Len(r) - 1) <= h
    BY <2>1, <2>2, <2>3 DEF Sound
  <2> QED BY <1>1, <1>3, <2>1, <2>4 DEF Sound, r
<1> QED BY <1>2, <1>3

\* An element made or taken without memory goes back on top (lines 41, 49).
LEMMA SoundGivenBack ==
  ASSUME NEW z \in Nat, NEW mx \in Nat, NEW s \in Seq(BOOLEAN), NEW o \in Nat, NEW h \in Nat,
         NEW tot, NEW fr, Sound(z, mx, tot, fr, s, o, h),
         s # <<>> => ~s[Len(s)]
  PROVE  Sound(z, mx, tot, fr, Append(IF s = <<>> THEN <<>> ELSE Rest(s), FALSE), o, h)
<1>1. CASE s = <<>>
  <2> DEFINE r == Append(s, FALSE)
  <2>1. Len(r) = Len(s) + 1 /\ Count(r) = Count(s) /\ r # <<>> /\ r[1] = FALSE
    BY <1>1, CountPush
  <2>2. z * (o + Len(s)) <= h /\ Len(s) = 0
    BY <1>1 DEF Sound
  <2> HIDE DEF r
  <2>3. o + Len(r) - 1 = o + Len(s)
    BY <2>1, <2>2
  <2>4. Append(IF s = <<>> THEN <<>> ELSE Rest(s), FALSE) = r
    BY <1>1 DEF r
  <2> QED BY <2>1, <2>2, <2>3, <2>4 DEF Sound
<1>2. CASE s # <<>>
  <2>1. s = Append(Rest(s), FALSE)
    BY <1>2, TopAndRest
  <2> QED BY <1>2, <2>1
<1> QED BY <1>1, <1>2

\* Freeing the memory of the element on top (lines 114-127).
LEMMA SoundRelease ==
  ASSUME NEW z \in Nat, NEW mx \in Nat, NEW s \in Seq(BOOLEAN), NEW o \in Nat, NEW h \in Nat,
         NEW tot, NEW fr, Sound(z, mx, tot, fr, s, o, h), s # <<>>, s[Len(s)]
  PROVE  fr \in Nat /\ z <= fr /\ Sound(z, mx, tot, fr - z, Append(Rest(s), FALSE), o, h)
<1> DEFINE r == Append(Rest(s), FALSE)
<1>1. /\ Rest(s) \in Seq(BOOLEAN) /\ Len(Rest(s)) = Len(s) - 1 /\ Len(s) \in Nat \ {0}
      /\ Count(s) = Count(Rest(s)) + 1 /\ (Rest(s) # <<>> => Rest(s)[1] = s[1])
      /\ (Rest(s) = <<>> => Len(s) = 1)
  BY TopAndRest
<1>2. /\ Count(Rest(s)) \in Nat /\ Len(r) = Len(Rest(s)) + 1 /\ Count(r) = Count(Rest(s))
      /\ r # <<>> /\ (Rest(s) # <<>> => r[1] = Rest(s)[1])
  BY <1>1, CountBound, CountPush
<1> HIDE DEF r
<1>3. fr \in Nat /\ z <= fr /\ fr - z = z * Count(r)
  <2>1. fr = z * (Count(r) + 1) /\ z * (Count(r) + 1) = z * Count(r) + z /\ z * Count(r) \in Nat
    BY <1>1, <1>2, TimesSucc DEF Sound
  <2> QED BY <2>1
<1>4. Len(r) = Len(s)
  BY <1>1, <1>2
<1>5. ~s[1] => r[1] = s[1]
  BY <1>1, <1>2
<1> QED BY <1>2, <1>3, <1>4, <1>5 DEF Sound, r

\* A buffer comes back (lines 66-78).
LEMMA SoundFree ==
  ASSUME NEW z \in Nat, NEW mx \in Nat, NEW s \in Seq(BOOLEAN), NEW o \in Nat \ {0}, NEW h \in Nat,
         NEW tot, NEW fr, Sound(z, mx, tot, fr, s, o, h)
  PROVE  /\ tot \in Nat /\ z <= tot /\ fr \in Nat
         /\ Sound(z, mx, tot - z, fr + z, Append(s, TRUE), o - 1, h)
<1> DEFINE r == Append(s, TRUE)
<1>a. Count(s) \in Nat /\ Len(s) \in Nat
  BY CountBound
<1>b. Len(r) = Len(s) + 1 /\ r # <<>>
  BY CountPush
<1>c. Count(r) = Count(s) + 1
  BY CountPush
<1>d. s # <<>> => r[1] = s[1]
  BY CountPush
<1>1. /\ Count(s) \in Nat /\ Len(s) \in Nat /\ Len(r) = Len(s) + 1 /\ Count(r) = Count(s) + 1
      /\ r # <<>> /\ (s # <<>> => r[1] = s[1])
  BY <1>a, <1>b, <1>c, <1>d
<1> HIDE DEF r
<1>2. tot \in Nat /\ z <= tot /\ tot - z = z * (o - 1)
  BY TimesSucc DEF Sound
<1>3. fr \in Nat /\ fr + z = z * Count(r)
  BY <1>1, TimesSucc DEF Sound
<1>4. o - 1 + Len(r) = o + Len(s) /\ o - 1 + Len(r) - 1 = o + Len(s) - 1
  BY <1>1
<1> QED BY <1>1, <1>2, <1>3, <1>4 DEF Sound, r

\* A limit taken away, or raised together with its record.
LEMMA SoundLimit ==
  ASSUME NEW z \in Nat, NEW mx \in Nat, NEW s \in Seq(BOOLEAN), NEW o \in Nat, NEW h \in Nat,
         NEW tot, NEW fr, Sound(z, mx, tot, fr, s, o, h),
         NEW mx2 \in Nat, NEW h2 \in Nat, h <= h2, mx2 <= h2
  PROVE  Sound(z, mx2, tot, fr, s, o, h2)
<1>1. Len(s) \in Nat /\ z * (o + Len(s)) \in Nat
  BY o + Len(s) \in Nat
<1>2. z * (o + Len(s)) <= h => z * (o + Len(s)) <= h2
  BY <1>1
<1>3. s # <<>> /\ z * (o + Len(s) - 1) <= h => z * (o + Len(s) - 1) <= h2
  <2>1. s # <<>> => o + Len(s) - 1 \in Nat
    OBVIOUS
  <2>2. s # <<>> => z * (o + Len(s) - 1) \in Nat
    BY <2>1
  <2> QED BY <2>2
<1> QED BY <1>2, <1>3 DEF Sound

-----------------------------------------------------------------------------
(***************************************************************************)
(* The steps.                                                              *)
(***************************************************************************)
SoundAt(c) ==
  Sound(Size[c], sz_max[c], sz_total[c], sz_free[c], stack[c], out[c], peak[c])

\* The invariant class by class.
LEMMA IInvByClass ==
  IInv <=> TypeOK /\ VisitOK /\ CountersSound /\ \A c \in Classes : SoundAt(c)
BY DEF IInv, Accounting, AccountedAt, Footprint, FootprintAt, SoundAt, Sound

\* The same for the next state.
LEMMA IInvNext ==
  (TypeOK /\ VisitOK /\ CountersSound /\ \A c \in Classes : SoundAt(c))' => IInv'
BY DEF IInv, Accounting, AccountedAt, Footprint, FootprintAt, SoundAt, Sound

\* Shares of a limit are natural numbers.
LEMMA DivNat == \A a \in Nat : \A b \in Nat \ {0} : a \div b \in Nat
<1> SUFFICES ASSUME NEW a \in Nat, NEW b \in Nat \ {0} PROVE a \div b \in Nat
  OBVIOUS
<1>1. a \div b \in Int /\ a = b * (a \div b) + (a % b) /\ a % b < b
  OBVIOUS
<1>2. ASSUME a \div b < 0 PROVE FALSE
  <2>1. PICK d \in Int : d = a \div b /\ d <= -1
    BY <1>1, <1>2
  <2>2. b * d <= -b
    <3>1. -1 - d \in Nat
      BY <2>1
    <3>2. b * (-1 - d) \in Nat
      BY <3>1
    <3>3. b * (-1 - d) = -b - b * d
      BY <2>1
    <3> QED BY <3>2, <3>3
  <2> QED BY <1>1, <2>1, <2>2
<1> QED BY <1>1, <1>2

\* Types of what belongs to one class.
LEMMA ClassTypes ==
  ASSUME TypeOK, NEW c \in Classes
  PROVE  /\ Size[c] \in Nat /\ Size[c] # 0 /\ c \in Int /\ 0 <= c
         /\ sz_max[c] \in Nat /\ sz_total[c] \in Nat /\ sz_free[c] \in Nat
         /\ stack[c] \in Seq(BOOLEAN) /\ out[c] \in Nat /\ peak[c] \in Nat
<1>1. Size[c] \in Nat \ {0}
  BY ClassAssumption
<1>2. c \in Int /\ 0 <= c
  BY ClassAssumption DEF Classes
<1>3. /\ sz_max[c] \in Nat /\ sz_total[c] \in Nat /\ sz_free[c] \in Nat
      /\ stack[c] \in Seq(BOOLEAN) /\ out[c] \in Nat /\ peak[c] \in Nat
  BY DEF TypeOK
<1> QED BY <1>1, <1>2, <1>3

\* Nothing of a class changes: it stays sound.
LEMMA SoundFrame ==
  ASSUME NEW c \in Classes, SoundAt(c),
         sz_max'[c] = sz_max[c], sz_total'[c] = sz_total[c], sz_free'[c] = sz_free[c],
         stack'[c] = stack[c], out'[c] = out[c], peak'[c] = peak[c]
  PROVE  SoundAt(c)'
BY DEF SoundAt

\* At the beginning there is nothing (mem_pool.cc 146-165, 316-320).
LEMMA InitIInv == Init => IInv
<1> SUFFICES ASSUME Init PROVE IInv
  OBVIOUS
<1>1. nr_magics \in Nat \ {0} /\ 0 \in Classes /\ Size \in [Classes -> Nat \ {0}]
  BY ClassAssumption DEF Classes
<1>2. <<>> \in Seq(BOOLEAN) /\ Count(<<>>) = 0 /\ Len(<<>>) = 0
  <2>1. WithMem(<<>>) = {}
    BY DEF WithMem
  <2> QED BY <2>1, FS_EmptySet DEF Count
<1>3. TypeOK
  <2>1. mng_max \in Nat /\ pc = "idle" /\ magic \in Classes /\ reported \in SUBSET Bugs
    BY <1>1, MaxSizesAssumption DEF Init
  <2>2. stack \in [Classes -> Seq(BOOLEAN)]
    BY <1>2 DEF Init
  <2> QED BY <2>1, <2>2 DEF Init, TypeOK, Pcs
<1>4. ASSUME NEW c \in Classes PROVE SoundAt(c)
  <2>1. Size[c] \in Nat /\ Size[c] * 0 = 0
    BY <1>1
  <2>2. Sound(Size[c], 0, 0, 0, <<>>, 0, 0)
    <3>1. 0 + Len(<<>>) = 0
      BY <1>2
    <3> QED BY <1>2, <2>1, <3>1 DEF Sound
  <2> QED BY <2>2 DEF SoundAt, Init
<1>5. VisitOK /\ CountersSound
  BY DEF Init, VisitOK, CountersSound
<1> QED BY <1>3, <1>4, <1>5, IInvByClass

\* Creating a pool gives it a limit (mem_pool.cc 203-216).
LEMMA GetPoolSound ==
  ASSUME TypeOK, \A c \in Classes : SoundAt(c), NEW k \in Classes, GetPool(k),
         UNCHANGED elems
  PROVE  /\ made' \in SUBSET Classes /\ sz_max' \in [Classes -> Nat]
         /\ peak' \in [Classes -> Nat] /\ granted' \in Nat
         /\ \A c \in Classes : SoundAt(c)'
<1>1. CASE k \in made
  BY <1>1 DEF GetPool, quota, elems, SoundAt, TypeOK
<1>2. CASE k \notin made
  <2> DEFINE share == mng_max \div nr_magics
  <2>1. share \in Nat
    BY ClassAssumption, DivNat DEF TypeOK
  <2> HIDE DEF share
  <2>2. /\ made' = made \union {k} /\ granted' = granted + share
        /\ sz_max' = [sz_max EXCEPT ![k] = share]
        /\ peak' = [peak EXCEPT ![k] = Larger(peak[k], share)]
    BY <1>2 DEF GetPool, share
  <2>3. /\ Larger(peak[k], share) \in Nat /\ peak[k] <= Larger(peak[k], share)
        /\ share <= Larger(peak[k], share)
    BY <2>1, ClassTypes DEF Larger
  <2>4. made' \in SUBSET Classes /\ sz_max' \in [Classes -> Nat]
        /\ peak' \in [Classes -> Nat] /\ granted' \in Nat
    BY <2>1, <2>2, <2>3 DEF TypeOK
  <2>5. ASSUME NEW c \in Classes PROVE SoundAt(c)'
    <3>1. CASE c = k
      <4>1. Sound(Size[k], share, sz_total[k], sz_free[k], stack[k], out[k], Larger(peak[k], share))
        BY <2>1, <2>3, ClassTypes, SoundLimit DEF SoundAt
      <4>2. sz_max'[k] = share /\ peak'[k] = Larger(peak[k], share)
        BY <2>2 DEF TypeOK
      <4> QED BY <3>1, <4>1, <4>2 DEF SoundAt, elems
    <3>2. CASE c # k
      <4>1. sz_max'[c] = sz_max[c] /\ peak'[c] = peak[c]
        BY <2>2, <3>2 DEF TypeOK
      <4> QED BY <4>1, SoundFrame DEF elems
    <3> QED BY <3>1, <3>2
  <2> QED BY <2>4, <2>5
<1> QED BY <1>1, <1>2

\* Steps that only move the call, or touch the manager alone.
LEMMA QuietIInv ==
  ASSUME IInv,
         \/ \E k \in Requests : AllocCall(k) \/ AllocDirect(k)
         \/ FreeDirect \/ (\E k \in MaxSizes : SetMaxSize(k))
         \/ OpenPoolFail \/ NewObjFail \/ VisitFail \/ ShrinkStart \/ Collect \/ ShrinkEnd
         \/ NoSpace
  PROVE  IInv'
<1>0. TypeOK /\ VisitOK /\ CountersSound /\ \A c \in Classes : SoundAt(c)
  BY IInvByClass
<1>1. UNCHANGED <<quota, elems>>
  BY DEF AllocCall, AllocDirect, FreeDirect, SetMaxSize, OpenPoolFail, NewObjFail, VisitFail,
         ShrinkStart, Collect, ShrinkEnd, NoSpace
<1>2. \A c \in Classes : SoundAt(c)'
  BY <1>0, <1>1, SoundFrame DEF quota, elems
<1>3. 0 \in Classes /\ nr_magics \in Nat
  BY ClassAssumption DEF Classes
<1>4. TypeOK'
  <2> USE <1>0, <1>1, <1>3 DEF TypeOK, Pcs, quota, elems, shrink
  <2>1. ASSUME NEW k \in Requests, AllocCall(k) PROVE TypeOK'
    BY <2>1 DEF AllocCall
  <2>2. ASSUME NEW k \in Requests, AllocDirect(k) PROVE TypeOK'
    BY <2>2 DEF AllocDirect
  <2>3. CASE FreeDirect
    BY <2>3 DEF FreeDirect
  <2>4. ASSUME NEW k \in MaxSizes, SetMaxSize(k) PROVE TypeOK'
    BY <2>4, MaxSizesAssumption DEF SetMaxSize
  <2>5. CASE OpenPoolFail \/ NewObjFail \/ NoSpace
    <3>1. pc' = "idle" /\ magic' = 0 /\ retry' = FALSE /\ i' = 0 /\ shk' = 0 /\ max_free' = 0
          /\ got' = 0 /\ UNCHANGED <<mng_max, direct, reported>>
      BY <2>5 DEF OpenPoolFail, NewObjFail, NoSpace, Return
    <3>2. retry' \in BOOLEAN
      BY <3>1
    <3> QED BY <3>1, <3>2
  <2>6. CASE VisitFail
    <3>1. Before(i) \in Int
      BY DEF Before, Classes
    <3> QED BY <2>6, <3>1 DEF VisitFail
  <2>7. CASE ShrinkStart
    <3>1. i \in Classes
      BY <2>7 DEF ShrinkStart
    <3>2. max_free' \in Nat
      <4>1. sz_max[i] \in Nat /\ sz_total[i] \in Nat
        BY <3>1
      <4>2. sz_max[i] \div 4 \in Nat
        BY <4>1, DivNat, 4 \in Nat \ {0}
      <4> QED BY <2>7, <4>1, <4>2 DEF ShrinkStart
    <3> QED BY <2>7, <3>2 DEF ShrinkStart
  <2>8. CASE Collect
    <3>1. Before(i) \in Int /\ i' \in Int
      BY <2>8 DEF Before, Classes, Collect
    <3>2. shk' \in Nat /\ pc' \in {"grant", "visit"}
      BY <2>8 DEF Collect
    <3> QED BY <2>8, <3>1, <3>2 DEF Collect
  <2>9. CASE ShrinkEnd
    BY <2>9 DEF ShrinkEnd
  <2> QED BY <2>1, <2>2, <2>3, <2>4, <2>5, <2>6, <2>7, <2>8, <2>9
<1>5. CountersSound'
  BY <1>0 DEF CountersSound, AllocCall, AllocDirect, FreeDirect, SetMaxSize, OpenPoolFail,
     NewObjFail, VisitFail, ShrinkStart, Collect, ShrinkEnd, NoSpace
<1>6. VisitOK'
  <2>0. ASSUME NEW k \in Int, k < nr_magics + 1, k # magic
        PROVE  Before(k) < 0 \/ Before(k) \in Classes \ {magic}
    BY <2>0, <1>0, <1>3 DEF Before, Classes, TypeOK
  <2>1. CASE VisitFail
    <3>1. i \in Classes \ {magic} /\ magic' = magic /\ i' = Before(i)
      BY <2>1, <1>0 DEF VisitFail, VisitOK, TypeOK
    <3>2. i \in Int /\ i < nr_magics + 1 /\ i # magic
      BY <3>1, <1>3 DEF Classes
    <3> QED BY <2>0, <3>1, <3>2 DEF VisitOK
  <2>2. CASE Collect
    <3>1. i \in Classes \ {magic} /\ magic' = magic /\ (pc' = "visit" => i' = Before(i))
      BY <2>2, <1>0 DEF Collect, TypeOK
    <3>2. i \in Int /\ i < nr_magics + 1 /\ i # magic
      BY <3>1, <1>3 DEF Classes
    <3> QED BY <2>0, <3>1, <3>2 DEF VisitOK
  <2>3. CASE ~VisitFail /\ ~Collect
    <3>1. pc' # "visit"
      BY <2>3, <1>0 DEF AllocCall, AllocDirect, FreeDirect, SetMaxSize, OpenPoolFail,
         NewObjFail, ShrinkStart, ShrinkEnd, NoSpace, Return
    <3> QED BY <3>1 DEF VisitOK
  <2> QED BY <2>1, <2>2, <2>3
<1> QED BY <1>2, <1>4, <1>5, <1>6, IInvNext

\* A call opens the pool of its class, or Shrink opens the one it visits.
LEMMA OpenIInv == ASSUME IInv, OpenPool \/ Visit PROVE IInv'
<1>0. TypeOK /\ VisitOK /\ CountersSound /\ \A c \in Classes : SoundAt(c)
  BY IInvByClass
<1>1. CASE OpenPool
  <2>1. magic \in Classes /\ GetPool(magic) /\ UNCHANGED elems
    BY <1>0, <1>1 DEF OpenPool, TypeOK
  <2>2. /\ made' \in SUBSET Classes /\ sz_max' \in [Classes -> Nat]
        /\ peak' \in [Classes -> Nat] /\ granted' \in Nat
        /\ \A c \in Classes : SoundAt(c)'
    BY <1>0, <2>1, GetPoolSound
  <2>3. TypeOK'
    BY <1>0, <1>1, <2>2 DEF TypeOK, Pcs, OpenPool, elems, shrink
  <2>4. VisitOK' /\ CountersSound'
    BY <1>0, <1>1 DEF OpenPool, VisitOK, CountersSound
  <2> QED BY <2>2, <2>3, <2>4, IInvNext
<1>2. CASE Visit
  <2>1. i \in Classes \ {magic} /\ GetPool(i) /\ UNCHANGED elems
    BY <1>0, <1>2 DEF Visit, TypeOK, VisitOK
  <2>2. /\ made' \in SUBSET Classes /\ sz_max' \in [Classes -> Nat]
        /\ peak' \in [Classes -> Nat] /\ granted' \in Nat
        /\ \A c \in Classes : SoundAt(c)'
    BY <1>0, <2>1, GetPoolSound
  <2>3. TypeOK'
    BY <1>0, <1>2, <2>1, <2>2 DEF TypeOK, Pcs, Visit, elems, shrink
  <2>4. VisitOK' /\ CountersSound'
    BY <1>0, <1>2 DEF Visit, VisitOK, CountersSound
  <2> QED BY <2>2, <2>3, <2>4, IInvNext
<1> QED BY <1>1, <1>2

\* The locals after the call returned.
LEMMA ReturnTypes ==
  ASSUME Return
  PROVE  /\ pc' = "idle" /\ magic' \in Classes /\ retry' \in BOOLEAN /\ i' \in Int
         /\ shk' \in Nat /\ max_free' \in Nat /\ got' \in Nat
<1>1. 0 \in Classes
  BY ClassAssumption DEF Classes
<1>2. retry' \in BOOLEAN
  BY DEF Return
<1>3. magic' = 0 /\ pc' = "idle" /\ i' = 0 /\ shk' = 0 /\ max_free' = 0 /\ got' = 0
  BY DEF Return
<1> QED BY <1>1, <1>2, <1>3

\* Picking up an old element never finds the free bytes missing.
LEMMA PickUpIInv == ASSUME IInv, PickUp PROVE IInv'
<1>0. TypeOK /\ VisitOK /\ CountersSound /\ \A c \in Classes : SoundAt(c)
  BY IInvByClass
<1> DEFINE c == magic
<1>1. /\ c \in Classes /\ stack[c] # <<>> /\ stack[c][Len(stack[c])] /\ Return
      /\ Size[c] \in Nat /\ sz_max[c] \in Nat /\ sz_total[c] \in Nat /\ sz_free[c] \in Nat
      /\ stack[c] \in Seq(BOOLEAN) /\ out[c] \in Nat /\ peak[c] \in Nat
  BY <1>0, ClassTypes DEF PickUp, HandOut, Blank, Top, TypeOK
<1>2. /\ Size[c] <= sz_free[c]
      /\ Sound(Size[c], sz_max[c], sz_total[c] + Size[c], sz_free[c] - Size[c],
               Rest(stack[c]), out[c] + 1, peak[c])
  BY <1>0, <1>1, SoundPickUp DEF SoundAt
<1>3. /\ sz_total' = [sz_total EXCEPT ![c] = sz_total[c] + Size[c]]
      /\ stack' = [stack EXCEPT ![c] = Rest(stack[c])]
      /\ out' = [out EXCEPT ![c] = out[c] + 1]
      /\ UNCHANGED <<mng_max, direct, made, sz_max, peak, granted>>
  BY <1>1 DEF PickUp, HandOut, Taken, Below, Rest, quota
<1>4. sz_free' = [sz_free EXCEPT ![c] = sz_free[c] - Size[c]]
  <2>1. sz_free' = [sz_free EXCEPT ![c] = IF sz_free[c] < Size[c] THEN sz_free[c]
                                          ELSE sz_free[c] - Size[c]]
    BY DEF PickUp
  <2>2. ~(sz_free[c] < Size[c])
    BY <1>1, <1>2
  <2> QED BY <2>1, <2>2
<1>5. reported' = reported
  BY <1>1, <1>2 DEF PickUp, Flag
<1>6. Rest(stack[c]) \in Seq(BOOLEAN) /\ sz_free[c] - Size[c] \in Nat
  BY <1>1, <1>2, TopAndRest
<1>7. TypeOK'
  <2>1. sz_total' \in [Classes -> Nat] /\ out' \in [Classes -> Nat]
    <3>1. sz_total[c] + Size[c] \in Nat /\ out[c] + 1 \in Nat
      BY <1>1
    <3> QED BY <1>0, <1>3, <3>1 DEF TypeOK
  <2>2. sz_free' \in [Classes -> Nat]
    BY <1>0, <1>4, <1>6 DEF TypeOK
  <2>3. stack' \in [Classes -> Seq(BOOLEAN)]
    BY <1>0, <1>3, <1>6 DEF TypeOK
  <2> QED BY <1>0, <1>1, <1>3, <1>5, <2>1, <2>2, <2>3, ReturnTypes DEF TypeOK, Pcs
<1>8. ASSUME NEW d \in Classes PROVE SoundAt(d)'
  <2>1. CASE d = c
    <3>1. /\ sz_total'[c] = sz_total[c] + Size[c] /\ sz_free'[c] = sz_free[c] - Size[c]
          /\ stack'[c] = Rest(stack[c]) /\ out'[c] = out[c] + 1
      BY <1>0, <1>1, <1>3, <1>4 DEF TypeOK
    <3> HIDE DEF c
    <3> QED BY <1>2, <1>3, <2>1, <3>1 DEF SoundAt
  <2>2. CASE d # c
    <3>1. /\ sz_total'[d] = sz_total[d] /\ sz_free'[d] = sz_free[d]
          /\ stack'[d] = stack[d] /\ out'[d] = out[d]
      BY <1>0, <1>3, <1>4, <2>2 DEF TypeOK
    <3> QED BY <1>0, <1>3, <3>1, SoundFrame
  <2> QED BY <2>1, <2>2
<1>9. VisitOK' /\ CountersSound'
  BY <1>0, <1>1, <1>5, ReturnTypes DEF VisitOK, CountersSound
<1> QED BY <1>7, <1>8, <1>9, IInvNext

\* Memory is allocated below the limit.
LEMMA MallocIInv == ASSUME IInv, Malloc PROVE IInv'
<1>0. TypeOK /\ VisitOK /\ CountersSound /\ \A c \in Classes : SoundAt(c)
  BY IInvByClass
<1> DEFINE c == magic
           r == IF stack[c] = <<>> THEN <<>> ELSE Rest(stack[c])
<1>1. /\ c \in Classes /\ (stack[c] # <<>> => ~stack[c][Len(stack[c])]) /\ Return
      /\ Size[c] \in Nat /\ sz_max[c] \in Nat /\ sz_total[c] \in Nat /\ sz_free[c] \in Nat
      /\ stack[c] \in Seq(BOOLEAN) /\ out[c] \in Nat /\ peak[c] \in Nat
  BY <1>0, ClassTypes DEF Malloc, HandOut, Blank, Top, TypeOK
<1>a. sz_total[c] + Size[c] <= sz_max[c]
  BY <1>1 DEF Malloc, LimitReached
<1>2. Sound(Size[c], sz_max[c], sz_total[c] + Size[c], sz_free[c], r, out[c] + 1, peak[c])
  BY <1>0, <1>1, <1>a, SoundMalloc DEF SoundAt
<1>3. /\ sz_total' = [sz_total EXCEPT ![c] = sz_total[c] + Size[c]]
      /\ stack' = [stack EXCEPT ![c] = r]
      /\ out' = [out EXCEPT ![c] = out[c] + 1]
      /\ UNCHANGED <<mng_max, direct, made, sz_max, peak, granted, sz_free, reported>>
  BY DEF Malloc, HandOut, Taken, Below, Rest, quota
<1>6. r \in Seq(BOOLEAN)
  BY <1>1, TopAndRest
<1> HIDE DEF c, r
<1>7. TypeOK'
  <2>1. sz_total' \in [Classes -> Nat] /\ out' \in [Classes -> Nat]
    <3>1. sz_total[c] + Size[c] \in Nat /\ out[c] + 1 \in Nat
      BY <1>1
    <3> QED BY <1>0, <1>3, <3>1 DEF TypeOK
  <2>2. stack' \in [Classes -> Seq(BOOLEAN)]
    BY <1>0, <1>3, <1>6 DEF TypeOK
  <2> QED BY <1>0, <1>1, <1>3, <2>1, <2>2, ReturnTypes DEF TypeOK, Pcs
<1>8. ASSUME NEW d \in Classes PROVE SoundAt(d)'
  <2>1. CASE d = c
    <3>1. sz_total'[c] = sz_total[c] + Size[c] /\ stack'[c] = r /\ out'[c] = out[c] + 1
      BY <1>0, <1>1, <1>3 DEF TypeOK
    <3> QED BY <1>2, <1>3, <2>1, <3>1 DEF SoundAt
  <2>2. CASE d # c
    <3>1. sz_total'[d] = sz_total[d] /\ stack'[d] = stack[d] /\ out'[d] = out[d]
      BY <1>0, <1>3, <2>2 DEF TypeOK
    <3> QED BY <1>0, <1>3, <3>1, SoundFrame
  <2> QED BY <2>1, <2>2
<1>9. VisitOK' /\ CountersSound'
  BY <1>0, <1>1, <1>3, ReturnTypes DEF VisitOK, CountersSound
<1> QED BY <1>7, <1>8, <1>9, IInvNext

\* The element goes back without memory: the limit was met or malloc failed.
LEMMA GivenBackIInv == ASSUME IInv, MallocFail \/ Exceed PROVE IInv'
<1>0. TypeOK /\ VisitOK /\ CountersSound /\ \A c \in Classes : SoundAt(c)
  BY IInvByClass
<1> DEFINE c == magic
           t == IF stack[c] = <<>> THEN <<>> ELSE Rest(stack[c])
           r == Append(t, FALSE)
<1>1. /\ c \in Classes /\ (stack[c] # <<>> => ~stack[c][Len(stack[c])])
      /\ Size[c] \in Nat /\ sz_max[c] \in Nat /\ sz_total[c] \in Nat /\ sz_free[c] \in Nat
      /\ stack[c] \in Seq(BOOLEAN) /\ out[c] \in Nat /\ peak[c] \in Nat
  BY <1>0, ClassTypes DEF MallocFail, Exceed, Blank, Top, TypeOK
<1>2. Sound(Size[c], sz_max[c], sz_total[c], sz_free[c], r, out[c], peak[c])
  BY <1>0, <1>1, SoundGivenBack DEF SoundAt
<1>3. /\ stack' = [stack EXCEPT ![c] = r]
      /\ UNCHANGED <<mng_max, direct, made, sz_max, peak, granted, sz_total, sz_free, out>>
  BY DEF MallocFail, Exceed, GivenBack, Taken, Below, Rest, quota
<1>4. t \in Seq(BOOLEAN)
  BY <1>1, TopAndRest
<1>5. r \in Seq(BOOLEAN)
  BY <1>4
<1> HIDE DEF c, t, r
<1>6. stack' \in [Classes -> Seq(BOOLEAN)]
  BY <1>0, <1>1, <1>3, <1>5 DEF TypeOK
<1>7. ASSUME NEW d \in Classes PROVE SoundAt(d)'
  <2>1. CASE d = c
    <3>1. stack'[c] = r
      BY <1>0, <1>1, <1>3 DEF TypeOK
    <3> QED BY <1>2, <1>3, <2>1, <3>1 DEF SoundAt
  <2>2. CASE d # c
    <3>1. stack'[d] = stack[d]
      BY <1>0, <1>3, <2>2 DEF TypeOK
    <3> QED BY <1>0, <1>3, <3>1, SoundFrame
  <2> QED BY <2>1, <2>2
<1>8. CASE Return /\ reported' \subseteq reported \union {"EXCEED_LIMIT_AFTER_SHRINK"}
  <2>1. TypeOK'
    <3>1. reported' \in SUBSET Bugs
      BY <1>0, <1>8 DEF TypeOK, Bugs
    <3> QED BY <1>0, <1>3, <1>6, <1>8, <3>1, ReturnTypes DEF TypeOK, Pcs
  <2>2. VisitOK' /\ CountersSound'
    BY <1>0, <1>8, ReturnTypes DEF VisitOK, CountersSound
  <2> QED BY <1>7, <2>1, <2>2, IInvNext
<1>9. CASE /\ pc' = "visit" /\ i' = Before(nr_magics)
           /\ UNCHANGED <<magic, retry, reported, shk, max_free, got>>
  <2>0. magic \in Int /\ 0 <= magic /\ magic <= nr_magics - 1 /\ nr_magics \in Nat
    BY <1>0, ClassAssumption DEF TypeOK, Classes
  <2>1. i' \in Int /\ (i' < 0 \/ i' \in Classes \ {magic})
    BY <1>9, <2>0 DEF Before, Classes
  <2>2. TypeOK'
    BY <1>0, <1>3, <1>6, <1>9, <2>1 DEF TypeOK, Pcs
  <2>3. VisitOK' /\ CountersSound'
    BY <1>0, <1>9, <2>1 DEF VisitOK, CountersSound
  <2> QED BY <1>7, <2>2, <2>3, IInvNext
<1> QED BY <1>8, <1>9 DEF MallocFail, Exceed

\* Shrink takes spare limit, or the limit of what it released: the free
\* list is as before and the limit does not rise.
LEMMA LowerIInv == ASSUME IInv, ShrinkSpace \/ ReleaseEnd PROVE IInv'
<1>0. TypeOK /\ VisitOK /\ CountersSound /\ \A c \in Classes : SoundAt(c)
  BY IInvByClass
<1>1. /\ i \in Classes
      /\ Size[i] \in Nat /\ Size[i] # 0 /\ sz_max[i] \in Nat /\ sz_total[i] \in Nat
      /\ sz_free[i] \in Nat /\ stack[i] \in Seq(BOOLEAN) /\ out[i] \in Nat /\ peak[i] \in Nat
  BY <1>0, ClassTypes DEF ShrinkSpace, ReleaseEnd, TypeOK
<1>2. ASSUME NEW m \in Nat, m <= sz_max[i], sz_max' = [sz_max EXCEPT ![i] = m],
             got' \in Nat, pc' = "collect", reported' \subseteq Bugs,
             reported' \intersect {"SZ_FREE_BAD1", "SZ_FREE_BAD3", "SZ_FREE_BAD4", "SZ_TOTAL_BAD"} = {},
             UNCHANGED <<mng_max, direct, made, peak, granted, elems, magic, retry, i, shk, max_free>>
      PROVE  IInv'
  <2>1. TypeOK'
    BY <1>0, <1>1, <1>2 DEF TypeOK, Pcs, elems, ShrinkSpace, ReleaseEnd
  <2>2. ASSUME NEW d \in Classes PROVE SoundAt(d)'
    <3>1. CASE d = i
      <4>1. m <= peak[i]
        BY <1>0, <1>1, <1>2 DEF SoundAt, Sound
      <4>2. Sound(Size[i], m, sz_total[i], sz_free[i], stack[i], out[i], peak[i])
        <5>1. Sound(Size[i], sz_max[i], sz_total[i], sz_free[i], stack[i], out[i], peak[i])
          BY <1>0, <1>1 DEF SoundAt
        <5>2. peak[i] <= peak[i]
          BY <1>1
        <5> QED BY <1>1, <1>2, <4>1, <5>1, <5>2, SoundLimit
      <4>3. sz_max'[i] = m
        BY <1>0, <1>1, <1>2 DEF TypeOK
      <4> QED BY <1>2, <3>1, <4>2, <4>3 DEF SoundAt, elems
    <3>2. CASE d # i
      <4>1. sz_max'[d] = sz_max[d]
        BY <1>0, <1>2, <3>2 DEF TypeOK
      <4> QED BY <1>0, <1>2, <4>1, SoundFrame DEF elems
    <3> QED BY <3>1, <3>2
  <2>3. VisitOK' /\ CountersSound'
    BY <1>2 DEF VisitOK, CountersSound
  <2> QED BY <2>1, <2>2, <2>3, IInvNext
<1>3. CASE ShrinkSpace
  <2> DEFINE half == (sz_max[i] - (sz_total[i] + sz_free[i])) \div 2
  <2>0. sz_max[i] > 2 * (sz_total[i] + sz_free[i]) /\ Spare(i) > Size[i]
    BY <1>3 DEF ShrinkSpace, HasSpace
  <2>1. half \in Nat /\ half <= sz_max[i]
    BY <1>1, <2>0
  <2> DEFINE rest == half % Size[i]
  <2> HIDE DEF half
  <2>2. Spare(i) = half - rest
    BY DEF Spare, half
  <2>3. rest \in Nat
    BY <1>1, <2>1
  <2> HIDE DEF rest
  <2>4. Spare(i) \in Nat /\ sz_max[i] - Spare(i) \in Nat /\ sz_max[i] - Spare(i) <= sz_max[i]
    BY <1>1, <2>0, <2>1, <2>2, <2>3
  <2>5. /\ sz_max' = [sz_max EXCEPT ![i] = sz_max[i] - Spare(i)] /\ got' = Spare(i)
        /\ pc' = "collect"
        /\ UNCHANGED <<mng_max, direct, made, peak, granted, elems, magic, retry, reported,
                       i, shk, max_free>>
    BY <1>3 DEF ShrinkSpace
  <2>6. reported' \subseteq Bugs /\
        reported' \intersect {"SZ_FREE_BAD1", "SZ_FREE_BAD3", "SZ_FREE_BAD4", "SZ_TOTAL_BAD"} = {}
    BY <1>0, <2>5 DEF TypeOK, CountersSound
  <2> QED BY <1>2, <2>4, <2>5, <2>6
<1>4. CASE ReleaseEnd
  <2> DEFINE m == IF sz_max[i] < got THEN sz_max[i] ELSE sz_max[i] - got
  <2>1. got \in Nat /\ m \in Nat /\ m <= sz_max[i]
    BY <1>0, <1>1 DEF TypeOK
  <2>2. /\ sz_max' = [sz_max EXCEPT ![i] = m] /\ got' = got /\ pc' = "collect"
        /\ UNCHANGED <<mng_max, direct, made, peak, granted, elems, magic, retry, i, shk, max_free>>
    BY <1>4 DEF ReleaseEnd
  <2>3. sz_free[i] > max_free => stack[i] # <<>>
    <3>1. WithMem(<<>>) = {} /\ Cardinality({}) = 0
      BY FS_EmptySet DEF WithMem
    <3>2. stack[i] = <<>> => Count(stack[i]) = 0
      BY <3>1 DEF Count
    <3>3. stack[i] = <<>> => sz_free[i] = Size[i] * 0
      BY <1>0, <1>1, <3>2 DEF SoundAt, Sound
    <3>4. Size[i] * 0 = 0 /\ max_free \in Nat
      BY <1>0, <1>1 DEF TypeOK
    <3> QED BY <1>1, <3>3, <3>4
  <2>4. reported' \subseteq reported \union {"SZ_FREE_BAD2", "SZ_MAX_BAD"}
    BY <1>4, <2>3 DEF ReleaseEnd, Flag
  <2>5. reported' \subseteq Bugs
    BY <1>0, <2>4 DEF TypeOK, Bugs
  <2>6. reported' \intersect {"SZ_FREE_BAD1", "SZ_FREE_BAD3", "SZ_FREE_BAD4", "SZ_TOTAL_BAD"} = {}
    BY <1>0, <2>4 DEF CountersSound
  <2> HIDE DEF m
  <2> QED BY <1>2, <2>1, <2>2, <2>5, <2>6
<1> QED BY <1>3, <1>4

\* Shrink frees the memory of the element on top.
LEMMA ReleaseIInv == ASSUME IInv, Release PROVE IInv'
<1>0. TypeOK /\ VisitOK /\ CountersSound /\ \A c \in Classes : SoundAt(c)
  BY IInvByClass
<1> DEFINE r == Append(Rest(stack[i]), FALSE)
<1>1. /\ i \in Classes /\ stack[i] # <<>> /\ stack[i][Len(stack[i])]
      /\ Size[i] \in Nat /\ sz_max[i] \in Nat /\ sz_total[i] \in Nat /\ sz_free[i] \in Nat
      /\ stack[i] \in Seq(BOOLEAN) /\ out[i] \in Nat /\ peak[i] \in Nat
  BY <1>0, ClassTypes DEF Release, Blank, Top, TypeOK
<1>2. /\ Size[i] <= sz_free[i]
      /\ Sound(Size[i], sz_max[i], sz_total[i], sz_free[i] - Size[i], r, out[i], peak[i])
  BY <1>0, <1>1, SoundRelease DEF SoundAt
<1>3. /\ stack' = [stack EXCEPT ![i] = r] /\ got' = got + Size[i]
      /\ UNCHANGED <<mng_max, direct, made, sz_max, peak, granted, sz_total, out, pc, magic,
                     retry, i, shk, max_free>>
  BY DEF Release, Below, Rest, quota
<1>4. sz_free' = [sz_free EXCEPT ![i] = sz_free[i] - Size[i]]
  <2>1. sz_free' = [sz_free EXCEPT ![i] = IF sz_free[i] < Size[i] THEN sz_free[i]
                                          ELSE sz_free[i] - Size[i]]
    BY DEF Release
  <2>2. ~(sz_free[i] < Size[i])
    BY <1>1, <1>2
  <2> QED BY <2>1, <2>2
<1>5. reported' = reported
  BY <1>1, <1>2 DEF Release, Flag
<1>6. r \in Seq(BOOLEAN) /\ sz_free[i] - Size[i] \in Nat
  <2>1. Rest(stack[i]) \in Seq(BOOLEAN)
    BY <1>1, TopAndRest
  <2> QED BY <1>1, <1>2, <2>1
<1> HIDE DEF r
<1>7. TypeOK'
  <2>1. sz_free' \in [Classes -> Nat]
    BY <1>0, <1>4, <1>6 DEF TypeOK
  <2>2. stack' \in [Classes -> Seq(BOOLEAN)]
    BY <1>0, <1>3, <1>6 DEF TypeOK
  <2>3. got' \in Nat
    <3>1. got \in Nat
      BY <1>0 DEF TypeOK
    <3> QED BY <1>1, <1>3, <3>1
  <2> QED BY <1>0, <1>1, <1>3, <1>5, <2>1, <2>2, <2>3 DEF TypeOK, Pcs
<1>8. ASSUME NEW d \in Classes PROVE SoundAt(d)'
  <2>1. CASE d = i
    <3>1. sz_free'[i] = sz_free[i] - Size[i] /\ stack'[i] = r
      BY <1>0, <1>1, <1>3, <1>4 DEF TypeOK
    <3> QED BY <1>2, <1>3, <2>1, <3>1 DEF SoundAt
  <2>2. CASE d # i
    <3>1. sz_free'[d] = sz_free[d] /\ stack'[d] = stack[d]
      BY <1>0, <1>3, <1>4, <2>2 DEF TypeOK
    <3> QED BY <1>0, <1>3, <3>1, SoundFrame
  <2> QED BY <2>1, <2>2
<1>9. VisitOK' /\ CountersSound'
  BY <1>0, <1>3, <1>5 DEF VisitOK, CountersSound, Release
<1> QED BY <1>7, <1>8, <1>9, IInvNext

\* What Shrink collected raises the limit of the class in need.
LEMMA GrantIInv == ASSUME IInv, Grant PROVE IInv'
<1>0. TypeOK /\ VisitOK /\ CountersSound /\ \A c \in Classes : SoundAt(c)
  BY IInvByClass
<1> DEFINE m == sz_max[magic] + shk
           h == Larger(peak[magic], m)
<1>1. /\ magic \in Classes
      /\ Size[magic] \in Nat /\ sz_max[magic] \in Nat /\ sz_total[magic] \in Nat
      /\ sz_free[magic] \in Nat /\ stack[magic] \in Seq(BOOLEAN) /\ out[magic] \in Nat
      /\ peak[magic] \in Nat /\ m \in Nat
  BY <1>0, ClassTypes DEF TypeOK
<1>2. h \in Nat /\ peak[magic] <= h /\ m <= h
  BY <1>1 DEF Larger
<1>3. /\ sz_max' = [sz_max EXCEPT ![magic] = m] /\ peak' = [peak EXCEPT ![magic] = h]
      /\ pc' = "alloc" /\ i' = 0 /\ shk' = 0 /\ max_free' = 0 /\ got' = 0
      /\ UNCHANGED <<mng_max, direct, made, granted, elems, magic, reported>>
  BY DEF Grant
<1>4. retry' \in BOOLEAN
  BY DEF Grant
<1> HIDE DEF m, h
<1>5. TypeOK'
  BY <1>0, <1>1, <1>2, <1>3, <1>4 DEF TypeOK, Pcs, elems
<1>6. ASSUME NEW d \in Classes PROVE SoundAt(d)'
  <2>1. CASE d = magic
    <3>1. Sound(Size[magic], m, sz_total[magic], sz_free[magic], stack[magic], out[magic], h)
      BY <1>0, <1>1, <1>2, SoundLimit DEF SoundAt
    <3>2. sz_max'[magic] = m /\ peak'[magic] = h
      BY <1>0, <1>1, <1>3 DEF TypeOK
    <3> QED BY <1>3, <2>1, <3>1, <3>2 DEF SoundAt, elems
  <2>2. CASE d # magic
    <3>1. sz_max'[d] = sz_max[d] /\ peak'[d] = peak[d]
      BY <1>0, <1>3, <2>2 DEF TypeOK
    <3> QED BY <1>0, <1>3, <3>1, SoundFrame DEF elems
  <2> QED BY <2>1, <2>2
<1>7. VisitOK' /\ CountersSound'
  BY <1>0, <1>3 DEF VisitOK, CountersSound
<1> QED BY <1>5, <1>6, <1>7, IInvNext

\* A buffer comes back to its class.
LEMMA FreeIInv == ASSUME IInv, NEW c \in Classes, Free(c) PROVE IInv'
<1>0. TypeOK /\ VisitOK /\ CountersSound /\ \A d \in Classes : SoundAt(d)
  BY IInvByClass
<1> DEFINE r == Append(stack[c], TRUE)
<1>1. /\ Size[c] \in Nat /\ sz_max[c] \in Nat /\ sz_total[c] \in Nat /\ sz_free[c] \in Nat
      /\ stack[c] \in Seq(BOOLEAN) /\ out[c] \in Nat \ {0} /\ peak[c] \in Nat
  BY <1>0, ClassTypes DEF Free
<1>2. /\ Size[c] <= sz_total[c]
      /\ Sound(Size[c], sz_max[c], sz_total[c] - Size[c], sz_free[c] + Size[c], r,
               out[c] - 1, peak[c])
  BY <1>0, <1>1, SoundFree DEF SoundAt
<1>3. /\ stack' = [stack EXCEPT ![c] = r]
      /\ sz_free' = [sz_free EXCEPT ![c] = sz_free[c] + Size[c]]
      /\ out' = [out EXCEPT ![c] = out[c] - 1]
      /\ UNCHANGED <<mng_max, direct, made, sz_max, peak, granted, pc, magic, retry, i, shk,
                     max_free, got>>
      /\ pc = "idle"
  BY DEF Free, quota, shrink
<1>4. sz_total' = [sz_total EXCEPT ![c] = sz_total[c] - Size[c]]
  <2>1. sz_total' = [sz_total EXCEPT ![c] = IF sz_total[c] < Size[c] THEN sz_total[c]
                                            ELSE sz_total[c] - Size[c]]
    BY DEF Free
  <2>2. ~(sz_total[c] < Size[c])
    BY <1>1, <1>2
  <2> QED BY <2>1, <2>2
<1>5. reported' = {}
  BY <1>1, <1>2 DEF Free, Flag
<1>6. /\ r \in Seq(BOOLEAN) /\ sz_total[c] - Size[c] \in Nat /\ sz_free[c] + Size[c] \in Nat
      /\ out[c] - 1 \in Nat
  <2>1. r \in Seq(BOOLEAN)
    BY <1>1, CountPush
  <2> QED BY <1>1, <1>2, <2>1
<1> HIDE DEF r
<1>7. TypeOK'
  <2>1. sz_free' \in [Classes -> Nat] /\ sz_total' \in [Classes -> Nat] /\ out' \in [Classes -> Nat]
    BY <1>0, <1>3, <1>4, <1>6 DEF TypeOK
  <2>2. stack' \in [Classes -> Seq(BOOLEAN)]
    BY <1>0, <1>3, <1>6 DEF TypeOK
  <2> QED BY <1>0, <1>3, <1>5, <2>1, <2>2 DEF TypeOK, Pcs
<1>8. ASSUME NEW d \in Classes PROVE SoundAt(d)'
  <2>1. CASE d = c
    <3>1. /\ sz_total'[c] = sz_total[c] - Size[c] /\ sz_free'[c] = sz_free[c] + Size[c]
          /\ stack'[c] = r /\ out'[c] = out[c] - 1
      BY <1>0, <1>3, <1>4 DEF TypeOK
    <3> QED BY <1>2, <1>3, <2>1, <3>1 DEF SoundAt
  <2>2. CASE d # c
    <3>1. /\ sz_total'[d] = sz_total[d] /\ sz_free'[d] = sz_free[d]
          /\ stack'[d] = stack[d] /\ out'[d] = out[d]
      BY <1>0, <1>3, <1>4, <2>2 DEF TypeOK
    <3> QED BY <1>0, <1>3, <3>1, SoundFrame
  <2> QED BY <2>1, <2>2
<1>9. VisitOK' /\ CountersSound'
  BY <1>3, <1>5 DEF VisitOK, CountersSound
<1> QED BY <1>7, <1>8, <1>9, IInvNext

-----------------------------------------------------------------------------
\* Every step keeps the invariant.
LEMMA NextIInv == ASSUME IInv, [Next]_vars PROVE IInv'
<1>1. CASE UNCHANGED vars
  <2>1. TypeOK /\ VisitOK /\ CountersSound /\ \A c \in Classes : SoundAt(c)
    BY IInvByClass
  <2>2. UNCHANGED <<mng_max, direct, quota, elems, pc, magic, retry, reported, shrink>>
    BY <1>1 DEF vars, call
  <2>3. TypeOK' /\ VisitOK' /\ CountersSound'
    BY <2>1, <2>2 DEF TypeOK, VisitOK, CountersSound, quota, elems, shrink
  <2>4. \A c \in Classes : SoundAt(c)'
    BY <2>1, <2>2, SoundFrame DEF quota, elems
  <2> QED BY <2>3, <2>4, IInvNext
<1>2. CASE Calls
  BY <1>2, QuietIInv, FreeIInv DEF Calls
<1>3. CASE Steps
  BY <1>3, QuietIInv, OpenIInv, PickUpIInv, MallocIInv, GivenBackIInv, LowerIInv, ReleaseIInv,
     GrantIInv DEF Steps
<1> QED BY <1>1, <1>2, <1>3 DEF Next

\* The inductive invariant of the memory pool.
THEOREM Invariance == Spec => []IInv
<1>1. Init => IInv
  BY InitIInv
<1>2. IInv /\ [Next]_vars => IInv'
  BY NextIInv
<1> QED BY <1>1, <1>2, PTL DEF Spec

\* The counters are exact, for every table of classes and every history of
\* allocations, failures, frees and shrinks (mem_pool.cc 18-144).
THEOREM ExactAccounting == Spec => []Accounting
<1>1. IInv => Accounting
  BY DEF IInv
<1> QED BY <1>1, Invariance, PTL

\* The attributes SZ_FREE_BAD1, SZ_FREE_BAD3, SZ_FREE_BAD4 and SZ_TOTAL_BAD
\* are never reported.
THEOREM NoCounterBug == Spec => []CountersSound
<1>1. IInv => CountersSound
  BY DEF IInv
<1> QED BY <1>1, Invariance, PTL

\* A class never holds more memory than the highest limit it has had,
\* although handing out an old element never looks at the limit.
THEOREM MemoryBounded == Spec => []HeldBounded
<1>1. IInv => HeldBounded
  <2> SUFFICES ASSUME IInv, NEW c \in Classes PROVE HeldAt(c)
    BY DEF HeldBounded
  <2>1. TypeOK /\ SoundAt(c)
    BY IInvByClass
  <2> QED BY <2>1, ClassTypes, SoundHeld DEF SoundAt, HeldAt
<1> QED BY <1>1, Invariance, PTL

-----------------------------------------------------------------------------
(***************************************************************************)
(* Shrink loses no limit.                                                  *)
(***************************************************************************)

\* The limit of one class changes, and the sum by as much.
LEMMA LimitsChange ==
  ASSUME sz_max \in [Classes -> Nat], NEW c \in Classes, NEW m \in Nat,
         sz_max' = [sz_max EXCEPT ![c] = m]
  PROVE  Limits \in Int /\ Limits' \in Int /\ Limits' = Limits + m - sz_max[c]
<1> DEFINE f == [k \in 1 .. nr_magics |-> sz_max[k - 1]]
           h == [k \in 1 .. nr_magics |-> sz_max'[k - 1]]
<1>1. nr_magics \in Nat /\ c + 1 \in 1 .. nr_magics /\ (c + 1) - 1 = c
  BY ClassAssumption DEF Classes
<1>2. \A k \in 1 .. nr_magics : k - 1 \in Classes
  BY <1>1 DEF Classes
<1>3. \A k \in 1 .. nr_magics : f[k] \in Int /\ h[k] \in Int
  BY <1>2
<1>4. \A k \in 1 .. nr_magics : k # c + 1 => h[k] = f[k]
  BY <1>1, <1>2 DEF Classes
<1>5. h[c + 1] = m /\ f[c + 1] = sz_max[c]
  BY <1>1
<1>6. Limits = SumTo(f, nr_magics) /\ Limits' = SumTo(h, nr_magics)
  BY DEF Limits
<1> HIDE DEF f, h
<1>7. /\ SumTo(f, nr_magics) \in Int /\ SumTo(h, nr_magics) \in Int
      /\ SumTo(h, nr_magics) = SumTo(f, nr_magics) + h[c + 1] - f[c + 1]
  BY <1>1, <1>3, <1>4, SumChange
<1> QED BY <1>5, <1>6, <1>7

\* The limits of all classes come to a natural number, and to 0 at first.
LEMMA LimitsNat ==
  ASSUME sz_max \in [Classes -> Nat]
  PROVE  /\ Limits \in Nat
         /\ (\A c \in Classes : sz_max[c] = 0) => Limits = 0
<1> DEFINE f == [k \in 1 .. nr_magics |-> sz_max[k - 1]]
<1>1. nr_magics \in Nat \ {0}
  BY ClassAssumption
<1>2. \A k \in 1 .. nr_magics : k - 1 \in Classes
  BY <1>1 DEF Classes
<1>3. \A k \in 1 .. nr_magics : f[k] \in Nat
  BY <1>2
<1>4. Limits = SumTo(f, nr_magics)
  BY DEF Limits
<1>5. ASSUME \A c \in Classes : sz_max[c] = 0 PROVE Limits = 0
  <2>0. \A k \in 1 .. nr_magics : f[k] = 0
    BY <1>2, <1>5
  <2> HIDE DEF f
  <2>1. (\A k \in 1 .. nr_magics - 1 : f[k] = 0) /\ f[nr_magics] = 0
    BY ONLY <1>1, <2>0
  <2>2. SumTo(f, nr_magics) = (nr_magics - 1) * 0 + 0
    BY <1>1, <2>1, SumEqual
  <2> QED BY <1>1, <1>4, <2>2
<1> HIDE DEF f
<1> QED BY <1>1, <1>3, <1>4, <1>5, SumNat

\* Creating a pool grants a limit (mem_pool.cc 203-216).
LEMMA GetPoolLimits ==
  ASSUME TypeOK, LimitsOK, NEW c \in Classes, GetPool(c)
  PROVE  /\ made' = made \union {c} /\ (\A d \in Classes \ made' : sz_max'[d] = 0)
         /\ \E s \in Nat : Limits' = Limits + s /\ granted' = granted + s
<1>0. sz_max \in [Classes -> Nat] /\ granted \in Nat /\ Limits \in Nat
  BY LimitsNat DEF TypeOK
<1>1. CASE c \in made
  <2>1. made' = made /\ sz_max' = sz_max /\ granted' = granted
    BY <1>1 DEF GetPool, quota
  <2>2. Limits' = Limits
    BY <2>1 DEF Limits
  <2>3. Limits' = Limits + 0 /\ granted' = granted + 0
    BY <1>0, <2>1, <2>2
  <2> QED BY <1>1, <2>1, <2>3 DEF LimitsOK
<1>2. CASE c \notin made
  <2> DEFINE share == mng_max \div nr_magics
  <2>1. share \in Nat
    BY ClassAssumption, DivNat DEF TypeOK
  <2> HIDE DEF share
  <2>2. /\ made' = made \union {c} /\ granted' = granted + share
        /\ sz_max' = [sz_max EXCEPT ![c] = share]
    BY <1>2 DEF GetPool, share
  <2>3. sz_max[c] = 0
    BY <1>2 DEF LimitsOK
  <2>4. Limits' \in Int /\ Limits' = Limits + share - sz_max[c]
    BY <1>0, <2>1, <2>2, LimitsChange
  <2>5. \A d \in Classes \ made' : sz_max'[d] = 0
    BY <1>0, <2>2 DEF LimitsOK
  <2>6. Limits' = Limits + share
    BY <1>0, <2>1, <2>3, <2>4
  <2> QED BY <2>1, <2>2, <2>5, <2>6
<1> QED BY <1>1, <1>2

\* Steps that leave the limits alone and have nothing collected.
LEMMA LimitsQuiet ==
  ASSUME TypeOK, LimitsOK, QuotaNeverLost, UNCHANGED quota,
         pc \in {"idle", "getPool", "alloc"} \/ shk = 0, shk' = 0, pc' # "collect", pc # "collect",
         pc' \notin {"shrink", "release"},
         pc' \notin {"idle", "getPool"} => magic' = magic /\ pc \notin {"idle", "getPool"}
  PROVE  LimitsOK' /\ QuotaNeverLost'
<1>1. Limits' = Limits /\ granted' = granted /\ made' = made /\ sz_max' = sz_max
  BY DEF Limits, quota
<1>2. shk = 0
  BY DEF LimitsOK
<1>3. QuotaNeverLost'
  BY <1>1, <1>2 DEF QuotaNeverLost
<1>4. LimitsOK'
  BY <1>1 DEF LimitsOK
<1> QED BY <1>3, <1>4

\* Every step keeps the limits.
LEMMA NextLimits ==
  ASSUME IInv, LimitsOK, QuotaNeverLost, [Next]_vars
  PROVE  LimitsOK' /\ QuotaNeverLost'
<1>0. /\ TypeOK /\ VisitOK /\ sz_max \in [Classes -> Nat] /\ granted \in Nat /\ Limits \in Nat
      /\ shk \in Nat /\ got \in Nat /\ magic \in Classes /\ made \subseteq Classes
  BY LimitsNat DEF IInv, TypeOK
<1>1. CASE UNCHANGED vars
  BY <1>1 DEF vars, call, quota, shrink, LimitsOK, QuotaNeverLost, Limits
<1>2. CASE Calls
  <2>1. /\ UNCHANGED quota /\ pc = "idle" /\ pc' \in {"idle", "getPool"} /\ shk' = shk
    BY <1>2 DEF Calls, AllocCall, AllocDirect, Free, FreeDirect, SetMaxSize, shrink
  <2>2. shk = 0
    BY <2>1 DEF LimitsOK
  <2> QED BY <1>0, <2>1, <2>2, LimitsQuiet
<1>3. CASE OpenPoolFail \/ PickUp \/ Malloc \/ MallocFail \/ NewObjFail \/ (Exceed /\ retry)
  <2>1. /\ UNCHANGED quota /\ pc \in {"getPool", "alloc"} /\ pc' = "idle" /\ shk' = 0
    BY <1>3 DEF OpenPoolFail, PickUp, Malloc, MallocFail, NewObjFail, Exceed, HandOut, Return
  <2> QED BY <1>0, <2>1, LimitsQuiet
<1>4. CASE NoSpace
  <2>1. /\ UNCHANGED quota /\ pc = "grant" /\ shk = 0 /\ pc' = "idle" /\ shk' = 0
    BY <1>4 DEF NoSpace, Return
  <2> QED BY <1>0, <2>1, LimitsQuiet
<1>5. CASE Exceed /\ ~retry
  <2>1. /\ UNCHANGED quota /\ pc = "alloc" /\ pc' = "visit" /\ UNCHANGED <<magic, shk>>
    BY <1>5 DEF Exceed
  <2>2. shk = 0
    BY <2>1 DEF LimitsOK
  <2> QED BY <1>0, <2>1, <2>2, LimitsQuiet
<1>6. CASE OpenPool
  <2>1. GetPool(magic) /\ pc = "getPool" /\ pc' = "alloc" /\ UNCHANGED <<magic, shk, got>>
    BY <1>6 DEF OpenPool, shrink
  <2>2. /\ made' = made \union {magic} /\ (\A d \in Classes \ made' : sz_max'[d] = 0)
        /\ \E s \in Nat : Limits' = Limits + s /\ granted' = granted + s
    BY <1>0, <2>1, GetPoolLimits
  <2>3. LimitsOK'
    BY <2>1, <2>2 DEF LimitsOK
  <2>4. QuotaNeverLost'
    <3>1. Limits + shk + 0 >= granted /\ shk' = shk
      BY <2>1 DEF QuotaNeverLost
    <3>2. PICK s \in Nat : Limits' = Limits + s /\ granted' = granted + s
      BY <2>2
    <3>3. Limits' + shk' + 0 >= granted'
      BY <1>0, <3>1, <3>2
    <3> QED BY <2>1, <3>3 DEF QuotaNeverLost
  <2> QED BY <2>3, <2>4
<1>7. CASE Visit
  <2>1. GetPool(i) /\ pc = "visit" /\ pc' = "shrink" /\ UNCHANGED <<magic, i, shk, got>> /\ i \in Classes
    BY <1>0, <1>7 DEF Visit, shrink, VisitOK, TypeOK
  <2>2. /\ made' = made \union {i} /\ (\A d \in Classes \ made' : sz_max'[d] = 0)
        /\ \E s \in Nat : Limits' = Limits + s /\ granted' = granted + s
    BY <1>0, <2>1, GetPoolLimits
  <2>3. LimitsOK'
    BY <2>1, <2>2 DEF LimitsOK
  <2>4. QuotaNeverLost'
    <3>1. Limits + shk + 0 >= granted /\ shk' = shk
      BY <2>1 DEF QuotaNeverLost
    <3>2. PICK s \in Nat : Limits' = Limits + s /\ granted' = granted + s
      BY <2>2
    <3>3. Limits' + shk' + 0 >= granted'
      BY <1>0, <3>1, <3>2
    <3> QED BY <2>1, <3>3 DEF QuotaNeverLost
  <2> QED BY <2>3, <2>4
<1>8. CASE VisitFail \/ ShrinkStart \/ Release \/ ShrinkEnd
  <2>1. /\ UNCHANGED <<made, sz_max, granted, magic, shk>>
        /\ pc \in {"visit", "shrink", "release"} /\ pc' \in {"visit", "release", "grant"}
        /\ pc' = "release" => i' = i /\ pc \in {"shrink", "release"}
    BY <1>8 DEF VisitFail, ShrinkStart, Release, ShrinkEnd, quota, shrink
  <2>2. Limits' = Limits
    BY <2>1 DEF Limits
  <2>3. LimitsOK'
    BY <2>1 DEF LimitsOK
  <2>4. QuotaNeverLost'
    BY <2>1, <2>2 DEF QuotaNeverLost
  <2> QED BY <2>3, <2>4
<1>9. CASE ShrinkSpace \/ ReleaseEnd
  <2>0. i \in Classes /\ i \in made /\ sz_max[i] \in Nat
    BY <1>0, <1>9 DEF ShrinkSpace, ReleaseEnd, TypeOK, LimitsOK
  <2>1. /\ UNCHANGED <<made, granted, magic, i, shk>> /\ pc' = "collect" /\ pc \in {"shrink", "release"}
    BY <1>9 DEF ShrinkSpace, ReleaseEnd
  <2>2. got' \in Nat /\ sz_max' \in [Classes -> Nat]
    BY NextIInv DEF IInv, TypeOK
  <2>3. PICK m : m = sz_max'[i]
    OBVIOUS
  <2>4. m \in Nat /\ sz_max' = [sz_max EXCEPT ![i] = m] /\ m + got' >= sz_max[i]
    <3>1. CASE ShrinkSpace
      <4>1. sz_max' = [sz_max EXCEPT ![i] = sz_max[i] - Spare(i)] /\ got' = Spare(i)
        BY <3>1 DEF ShrinkSpace
      <4>2. m = sz_max[i] - Spare(i)
        BY <1>0, <2>0, <2>3, <4>1
      <4> QED BY <2>0, <2>2, <2>3, <4>1, <4>2
    <3>2. CASE ReleaseEnd
      <4> DEFINE s == IF sz_max[i] < got THEN sz_max[i] ELSE sz_max[i] - got
      <4>1. sz_max' = [sz_max EXCEPT ![i] = s] /\ got' = got
        BY <3>2 DEF ReleaseEnd
      <4>2. m = s
        BY <1>0, <2>0, <2>3, <4>1
      <4> QED BY <1>0, <2>0, <2>2, <2>3, <4>1, <4>2
    <3> QED BY <1>9, <3>1, <3>2
  <2>5. Limits' \in Int /\ Limits' = Limits + m - sz_max[i]
    BY <1>0, <2>0, <2>4, LimitsChange
  <2>6. QuotaNeverLost'
    BY <1>0, <2>0, <2>1, <2>2, <2>4, <2>5 DEF QuotaNeverLost
  <2>7. LimitsOK'
    BY <1>0, <2>0, <2>1, <2>4 DEF LimitsOK
  <2> QED BY <2>6, <2>7
<1>10. CASE Collect
  <2>1. /\ UNCHANGED <<made, sz_max, granted, magic>> /\ pc = "collect" /\ shk' = shk + got
        /\ pc' \in {"grant", "visit"}
    BY <1>10 DEF Collect, quota
  <2>2. Limits' = Limits
    BY <2>1 DEF Limits
  <2>3. LimitsOK'
    BY <2>1 DEF LimitsOK
  <2>4. QuotaNeverLost'
    BY <1>0, <2>1, <2>2 DEF QuotaNeverLost
  <2> QED BY <2>3, <2>4
<1>11. CASE Grant
  <2>1. /\ UNCHANGED <<made, granted, magic>> /\ pc = "grant" /\ pc' = "alloc" /\ shk' = 0
        /\ sz_max' = [sz_max EXCEPT ![magic] = sz_max[magic] + shk] /\ magic \in made
    BY <1>11 DEF Grant, LimitsOK
  <2>2. sz_max[magic] \in Nat /\ sz_max[magic] + shk \in Nat
    BY <1>0
  <2>3. Limits' \in Int /\ Limits' = Limits + (sz_max[magic] + shk) - sz_max[magic]
    BY <1>0, <2>1, <2>2, LimitsChange
  <2>4. QuotaNeverLost'
    BY <1>0, <2>1, <2>2, <2>3 DEF QuotaNeverLost
  <2>5. LimitsOK'
    BY <1>0, <2>1 DEF LimitsOK
  <2> QED BY <2>4, <2>5
<1> QED BY <1>1, <1>2, <1>3, <1>4, <1>5, <1>6, <1>7, <1>8, <1>9, <1>10, <1>11 DEF Next, Steps

\* Shrink loses none of the limit that the pools were given, whatever part of it
\* is on its way from one class to another (mem_pool.cc 81-144, 218-251).
THEOREM LimitsKept == Spec => []QuotaNeverLost
<1>1. Init => LimitsOK /\ QuotaNeverLost
  <2> SUFFICES ASSUME Init PROVE LimitsOK /\ QuotaNeverLost
    OBVIOUS
  <2>1. sz_max \in [Classes -> Nat] /\ (\A c \in Classes : sz_max[c] = 0)
    BY DEF Init
  <2>2. Limits = 0
    BY <2>1, LimitsNat
  <2> QED BY <2>1, <2>2 DEF Init, LimitsOK, QuotaNeverLost
<1>2. IInv /\ (LimitsOK /\ QuotaNeverLost) /\ [Next]_vars => (LimitsOK /\ QuotaNeverLost)'
  BY NextLimits
<1> QED BY <1>1, <1>2, Invariance, PTL DEF Spec

-----------------------------------------------------------------------------
(***************************************************************************)
(* The class of a request.                                                 *)
(***************************************************************************)

\* Facts about the table that the steps below use.
LEMMA ClassTable ==
  /\ nr_magics - 1 \in Classes /\ 0 \in Classes
  /\ biggest_magic \in Nat
  /\ \A c \in Classes : Size[c] \in Nat /\ c \in Int /\ 0 <= c /\ c <= nr_magics - 1
  /\ \A c \in Classes : Size[c] <= biggest_magic
  /\ 0 <= nr_magics - 1 /\ \A c \in Classes : ~(c < 0)
<1>1. nr_magics \in Nat /\ nr_magics >= 1
  BY ClassAssumption
<1>2. nr_magics - 1 \in Classes /\ 0 \in Classes
  BY <1>1 DEF Classes
<1>3. \A c \in Classes : Size[c] \in Nat /\ c \in Int /\ 0 <= c /\ c <= nr_magics - 1
  BY <1>1, ClassAssumption DEF Classes
<1>4. \A c \in Classes : Size[c] <= biggest_magic
  BY <1>1, <1>2, <1>3, ClassAssumption DEF biggest_magic
<1>5. 0 <= nr_magics - 1 /\ \A c \in Classes : ~(c < 0)
  BY <1>1, <1>3
<1> QED BY <1>2, <1>3, <1>4, <1>5 DEF biggest_magic

\* The middle of a window wider than one class lies in it, below its end.
LEMMA MidInside ==
  ASSUME low \in Classes, high \in Classes, low < high
  PROVE  mid \in Classes /\ low <= mid /\ mid < high
<1>1. low \in Int /\ high \in Int /\ 0 <= low /\ high <= nr_magics - 1 /\ nr_magics \in Nat
  BY ClassTable, ClassAssumption
<1>2. mid \in Int /\ low <= mid /\ mid < high
  BY <1>1 DEF mid
<1> QED BY <1>1, <1>2 DEF Classes

\* The start of a call (mem_pool.cc 167-172).
LEMMA SearchInitIInv == SearchInit => SearchIInv
<1> SUFFICES ASSUME SearchInit PROVE SearchIInv
  OBVIOUS
<1>1. sz \in Nat /\ low = 0 /\ high = nr_magics - 1 /\ ret = -1 /\ done = FALSE
  BY DEF SearchInit
<1>2. WindowOK
  <2>1. sz <= biggest_magic => sz <= Size[high]
    BY <1>1 DEF biggest_magic
  <2> QED BY <1>1, <2>1, ClassTable DEF WindowOK
<1> QED BY <1>1, <1>2 DEF SearchIInv, SmallestFit

\* Size grows with the class.
LEMMA Sorted == \A c, d \in Classes : c <= d => Size[c] <= Size[d]
BY ClassAssumption, ClassTable

\* A round of the loop keeps the class of the request inside the window
\* (mem_pool.cc 173-194).
LEMMA RoundIInv == ASSUME SearchIInv, Round PROVE SearchIInv' /\ high' - low' < high - low
<1>0. /\ WindowOK /\ ~done /\ sz <= biggest_magic /\ low < high
      /\ UNCHANGED <<sz, ret, done>>
  BY DEF SearchIInv, Round, GoLow, GoHigh, Searching
<1>1. low \in Classes /\ high \in Classes /\ mid \in Classes /\ low <= mid /\ mid < high
  BY <1>0, MidInside DEF WindowOK
<1>2. low \in Int /\ high \in Int /\ mid \in Int /\ Size[mid] \in Nat /\ sz \in Nat
  BY <1>0, <1>1, ClassTable DEF WindowOK
<1>3. SmallestFit'
  BY <1>0 DEF SmallestFit
<1>4. CASE GoLow
  <2>1. high' = mid /\ low' = low /\ sz < Size[mid]
    BY <1>1, <1>2, <1>4 DEF GoLow
  <2>2. WindowOK'
    BY <1>0, <1>1, <1>2, <2>1 DEF WindowOK
  <2> QED BY <1>1, <1>2, <1>3, <2>1, <2>2 DEF SearchIInv
<1>5. CASE GoHigh
  <2>1. /\ high' = high /\ Size[mid] < sz
        /\ low' \in Classes /\ low < low' /\ low' <= high /\ low' <= mid + 1
    <3>1. low' = IF low < mid THEN mid ELSE low + 1
      BY <1>5 DEF GoHigh
    <3>2. nr_magics \in Nat /\ high <= nr_magics - 1 /\ 0 <= low
      BY <1>1, ClassTable, ClassAssumption
    <3>3. low' \in Int /\ low < low' /\ low' <= high /\ low' <= mid + 1
      BY <3>1, <1>1, <1>2
    <3>4. low' \in Classes
      BY <3>2, <3>3, <1>2 DEF Classes
    <3> QED BY <3>3, <3>4, <1>5 DEF GoHigh
  <2>2. ASSUME NEW c \in Classes, c < low' PROVE Size[c] < sz
    <3>1. c \in Int /\ c <= mid /\ Size[c] \in Nat
      BY <2>1, <2>2, <1>2, ClassTable
    <3>2. Size[c] <= Size[mid]
      BY <3>1, <1>1, Sorted
    <3> QED BY <3>1, <3>2, <2>1, <1>2
  <2>3. WindowOK'
    BY <1>0, <1>1, <2>1, <2>2 DEF WindowOK
  <2>4. high' - low' < high - low
    <3>1. low' \in Int
      BY <2>1, ClassTable
    <3>2. low < low' /\ low \in Int /\ high \in Int
      BY <2>1, <1>2
    <3>3. \A a, b, c \in Int : a < b => c - b < c - a
      OBVIOUS
    <3>4. high - low' < high - low
      BY <3>1, <3>2, <3>3
    <3> QED BY <2>1, <3>4
  <2> QED BY <1>3, <2>3, <2>4 DEF SearchIInv
<1> QED BY <1>4, <1>5 DEF Round

\* Every step keeps the window and answers with the smallest class that
\* fits (mem_pool.cc 167-201).
LEMMA SearchNextIInv == ASSUME SearchIInv, [SearchNext]_searchVars PROVE SearchIInv'
<1>0. WindowOK /\ SmallestFit
  BY DEF SearchIInv
<1>1. CASE UNCHANGED searchVars
  BY <1>1 DEF searchVars, SearchIInv, WindowOK, SmallestFit
<1>2. CASE TooBig
  <2>1. ret' = -1 /\ done' = TRUE /\ UNCHANGED <<sz, low, high>> /\ sz > biggest_magic
    BY <1>2 DEF TooBig, Answer
  <2> QED BY <1>0, <2>1 DEF SearchIInv, WindowOK, SmallestFit
<1>3. CASE Hit
  <2>1. /\ ret' = mid /\ done' = TRUE /\ UNCHANGED <<sz, low, high>>
        /\ sz = Size[mid] /\ low < high /\ sz <= biggest_magic
    BY <1>3 DEF Hit, Searching, Answer
  <2>2. mid \in Classes
    BY <1>0, <2>1, MidInside DEF WindowOK
  <2>3. \A d \in Classes : d < mid => Size[d] < Size[mid]
    BY <2>2, ClassAssumption
  <2>4. IsClassOf(mid, sz)
    BY <2>1, <2>2, <2>3, ClassTable DEF IsClassOf
  <2>5. sz \in Nat /\ ~(sz > biggest_magic)
    BY <1>0, <2>1, ClassTable DEF WindowOK
  <2> QED BY <1>0, <2>1, <2>2, <2>4, <2>5 DEF SearchIInv, WindowOK, SmallestFit
<1>4. CASE Round
  BY <1>4, RoundIInv
<1>5. CASE Found
  <2>1. /\ ret' = low /\ done' = TRUE /\ UNCHANGED <<sz, low, high>>
        /\ low >= high /\ sz <= biggest_magic
    BY <1>5 DEF Found, Answer
  <2>2. low = high /\ low \in Classes /\ sz \in Nat
    BY <1>0, <2>1, ClassTable DEF WindowOK
  <2>3. IsClassOf(low, sz)
    BY <1>0, <2>1, <2>2 DEF WindowOK, IsClassOf
  <2>4. ~(sz > biggest_magic)
    BY <2>1, <2>2, ClassTable
  <2> QED BY <1>0, <2>1, <2>2, <2>3, <2>4 DEF SearchIInv, WindowOK, SmallestFit
<1>6. CASE Again
  <2>1. sz' \in Nat /\ low' = 0 /\ high' = nr_magics - 1 /\ ret' = -1 /\ done' = FALSE
    BY <1>6 DEF Again
  <2>2. WindowOK'
    <3>1. sz' <= biggest_magic => sz' <= Size[high']
      BY <2>1 DEF biggest_magic
    <3> QED BY <2>1, <3>1, ClassTable DEF WindowOK
  <2> QED BY <2>1, <2>2 DEF SearchIInv, SmallestFit
<1> QED BY <1>1, <1>2, <1>3, <1>4, <1>5, <1>6 DEF SearchNext, Step

\* The window always holds the class of the request.
THEOREM WindowInvariant == SearchSpec => []SearchIInv
<1>1. SearchInit => SearchIInv
  BY SearchInitIInv
<1>2. SearchIInv /\ [SearchNext]_searchVars => SearchIInv'
  BY SearchNextIInv
<1> QED BY <1>1, <1>2, PTL DEF SearchSpec

\* For every table of growing sizes and every request, get_magic returns
\* the smallest class that holds it, or -1 when none does (mem_pool.cc 167).
THEOREM GetMagicCorrect == SearchSpec => []SmallestFit
<1>1. SearchIInv => SmallestFit
  BY DEF SearchIInv
<1> QED BY <1>1, WindowInvariant, PTL

\* Every round narrows the window: the loop of get_magic ends after at most
\* nr_magics - 1 rounds (mem_pool.cc 173).
THEOREM SearchNarrows == SearchSpec => Narrows
<1>1. SearchIInv /\ [SearchNext]_searchVars => [Round => high' - low' < high - low]_searchVars
  BY RoundIInv
<1> QED BY <1>1, WindowInvariant, PTL DEF SearchSpec, Narrows
=============================================================================
