--------------------------- MODULE KnvSplitProofs ---------------------------
(***************************************************************************)
(* Proofs about KnvSplit, for every set of bodies, every size and every    *)
(* order, loss and repetition of packets.                                  *)
(***************************************************************************)
EXTENDS KnvSplit, SumsProofs, TLAPS

-----------------------------------------------------------------------------
(***************************************************************************)
(* Lengths.                                                                *)
(***************************************************************************)

\* A varint has one to five bytes, and not fewer for a larger number.
LEMMA VintLenRange ==
  /\ \A v \in Int : VintLen(v) \in 1 .. 5
  /\ \A v, w \in Int : v <= w => VintLen(v) <= VintLen(w)
BY DEF VintLen

\* The length of a field is a number, and grows with that of the value.
LEMMA StrFieldLenNat ==
  ASSUME NEW tag \in Nat, NEW len \in Nat
  PROVE  /\ StrFieldLen(tag, len) \in Nat
         /\ StrFieldLen(tag, len) > len
         /\ \A more \in Nat : len <= more => StrFieldLen(tag, len) <= StrFieldLen(tag, more)
<1>1. TagLen(tag) \in 1 .. 5
  BY VintLenRange DEF TagLen
<1>2. VintLen(len) \in 1 .. 5
  BY VintLenRange
<1>3. \A more \in Nat : VintLen(more) \in 1 .. 5 /\ (len <= more => VintLen(len) <= VintLen(more))
  BY VintLenRange
<1> QED BY <1>1, <1>2, <1>3 DEF StrFieldLen

\* Tags are numbers.
LEMMA TagsNat ==
  /\ KNV_PKG_TAG \in Nat /\ KNV_PKG_HDR_TAG \in Nat /\ KNV_PKG_BDY_TAG \in Nat
  /\ KNV_PKG_PART_TAG_BASE \in Nat
BY DEF KNV_PKG_TAG, KNV_PKG_HDR_TAG, KNV_PKG_BDY_TAG, KNV_PKG_PART_TAG_BASE

\* The length of the header.
LEMMA HeaderSizeNat ==
  ASSUME NEW s \in Senders
  PROVE  HeaderSize(s) \in Nat
<1>1. HeaderFields \in Nat
  BY LensAssumption
<1>2. \A tag \in Nat : \A v \in Nat \union {NoField} : IntFieldLen(tag, v) \in Nat
  BY VintLenRange DEF IntFieldLen, TagLen, NoField
<1>3. /\ IntFieldLen(KNV_PKG_HDR_RET_TAG, s.ret) \in Nat
      /\ IntFieldLen(KNV_PKG_HDR_TOTAL_SPLIT_COUNT, s.total) \in Nat
      /\ IntFieldLen(KNV_PKG_HDR_CURR_SPLIT_INDEX, s.curr) \in Nat
  <2>1. s.ret \in Nat \union {NoField} /\ s.total \in Nat \union {NoField} /\ s.curr \in Nat \union {NoField}
    BY DEF Senders
  <2>2. KNV_PKG_HDR_RET_TAG \in Nat /\ KNV_PKG_HDR_TOTAL_SPLIT_COUNT \in Nat /\ KNV_PKG_HDR_CURR_SPLIT_INDEX \in Nat
    BY DEF KNV_PKG_HDR_RET_TAG, KNV_PKG_HDR_TOTAL_SPLIT_COUNT, KNV_PKG_HDR_CURR_SPLIT_INDEX
  <2> QED BY <1>2, <2>1, <2>2
<1>4. (IF s.err = 0 THEN 0 ELSE StrFieldLen(KNV_PKG_HDR_ERR_TAG, s.err)) \in Nat
  <2>1. s.err \in Nat /\ KNV_PKG_HDR_ERR_TAG \in Nat
    BY DEF Senders, KNV_PKG_HDR_ERR_TAG
  <2> QED BY <2>1, StrFieldLenNat
<1>5. KNV_PKG_HDR_TAG \in Nat
  BY DEF KNV_PKG_HDR_TAG
<1> DEFINE x == HeaderFields
    + IntFieldLen(KNV_PKG_HDR_RET_TAG, s.ret)
    + (IF s.err = 0 THEN 0 ELSE StrFieldLen(KNV_PKG_HDR_ERR_TAG, s.err))
    + IntFieldLen(KNV_PKG_HDR_TOTAL_SPLIT_COUNT, s.total)
    + IntFieldLen(KNV_PKG_HDR_CURR_SPLIT_INDEX, s.curr)
<1>6. x \in Nat
  BY <1>1, <1>3, <1>4
<1>7. HeaderSize(s) = StrFieldLen(KNV_PKG_HDR_TAG, x)
  BY DEF HeaderSize
<1> HIDE DEF x
<1> QED BY <1>5, <1>6, <1>7, StrFieldLenNat

\* The length of the children.
LEMMA ChildrenSizeNat ==
  ASSUME NEW s \in Senders
  PROVE  /\ BodiesSize(s) \in Nat /\ PartsSize(s) \in Nat
         /\ ChildrenSize(s) = BodiesSize(s) + PartsSize(s)
         /\ s.parts = <<>> => PartsSize(s) = 0
<1>1. s.bodies \in Seq(Bodies) /\ s.parts \in Seq(Seq(Values))
  BY DEF Senders
<1>2. BodiesSize(s) \in Nat
  <2>1. ASSUME NEW k \in 1 .. Len(s.bodies)
        PROVE  ChildLen(KNV_PKG_BDY_TAG, Whole(s.bodies[k])) \in Nat
    <3>1. s.bodies[k] \in Bodies
      BY <1>1
    <3>2. Whole(s.bodies[k]).len \in Nat /\ KNV_PKG_BDY_TAG \in Nat
      BY <3>1, BodiesAssumption DEF Whole, KNV_PKG_BDY_TAG
    <3> QED BY <3>2, StrFieldLenNat DEF ChildLen
  <2> DEFINE f == [k \in 1 .. Len(s.bodies) |-> ChildLen(KNV_PKG_BDY_TAG, Whole(s.bodies[k]))]
  <2>2. \A k \in 1 .. Len(s.bodies) : f[k] \in Nat
    BY <2>1
  <2>3. Len(s.bodies) \in Nat
    BY <1>1
  <2> HIDE DEF f
  <2>4. SumTo(f, Len(s.bodies)) \in Nat
    BY <2>2, <2>3, SumNat
  <2> QED BY <2>4 DEF BodiesSize, f
<1>3. PartsSize(s) \in Nat
  <2> DEFINE n == Len(s.parts)
             p(i) == s.parts[i]
             g(i) == [k \in 1 .. Len(p(i)) |-> ChildLen(KNV_PKG_PART_TAG_BASE + i - 1, p(i)[k])]
             f == [i \in 1 .. n |-> SumTo(g(i), Len(p(i)))]
  <2>1. ASSUME NEW i \in 1 .. n
        PROVE  SumTo(g(i), Len(p(i))) \in Nat
    <3>1. p(i) \in Seq(Values) /\ Len(p(i)) \in Nat
      BY <1>1
    <3>2. KNV_PKG_PART_TAG_BASE + i - 1 \in Nat
      BY <1>1 DEF KNV_PKG_PART_TAG_BASE
    <3>3. ASSUME NEW k \in 1 .. Len(p(i))
          PROVE  ChildLen(KNV_PKG_PART_TAG_BASE + i - 1, p(i)[k]) \in Nat
      <4>1. p(i)[k] \in Values
        BY <3>1
      <4>2. p(i)[k].len \in Nat
        BY <4>1 DEF Values
      <4> QED BY <4>2, <3>2, StrFieldLenNat DEF ChildLen
    <3>4. \A k \in 1 .. Len(p(i)) : g(i)[k] \in Nat
      BY <3>3
    <3> HIDE DEF g, p
    <3> QED BY <3>1, <3>4, SumNat
  <2>2. \A i \in 1 .. n : f[i] \in Nat
    BY <2>1
  <2>3. n \in Nat
    BY <1>1
  <2>4. PartsSize(s) = SumTo(f, n)
    BY DEF PartsSize
  <2> HIDE DEF f, n
  <2> QED BY <2>2, <2>3, <2>4, SumNat
<1>4. ChildrenSize(s) = BodiesSize(s) + PartsSize(s)
  BY DEF ChildrenSize, BodiesSize, PartsSize
<1>5. ASSUME s.parts = <<>> PROVE PartsSize(s) = 0
  <2> DEFINE f == [i \in 1 .. Len(s.parts) |->
           SumTo([k \in 1 .. Len(s.parts[i]) |->
                    ChildLen(KNV_PKG_PART_TAG_BASE + i - 1, s.parts[i][k])], Len(s.parts[i]))]
  <2>1. PartsSize(s) = SumTo(f, Len(s.parts))
    BY DEF PartsSize
  <2> HIDE DEF f
  <2>2. Len(s.parts) = 0
    BY <1>5
  <2>3. PICK g : IsSum(g, f, 0) /\ SumTo(f, 0) = g[0]
    BY SumIs
  <2>4. g[0] = 0
    BY <2>3 DEF IsSum
  <2> QED BY <2>1, <2>2, <2>3, <2>4
<1> QED BY <1>2, <1>3, <1>4, <1>5

\* The length of the tree.
LEMMA TreeSizeNat ==
  ASSUME NEW s \in Senders
  PROVE  TreeSize(s) \in Nat
<1>1. HeaderSize(s) + ChildrenSize(s) \in Nat
  BY HeaderSizeNat, ChildrenSizeNat
<1>2. KNV_PKG_TAG \in Nat
  BY DEF KNV_PKG_TAG
<1> QED BY <1>1, <1>2, StrFieldLenNat DEF TreeSize

\* The size of a packet is one of those that GetMaxPkgSize lets through.
LEMMA MaxPkgSizeRange ==
  ASSUME NEW s \in Senders
  PROVE  GetMaxPkgSize(s) \in Nat /\ GetMaxPkgSize(s) >= 128 /\ GetMaxPkgSize(s) <= 64000
<1>1. s.max_pkg_sz \in 0 .. SizeRange - 1
  BY DEF Senders
<1>2. SizeRange - 1 \in Int
  BY DEF SizeRange
<1>3. s.max_pkg_sz \in Nat
  BY <1>1, <1>2
<1> QED BY <1>3 DEF GetMaxPkgSize, KNV_DEFUALT_MAX_PKG_SIZE

\* The number of parts of a packet of length full > size.
LEMMA NumberOfParts ==
  ASSUME NEW full \in Nat, NEW size \in Nat \ {0}, full > size,
         NEW n, n = (full + size - 1) \div size
  PROVE  n \in Nat /\ n >= 2 /\ (n - 1) * size < full /\ full <= n * size
<1> DEFINE a == full + size - 1
<1>1. a \in Nat /\ a \div size \in Int /\ a = size * (a \div size) + (a % size) /\ a % size \in 0 .. size - 1
  OBVIOUS
<1>2. n \in Int /\ full + size - 1 = size * n + (a % size)
  BY <1>1
<1> HIDE DEF a
<1>3. n * size = size * n /\ (n - 1) * size = size * n - size
  BY <1>2
<1>4. full <= n * size /\ (n - 1) * size < full
  BY <1>1, <1>2, <1>3
<1>5. n >= 2
  <2> SUFFICES ASSUME n <= 1 PROVE FALSE
    BY <1>2
  <2>1. n * size <= size
    BY <1>2
  <2> QED BY <2>1, <1>4
<1> QED BY <1>2, <1>4, <1>5

-----------------------------------------------------------------------------
(***************************************************************************)
(* What Split works with.                                                  *)
(***************************************************************************)

\* Encode clears an error and leaves the rest of the protocol alone.
LEMMA NoErrorIs ==
  ASSUME NEW s \in Senders
  PROVE  /\ NoError(s) \in Senders
         /\ NoError(s).ret = (IF s.ret = 1 THEN 0 ELSE s.ret) /\ NoError(s).err = 0
         /\ NoError(s).total = s.total /\ NoError(s).curr = s.curr
         /\ NoError(s).allow_split = s.allow_split /\ NoError(s).max_pkg_sz = s.max_pkg_sz
         /\ NoError(s).total_split_count = s.total_split_count
         /\ NoError(s).child_has_key = s.child_has_key
         /\ NoError(s).bodies = s.bodies /\ NoError(s).parts = s.parts
         /\ NoError(s).split = s.split /\ NoError(s).what = s.what
         /\ NoError(s).asked = s.asked /\ NoError(s).limit = s.limit
<1>1. NoError(s) \in Senders
  BY DEF NoError, Senders
<1> QED BY <1>1 DEF NoError, Senders

\* Split clears the fields of an earlier one.
LEMMA FreshIs ==
  ASSUME snd \in Senders
  PROVE  /\ Fresh \in Senders
         /\ Fresh.total = NoField /\ Fresh.curr = NoField /\ Fresh.total_split_count = 1
         /\ Fresh.ret = snd.ret /\ Fresh.err = snd.err
         /\ Fresh.allow_split = snd.allow_split /\ Fresh.max_pkg_sz = snd.max_pkg_sz
         /\ Fresh.child_has_key = snd.child_has_key
         /\ Fresh.bodies = snd.bodies /\ Fresh.parts = snd.parts
         /\ Fresh.split = snd.split /\ Fresh.what = snd.what
         /\ Fresh.asked = snd.asked /\ Fresh.limit = snd.limit
<1>1. 1 \in 0 .. CountRange - 1
  BY DEF CountRange
<1>2. Fresh \in Senders
  BY <1>1 DEF Fresh, Senders
<1> QED BY <1>2 DEF Fresh, Senders

\* The protocol after encoding.
LEMMA AfterEncodeIs ==
  ASSUME snd \in Senders, NEW b
  PROVE  /\ AfterEncode(b) \in Senders
         /\ AfterEncode(b).total = NoField /\ AfterEncode(b).curr = NoField
         /\ AfterEncode(b).total_split_count = 1
         /\ AfterEncode(b).ret = (IF b # NoBody /\ snd.ret = 1 THEN 0 ELSE snd.ret)
         /\ AfterEncode(b).err = (IF b # NoBody THEN 0 ELSE snd.err)
         /\ AfterEncode(b).allow_split = snd.allow_split
         /\ AfterEncode(b).max_pkg_sz = snd.max_pkg_sz
         /\ AfterEncode(b).child_has_key = snd.child_has_key
         /\ AfterEncode(b).bodies = snd.bodies /\ AfterEncode(b).parts = snd.parts
         /\ AfterEncode(b).split = snd.split /\ AfterEncode(b).what = snd.what
         /\ AfterEncode(b).asked = snd.asked /\ AfterEncode(b).limit = snd.limit
<1>1. CASE b = NoBody
  BY <1>1, FreshIs DEF AfterEncode
<1>2. CASE b # NoBody
  <2>1. AfterEncode(b) = NoError(Fresh)
    BY <1>2 DEF AfterEncode
  <2> QED BY <1>2, <2>1, FreshIs, NoErrorIs
<1> QED BY <1>1, <1>2

\* The names of the bodies in the tree.
LEMMA OwnNamesType ==
  ASSUME NEW s \in Senders
  PROVE  OwnNames(s) \in Seq(AllNames)
<1>1. s.bodies \in Seq(Bodies)
  BY DEF Senders
<1>2. Len(s.bodies) \in Nat /\ \A k \in 1 .. Len(s.bodies) : s.bodies[k].name \in AllNames
  BY <1>1 DEF AllNames
<1> QED BY <1>2 DEF OwnNames

\* The encoded packet has the bodies that Split was asked to send.
LEMMA EncodedIs ==
  ASSUME snd \in Senders, NEW b \in Bodies \union {NoBody}
  PROVE  /\ Encoded(b).len \in Nat
         /\ Encoded(b).of = What(snd, b)
         /\ What(snd, b) \in Seq(AllNames)
<1>1. CASE b # NoBody
  <2> DEFINE a == AfterEncode(b)
             x == HeaderSize(a) + ChildLen(KNV_PKG_BDY_TAG, Whole(b))
  <2>1. b.len \in Nat /\ b.name \in AllNames
    BY <1>1, BodiesAssumption DEF AllNames
  <2>2. HeaderSize(a) \in Nat
    BY AfterEncodeIs, HeaderSizeNat
  <2>3. ChildLen(KNV_PKG_BDY_TAG, Whole(b)) \in Nat
    BY <2>1, TagsNat, StrFieldLenNat DEF ChildLen, Whole
  <2>4. x \in Nat /\ KNV_PKG_TAG \in Nat
    BY <2>2, <2>3 DEF KNV_PKG_TAG
  <2>5. Encoded(b) = [of |-> Names(Whole(b)), len |-> StrFieldLen(KNV_PKG_TAG, x)]
    BY <1>1 DEF Encoded, EncodeWithBody
  <2> HIDE DEF x, a
  <2>6. Encoded(b).len \in Nat
    BY <2>4, <2>5, StrFieldLenNat
  <2>7. Encoded(b).of = <<b.name>> /\ What(snd, b) = <<b.name>>
    BY <1>1, <2>5 DEF Names, Whole, What
  <2> QED BY <2>1, <2>6, <2>7
<1>2. CASE b = NoBody
  <2> DEFINE a == AfterEncode(b)
  <2>1. /\ a \in Senders /\ a.ret = snd.ret /\ a.bodies = snd.bodies
    BY <1>2, AfterEncodeIs
  <2>2. Encoded(b) = Encode(a) /\ What(snd, b) = Encode(snd).of
    BY <1>2 DEF Encoded, What
  <2> HIDE DEF a
  <2>3. OwnNames(a) = OwnNames(snd)
    BY <2>1 DEF OwnNames
  <2>4. CASE a.ret = 1
    <3>1. StrFieldLen(KNV_PKG_TAG, HeaderSize(a)) \in Nat
      BY <2>1, TagsNat, HeaderSizeNat, StrFieldLenNat
    <3> QED BY <2>1, <2>2, <2>4, <3>1 DEF Encode
  <2>5. CASE a.ret # 1
    <3>1. TreeSize(a) \in Nat /\ OwnNames(a) \in Seq(AllNames)
      BY <2>1, TreeSizeNat, OwnNamesType
    <3> QED BY <2>1, <2>2, <2>3, <2>5, <3>1 DEF Encode
  <2> QED BY <2>4, <2>5
<1> QED BY <1>1, <1>2

\* The length of the header is that of some fields, and leaves room for a part.
LEMMA HdrSizeNat ==
  ASSUME snd \in Senders, NEW b
  PROVE  HdrSize(b) \in Nat
BY AfterEncodeIs, HeaderSizeNat DEF HdrSize

\* A body is a value, and so is a part of a packet.
LEMMA ValuesAre ==
  /\ \A b \in Bodies : Whole(b) \in Values
  /\ \A q, i : InParts(q) /\ q.what \in Seq(AllNames) /\ i \in 0 .. q.total - 1 => SliceOf(q, i) \in Values
<1>1. ASSUME NEW b \in Bodies PROVE Whole(b) \in Values
  <2>1. b.len \in Nat \ {0} /\ <<b.name>> \in Seq(AllNames)
    BY BodiesAssumption DEF AllNames
  <2> QED BY <2>1 DEF Whole, Values
<1>2. ASSUME NEW q, NEW i, InParts(q), q.what \in Seq(AllNames), i \in 0 .. q.total - 1
      PROVE  SliceOf(q, i) \in Values
  <2>1. i \in Nat /\ q.size \in Nat \ {0} /\ q.full \in Nat /\ q.total \in Nat
    BY <1>2 DEF InParts
  <2>2. i * q.size \in Nat
    BY <2>1
  <2>3. (IF i = q.total - 1 THEN q.full - i * q.size ELSE q.size) \in Nat \ {0}
    BY <1>2, <2>1, <2>2 DEF InParts
  <2> QED BY <1>2, <2>1, <2>2, <2>3 DEF SliceOf, Values
<1> QED BY <1>1, <1>2

\* The children after RemoveChildrenByTag and InsertSubNode of every part.
LEMMA WithPartsIs ==
  ASSUME NEW old \in Seq(Seq(Values)), NEW new \in Seq(Values)
  PROVE  /\ WithParts(old, new) \in Seq(Seq(Values))
         /\ Len(new) <= Len(WithParts(old, new))
         /\ \A i \in 1 .. Len(new) : WithParts(old, new)[i] = <<new[i]>>
<1> DEFINE n == IF Len(new) > Len(old) THEN Len(new) ELSE Len(old)
           e(i) == IF i <= Len(new) THEN <<new[i]>> ELSE old[i]
<1>1. n \in Nat /\ n >= Len(new)
  OBVIOUS
<1>2. ASSUME NEW i \in 1 .. n PROVE e(i) \in Seq(Values)
  <2>1. CASE i <= Len(new)
    <3>1. new[i] \in Values
      BY <2>1, <1>1
    <3> QED BY <2>1, <3>1
  <2>2. CASE ~(i <= Len(new))
    BY <2>2, <1>1
  <2> QED BY <2>1, <2>2
<1>3. WithParts(old, new) = [i \in 1 .. n |-> e(i)]
  BY DEF WithParts
<1> HIDE DEF n, e
<1>4. WithParts(old, new) \in Seq(Seq(Values)) /\ Len(WithParts(old, new)) = n
  BY <1>1, <1>2, <1>3
<1>5. \A i \in 1 .. Len(new) : WithParts(old, new)[i] = <<new[i]>>
  BY <1>1, <1>3 DEF e
<1> QED BY <1>1, <1>4, <1>5

\* The parts that Split makes are those of the packet that it posts.
LEMMA SplitMakes ==
  ASSUME SenderOK, NEW b \in Bodies \union {NoBody}, Split(b)
  PROVE  /\ snd' \in Senders
         /\ posted \subseteq posted'
         /\ snd'.total >= 2 /\ snd'.total_split_count = snd'.total % CountRange
         /\ snd'.split /\ snd'.ret = AfterEncode(b).ret /\ snd'.err = AfterEncode(b).err
         /\ snd'.what = What(snd, b) /\ snd'.asked = b
         /\ snd'.limit = (IF MayBeSplit(b) THEN GetMaxPkgSize(snd) ELSE 0)
         /\ snd'.allow_split = snd.allow_split /\ snd'.max_pkg_sz = snd.max_pkg_sz
         /\ snd'.bodies = snd.bodies
         /\ \E q \in posted' : /\ HasParts(snd', q) /\ q.full = Encoded(b).len
                               /\ q.size = GetMaxPkgSize(snd) - HdrSize(b)
<1> DEFINE e == Encoded(b)
           sz_part == GetMaxPkgSize(snd) - HdrSize(b)
           nr_pkgs == (e.len + sz_part - 1) \div sz_part
           last == nr_pkgs - 1
           sz_last == e.len - last * sz_part
           len(i) == IF i - 1 = last THEN sz_last ELSE sz_part
           parts == [i \in 1 .. nr_pkgs |-> Slice(e, (i - 1) * sz_part, len(i))]
           q == [what |-> What(snd, b), full |-> e.len, total |-> nr_pkgs, size |-> sz_part]
<1>1. snd \in Senders /\ AfterEncode(b) \in Senders
  BY AfterEncodeIs DEF SenderOK
<1>2. e.len \in Nat /\ e.of = What(snd, b) /\ What(snd, b) \in Seq(AllNames)
  BY <1>1, EncodedIs
<1>3. GetMaxPkgSize(snd) \in Nat /\ HdrSize(b) \in Nat
  BY <1>1, MaxPkgSizeRange, HdrSizeNat
<1>4. sz_part \in Nat \ {0} /\ e.len > sz_part
  BY <1>2, <1>3 DEF Split, TooLong
<1>5. PICK key \in {snd.child_has_key, TRUE} :
        /\ snd' = Done([AfterEncode(b) EXCEPT
                             !.total_split_count = nr_pkgs % CountRange,
                             !.total = nr_pkgs, !.child_has_key = key,
                             !.parts = WithParts(@, parts)], b)
        /\ posted' = posted \union {q}
  BY DEF Split
<1> HIDE DEF e, sz_part
<1>6. nr_pkgs \in Nat /\ nr_pkgs >= 2 /\ (nr_pkgs - 1) * sz_part < e.len /\ e.len <= nr_pkgs * sz_part
  BY <1>2, <1>4, NumberOfParts
<1> HIDE DEF nr_pkgs
<1>7. InParts(q)
  BY <1>2, <1>4, <1>6 DEF InParts
<1>8. ASSUME NEW i \in 1 .. nr_pkgs
      PROVE  Slice(e, (i - 1) * sz_part, len(i)) = SliceOf(q, i - 1)
  BY <1>2, <1>6 DEF Slice, SliceOf
<1>9. ASSUME NEW i \in 1 .. nr_pkgs
      PROVE  parts[i] = SliceOf(q, i - 1) /\ parts[i] \in Values
  <2>1. i - 1 \in 0 .. q.total - 1
    BY <1>6
  <2> QED BY <1>2, <1>7, <1>8, <2>1, ValuesAre
<1>10. parts \in Seq(Values) /\ Len(parts) = nr_pkgs
  <2>1. \A i \in 1 .. nr_pkgs : Slice(e, (i - 1) * sz_part, len(i)) \in Values
    BY <1>9
  <2> HIDE DEF len
  <2> QED BY <1>6, <2>1
<1> DEFINE w == WithParts(AfterEncode(b).parts, parts)
<1>11. /\ w \in Seq(Seq(Values)) /\ nr_pkgs <= Len(w)
       /\ \A i \in 1 .. nr_pkgs : w[i] = <<SliceOf(q, i - 1)>>
  <2>1. AfterEncode(b).parts \in Seq(Seq(Values))
    BY <1>1 DEF Senders
  <2>2. \A i \in 1 .. nr_pkgs : parts[i] = SliceOf(q, i - 1)
    BY <1>9
  <2> HIDE DEF parts, q
  <2> QED BY <1>10, <2>1, <2>2, WithPartsIs
<1> DEFINE s == [AfterEncode(b) EXCEPT !.total_split_count = nr_pkgs % CountRange,
                             !.total = nr_pkgs, !.child_has_key = key, !.parts = w]
           limit == IF MayBeSplit(b) THEN GetMaxPkgSize(snd) ELSE 0
<1>12. limit \in Nat
  BY <1>3
<1>13. snd' = [s EXCEPT !.split = TRUE, !.what = What(snd, b), !.asked = b, !.limit = limit]
  BY <1>5 DEF Done
<1> HIDE DEF w, limit, parts
<1>14. nr_pkgs % CountRange \in 0 .. CountRange - 1
  BY <1>6 DEF CountRange
<1>15. key \in BOOLEAN
  BY <1>1 DEF Senders
<1>16. s \in Senders
  BY <1>1, <1>6, <1>11, <1>14, <1>15 DEF Senders
<1>17. snd' \in Senders
  BY <1>2, <1>12, <1>13, <1>16 DEF Senders
<1>18. /\ snd'.total = nr_pkgs /\ snd'.total_split_count = nr_pkgs % CountRange
       /\ snd'.split /\ snd'.ret = AfterEncode(b).ret /\ snd'.parts = w /\ snd'.what = What(snd, b)
  BY <1>1, <1>13, <1>16, <1>17 DEF Senders
<1>19. HasParts(snd', q)
  BY <1>6, <1>7, <1>11, <1>18 DEF HasParts
<1>20. q \in posted' /\ posted \subseteq posted'
  BY <1>5
<1>21. q.full = Encoded(b).len /\ q.size = GetMaxPkgSize(snd) - HdrSize(b)
  BY DEF e, sz_part
<1>22. /\ snd'.err = AfterEncode(b).err /\ snd'.asked = b /\ snd'.limit = limit
       /\ snd'.allow_split = AfterEncode(b).allow_split
       /\ snd'.max_pkg_sz = AfterEncode(b).max_pkg_sz /\ snd'.bodies = AfterEncode(b).bodies
  BY <1>1, <1>13, <1>16, <1>17 DEF Senders
<1>23. /\ AfterEncode(b).allow_split = snd.allow_split /\ AfterEncode(b).max_pkg_sz = snd.max_pkg_sz
       /\ AfterEncode(b).bodies = snd.bodies
  BY <1>1, AfterEncodeIs
<1> QED BY <1>6, <1>17, <1>18, <1>19, <1>20, <1>21, <1>22, <1>23 DEF limit

\* A packet with an error is only a header, which is not split.
LEMMA SplitNoError ==
  ASSUME SenderOK, NEW b \in Bodies \union {NoBody}, Split(b)
  PROVE  AfterEncode(b).ret # 1
<1> DEFINE a == AfterEncode(b)
<1>1. snd \in Senders /\ a \in Senders /\ a.ret = (IF b # NoBody /\ snd.ret = 1 THEN 0 ELSE snd.ret)
  BY AfterEncodeIs DEF SenderOK
<1> SUFFICES ASSUME a.ret = 1 PROVE FALSE
  OBVIOUS
<1>2. b = NoBody
  BY <1>1
<1>3. Encoded(b).len = StrFieldLen(KNV_PKG_TAG, HeaderSize(a))
  BY <1>2 DEF Encoded, Encode
<1>4. HdrSize(b) = HeaderSize(a) + 16 /\ HeaderSize(a) \in Nat
  BY <1>1, HeaderSizeNat DEF HdrSize
<1>5. StrFieldLen(KNV_PKG_TAG, HeaderSize(a)) <= HeaderSize(a) + 10
  <2>1. TagLen(KNV_PKG_TAG) \in 1 .. 5
    BY VintLenRange, TagsNat DEF TagLen
  <2>2. VintLen(HeaderSize(a)) \in 1 .. 5
    BY VintLenRange, <1>4
  <2> QED BY <1>4, <2>1, <2>2 DEF StrFieldLen
<1>6. GetMaxPkgSize(snd) \in Nat /\ Encoded(b).len \in Nat
  BY <1>1, MaxPkgSizeRange, EncodedIs
<1>7. Encoded(b).len > GetMaxPkgSize(snd) /\ HdrSize(b) < GetMaxPkgSize(snd)
  BY DEF Split, TooLong
<1> HIDE DEF a
<1> QED BY <1>3, <1>4, <1>5, <1>6, <1>7

-----------------------------------------------------------------------------
(***************************************************************************)
(* The sender's steps.                                                     *)
(***************************************************************************)

\* max_pkg_sz takes 16 bits of a size.
LEMMA SizeFits == \A size \in PkgSizes : size % SizeRange \in 0 .. SizeRange - 1
<1>1. \A size \in PkgSizes : size \in Nat
  BY LensAssumption
<1>2. SizeRange \in Nat \ {0}
  BY DEF SizeRange
<1> QED BY <1>1, <1>2

\* A new protocol.
LEMMA NewSenderIs ==
  ASSUME NEW allow \in BOOLEAN, NEW size \in PkgSizes
  PROVE  /\ NewSender(allow, size) \in Senders
         /\ NewSender(allow, size).total = NoField
         /\ NewSender(allow, size).total_split_count = 0
         /\ ~NewSender(allow, size).split
<1>1. size % SizeRange \in 0 .. SizeRange - 1 /\ 0 \in 0 .. CountRange - 1 /\ HeaderKeyed \in BOOLEAN
  BY SizeFits, LensAssumption DEF CountRange
<1>2. <<>> \in Seq(Bodies) /\ <<>> \in Seq(Seq(Values)) /\ <<>> \in Seq(AllNames)
  OBVIOUS
<1> QED BY <1>1, <1>2 DEF NewSender, Senders

\* A copy of the body under the tag of the first part.
LEMMA PartCopyIs ==
  ASSUME NEW s \in Senders, NEW b \in Bodies
  PROVE  /\ PartCopy(s, b) \in Senders
         /\ PartCopy(s, b).total = s.total /\ PartCopy(s, b).curr = s.curr
         /\ PartCopy(s, b).ret = s.ret /\ PartCopy(s, b).err = s.err
         /\ PartCopy(s, b).total_split_count = s.total_split_count
         /\ PartCopy(s, b).allow_split = s.allow_split /\ PartCopy(s, b).max_pkg_sz = s.max_pkg_sz
         /\ PartCopy(s, b).bodies = s.bodies
         /\ PartCopy(s, b).parts # <<>> /\ PartCopy(s, b).parts[1] # <<>>
         /\ s.parts = <<>> => PartCopy(s, b).parts = <<<<Whole(b)>>>>
         /\ s.parts # <<>> => /\ Len(PartCopy(s, b).parts) = Len(s.parts)
                              /\ PartCopy(s, b).parts[1] = Append(s.parts[1], Whole(b))
<1> DEFINE ps == IF s.parts = <<>> THEN <<<<Whole(b)>>>>
                 ELSE [s.parts EXCEPT ![1] = Append(s.parts[1], Whole(b))]
           key == s.child_has_key \/ b.keyed
<1>1. s.parts \in Seq(Seq(Values)) /\ Whole(b) \in Values
  BY ValuesAre DEF Senders
<1>2. ps \in Seq(Seq(Values)) /\ ps # <<>> /\ ps[1] # <<>>
  <2>1. CASE s.parts = <<>>
    <3>1. <<Whole(b)>> \in Seq(Values)
      BY <1>1
    <3> QED BY <2>1, <3>1
  <2>2. CASE s.parts # <<>>
    <3>1. 1 \in 1 .. Len(s.parts) /\ s.parts[1] \in Seq(Values)
      BY <1>1, <2>2
    <3>2. Append(s.parts[1], Whole(b)) \in Seq(Values) /\ Append(s.parts[1], Whole(b)) # <<>>
      <4>1. \A q \in Seq(Values), x \in Values :
               Append(q, x) \in Seq(Values) /\ Len(Append(q, x)) = Len(q) + 1 /\ Len(q) \in Nat
        OBVIOUS
      <4>2. ASSUME NEW q \in Seq(Values), NEW x \in Values PROVE Append(q, x) # <<>>
        <5>1. Len(Append(q, x)) # 0
          BY <4>1
        <5>2. Len(<<>>) = 0
          OBVIOUS
        <5> QED BY <5>1, <5>2, Zenon
      <4> QED BY <1>1, <3>1, <4>1, <4>2
    <3> QED BY <1>1, <2>2, <3>1, <3>2
  <2> QED BY <2>1, <2>2
<1>3. s.parts # <<>> => Len(ps) = Len(s.parts) /\ ps[1] = Append(s.parts[1], Whole(b))
  BY <1>1
<1>4. key \in BOOLEAN
  BY BodiesAssumption DEF Senders
<1>5. PartCopy(s, b) = [s EXCEPT !.parts = ps, !.child_has_key = key]
  BY DEF PartCopy
<1>6. s.parts = <<>> => ps = <<<<Whole(b)>>>>
  OBVIOUS
<1> HIDE DEF ps, key
<1>7. PartCopy(s, b) \in Senders
  BY <1>2, <1>4, <1>5 DEF Senders
<1>8. PartCopy(s, b).parts = ps
  BY <1>5 DEF Senders
<1> QED BY <1>2, <1>3, <1>5, <1>6, <1>7, <1>8 DEF Senders

\* A packet that need not be split.
LEMMA SplitNotMakes ==
  ASSUME snd \in Senders, NEW b \in Bodies \union {NoBody}, SplitNot(b)
  PROVE  /\ snd' \in Senders
         /\ posted' = posted \union {[what |-> What(snd, b), full |-> 0, total |-> 0, size |-> 0]}
         /\ snd'.total = NoField /\ snd'.curr = NoField /\ snd'.total_split_count = 1
         /\ snd'.split /\ snd'.what = What(snd, b) /\ snd'.asked = b
         /\ snd'.limit = (IF MayBeSplit(b) THEN GetMaxPkgSize(snd) ELSE 0)
         /\ snd'.allow_split = snd.allow_split /\ snd'.max_pkg_sz = snd.max_pkg_sz
         /\ snd'.bodies = snd.bodies
         /\ \/ snd'.ret = snd.ret /\ snd'.err = snd.err
            \/ b # NoBody /\ snd'.ret = (IF snd.ret = 1 THEN 0 ELSE snd.ret) /\ snd'.err = 0
         /\ b = NoBody => snd'.parts = snd.parts
         /\ b # NoBody => \E s \in Senders : s.parts = snd.parts /\ snd'.parts = PartCopy(s, b).parts
<1> DEFINE s == IF NeedSplit(b) THEN AfterEncode(b) ELSE Fresh
           c == IF b = NoBody THEN s ELSE PartCopy(s, b)
           limit == IF MayBeSplit(b) THEN GetMaxPkgSize(snd) ELSE 0
<1>1. /\ s \in Senders /\ s.total = NoField /\ s.curr = NoField /\ s.total_split_count = 1
      /\ s.allow_split = snd.allow_split /\ s.max_pkg_sz = snd.max_pkg_sz
      /\ s.bodies = snd.bodies /\ s.parts = snd.parts
      /\ \/ s.ret = snd.ret /\ s.err = snd.err
         \/ b # NoBody /\ s.ret = (IF snd.ret = 1 THEN 0 ELSE snd.ret) /\ s.err = 0
  <2>1. CASE NeedSplit(b)
    BY <2>1, AfterEncodeIs
  <2>2. CASE ~NeedSplit(b)
    BY <2>2, FreshIs
  <2> QED BY <2>1, <2>2
<1> HIDE DEF s
<1>2. /\ c \in Senders /\ c.total = NoField /\ c.curr = NoField /\ c.total_split_count = 1
      /\ c.allow_split = snd.allow_split /\ c.max_pkg_sz = snd.max_pkg_sz
      /\ c.bodies = snd.bodies /\ c.ret = s.ret /\ c.err = s.err
      /\ b = NoBody => c.parts = snd.parts
      /\ b # NoBody => c.parts = PartCopy(s, b).parts
  <2>1. CASE b = NoBody
    BY <1>1, <2>1
  <2>2. CASE b # NoBody
    BY <1>1, <2>2, PartCopyIs
  <2> QED BY <2>1, <2>2
<1>3. snd' = [c EXCEPT !.split = TRUE, !.what = What(snd, b), !.asked = b, !.limit = limit]
  BY DEF SplitNot, Done, s
<1>4. limit \in Nat /\ What(snd, b) \in Seq(AllNames)
  BY MaxPkgSizeRange, EncodedIs
<1>5. posted' = posted \union {[what |-> What(snd, b), full |-> 0, total |-> 0, size |-> 0]}
  BY DEF SplitNot
<1>6. snd'.limit = limit
  BY <1>2, <1>3 DEF Senders
<1> HIDE DEF c
<1>7. snd' \in Senders
  <2> HIDE DEF limit
  <2> QED BY <1>2, <1>3, <1>4 DEF Senders
<1>8. /\ snd'.total = c.total /\ snd'.curr = c.curr /\ snd'.total_split_count = c.total_split_count
      /\ snd'.split /\ snd'.what = What(snd, b) /\ snd'.asked = b
      /\ snd'.allow_split = c.allow_split /\ snd'.max_pkg_sz = c.max_pkg_sz /\ snd'.bodies = c.bodies
      /\ snd'.ret = c.ret /\ snd'.err = c.err /\ snd'.parts = c.parts
  <2> HIDE DEF limit
  <2> QED BY <1>2, <1>3 DEF Senders
<1> QED BY <1>1, <1>2, <1>5, <1>6, <1>7, <1>8

\* A header that is too long.
LEMMA SplitFailMakes ==
  ASSUME snd \in Senders, NEW b, SplitFail(b)
  PROVE  /\ snd' \in Senders /\ ~snd'.split
         /\ snd'.total = NoField /\ snd'.curr = NoField /\ snd'.total_split_count = 1
         /\ snd'.parts = snd.parts /\ snd'.bodies = snd.bodies
         /\ \/ snd'.ret = snd.ret /\ snd'.err = snd.err
            \/ snd'.err = 0
<1> DEFINE a == AfterEncode(b)
<1>1. /\ a \in Senders /\ a.total = NoField /\ a.curr = NoField /\ a.total_split_count = 1
      /\ a.parts = snd.parts /\ a.bodies = snd.bodies
      /\ ((a.ret = snd.ret /\ a.err = snd.err) \/ a.err = 0)
  BY AfterEncodeIs
<1>2. snd' = [a EXCEPT !.split = FALSE]
  BY DEF SplitFail
<1> HIDE DEF a
<1> QED BY <1>1, <1>2 DEF Senders

\* The part under an index.
LEMMA PartFound ==
  ASSUME NEW s, NEW q, HasParts(s, q), NEW i \in 0 .. s.total - 1
  PROVE  HasPart(s, i) /\ FindChildByTag(s, i) = SliceOf(q, i)
<1>1. s.total \in Nat /\ i \in Nat /\ i + 1 \in 1 .. s.total
  BY DEF HasParts, InParts
<1>2. s.parts[i + 1] = <<SliceOf(q, i)>>
  <2>1. s.parts[i + 1] = <<SliceOf(q, (i + 1) - 1)>>
    BY <1>1 DEF HasParts
  <2>2. (i + 1) - 1 = i
    BY <1>1
  <2> QED BY <2>1, <2>2
<1>3. Head(<<SliceOf(q, i)>>) = SliceOf(q, i) /\ <<SliceOf(q, i)>>[Len(<<SliceOf(q, i)>>)] = SliceOf(q, i)
      /\ <<SliceOf(q, i)>> # <<>>
  OBVIOUS
<1>4. FindChildByTag(s, i) = SliceOf(q, i)
  BY <1>2, <1>3 DEF FindChildByTag
<1>5. i < Len(s.parts)
  <2>1. s.total <= Len(s.parts) /\ Len(s.parts) \in Int
    BY DEF HasParts
  <2> QED BY <1>1, <2>1
<1> QED BY <1>2, <1>3, <1>4, <1>5 DEF HasPart

\* Sending changes the error fields and the index.
LEMMA WithIndexIs ==
  ASSUME NEW s \in Senders, NEW i \in Nat
  PROVE  /\ WithIndex(s, i) \in Senders /\ WithIndex(s, i).curr = i
         /\ WithIndex(s, i).total = s.total /\ WithIndex(s, i).ret = s.ret
         /\ WithIndex(s, i).err = s.err
         /\ WithIndex(s, i).total_split_count = s.total_split_count
         /\ WithIndex(s, i).allow_split = s.allow_split /\ WithIndex(s, i).max_pkg_sz = s.max_pkg_sz
         /\ WithIndex(s, i).parts = s.parts /\ WithIndex(s, i).bodies = s.bodies
         /\ WithIndex(s, i).split = s.split /\ WithIndex(s, i).what = s.what
         /\ WithIndex(s, i).asked = s.asked /\ WithIndex(s, i).limit = s.limit
<1>1. WithIndex(s, i) \in Senders
  BY DEF WithIndex, Senders
<1> QED BY <1>1 DEF WithIndex, Senders

\* The fields of a packet.
LEMMA PacketIs ==
  ASSUME NEW s, NEW bodies, NEW parts, NEW len
  PROVE  /\ Packet(s, bodies, parts, len).total = s.total
         /\ Packet(s, bodies, parts, len).curr = s.curr
         /\ Packet(s, bodies, parts, len).ret = s.ret
         /\ Packet(s, bodies, parts, len).bodies = bodies
         /\ Packet(s, bodies, parts, len).parts = parts
         /\ Packet(s, bodies, parts, len).len = len
         /\ Packet(s, bodies, parts, len).limit = s.limit
         /\ Packet(s, bodies, parts, len).what = s.what
BY DEF Packet

\* What the sender sends, and how it is left.
SndSame(s, t) ==
  /\ t \in Senders /\ t.total = s.total /\ t.total_split_count = s.total_split_count
  /\ t.allow_split = s.allow_split /\ t.max_pkg_sz = s.max_pkg_sz
  /\ t.parts = s.parts /\ t.bodies = s.bodies /\ t.split = s.split
  /\ t.what = s.what /\ t.asked = s.asked /\ t.limit = s.limit

\* A sender that differs in its error fields and its index is as good.
LEMMA SenderSame ==
  ASSUME SenderOK, SndSame(snd, snd'), snd'.ret = 1 => snd.ret = 1, posted' = posted
  PROVE  SenderOK'
<1>1. \A q : HasParts(snd, q) => HasParts(snd', q)
  BY DEF SndSame, HasParts
<1> QED BY <1>1 DEF SenderOK, SndSame

\* EncodePart of a packet that is not split, with the body in the tree.
LEMMA EncodePartBodySends ==
  ASSUME SenderOK, EncodePartBody
  PROVE  /\ SndSame(snd, snd') /\ snd' = NoError(snd) /\ UNCHANGED <<rcv, posted, oom, calls>>
         /\ \E p : PacketOK(p) /\ sent' = sent \union {p} /\ p.parts = <<>>
                   /\ p.total = snd.total /\ p.what = snd.what /\ p.limit = snd.limit
                   /\ p.bodies = Names(FindChildByTag(snd, 0)) /\ p.ret # 1
                   /\ p.len = EncodeWithBody(NoError(snd), KNV_PKG_BDY_TAG, FindChildByTag(snd, 0)).len
<1> DEFINE x == FindChildByTag(snd, 0)
           s == NoError(snd)
           len == EncodeWithBody(s, KNV_PKG_BDY_TAG, x).len
           p == Packet(s, Names(x), <<>>, len)
<1>1. snd' = s /\ sent' = sent \union {p} /\ UNCHANGED <<rcv, posted, oom, calls>>
  BY DEF EncodePartBody, Send
<1>2. snd \in Senders
  BY DEF SenderOK
<1>3. SndSame(snd, s) /\ s.ret # 1 /\ s \in Senders
  BY <1>2, NoErrorIs DEF SndSame
<1> HIDE DEF len, s
<1>4. /\ p.total = snd.total /\ p.curr = s.curr /\ p.ret = s.ret /\ p.bodies = Names(x)
      /\ p.parts = <<>> /\ p.limit = snd.limit /\ p.what = snd.what /\ p.len = len
  BY <1>3, PacketIs DEF SndSame
<1> HIDE DEF p
<1>5. snd.total # NoField => Names(x) # <<>>
  <2> SUFFICES ASSUME snd.total # NoField PROVE Names(x) # <<>>
    OBVIOUS
  <2>1. snd.split
    BY DEF EncodePartBody
  <2>2. PICK q \in posted : HasParts(snd, q)
    BY <2>1 DEF SenderOK
  <2>3. 0 \in 0 .. snd.total - 1
    BY <2>2 DEF HasParts, InParts
  <2>4. x = SliceOf(q, 0)
    BY <2>2, <2>3, PartFound
  <2>5. x.part = TRUE
    BY <2>4 DEF SliceOf
  <2> QED BY <2>5 DEF Names
<1>6. PacketOK(p)
  <2>1. s.ret \in {NoField, 0, 1} /\ s.curr \in Nat \union {NoField} /\ snd.total \in Nat \union {NoField}
    BY <1>2, <1>3 DEF Senders
  <2>2. snd.total = NoField \/ snd.total >= 2
    BY DEF SenderOK
  <2> QED BY <1>4, <1>5, <2>1, <2>2 DEF PacketOK
<1>7. p.ret # 1
  BY <1>3, <1>4
<1> QED BY <1>1, <1>3, <1>4, <1>6, <1>7 DEF len, s

\* EncodePart of a packet that is not split, with the bodies in the protocol.
LEMMA EncodePartAllSends ==
  ASSUME SenderOK, EncodePartAll
  PROVE  /\ snd' = snd /\ UNCHANGED <<rcv, posted, oom, calls>> /\ snd.total = NoField
         /\ \E p : PacketOK(p) /\ sent' = sent \union {p} /\ p.parts = <<>>
                   /\ p.total = snd.total /\ p.what = snd.what /\ p.limit = snd.limit
                   /\ p.bodies = Encode(snd).of /\ p.len = Encode(snd).len /\ p.ret = snd.ret
<1> DEFINE p == Packet(snd, Encode(snd).of, <<>>, Encode(snd).len)
<1>1. snd' = snd /\ sent' = sent \union {p} /\ UNCHANGED <<rcv, posted, oom, calls>>
  BY DEF EncodePartAll, Send
<1>2. snd \in Senders
  BY DEF SenderOK
<1>3. /\ p.total = snd.total /\ p.curr = snd.curr /\ p.ret = snd.ret /\ p.bodies = Encode(snd).of
      /\ p.parts = <<>> /\ p.limit = snd.limit /\ p.what = snd.what /\ p.len = Encode(snd).len
  BY PacketIs
<1> HIDE DEF p
<1>4. snd.total = NoField
  <2> SUFFICES ASSUME snd.total # NoField PROVE FALSE
    OBVIOUS
  <2>1. snd.split /\ ~HasPart(snd, 0)
    BY DEF EncodePartAll
  <2>2. PICK q \in posted : HasParts(snd, q)
    BY <2>1 DEF SenderOK
  <2>3. 0 \in 0 .. snd.total - 1
    BY <2>2 DEF HasParts, InParts
  <2> QED BY <2>1, <2>2, <2>3, PartFound
<1>5. PacketOK(p)
  <2>1. snd.ret \in {NoField, 0, 1} /\ snd.curr \in Nat \union {NoField} /\ snd.total \in Nat \union {NoField}
    BY <1>2 DEF Senders
  <2> QED BY <1>3, <1>4, <2>1 DEF PacketOK
<1> QED BY <1>1, <1>3, <1>4, <1>5

\* EncodePart of a part.
LEMMA EncodePartSends ==
  ASSUME SenderOK, NEW i \in 0 .. snd.total_split_count - 1, EncodePart(i)
  PROVE  /\ SndSame(snd, snd') /\ snd' = NoError(WithIndex(snd, i)) /\ snd.ret # 1
         /\ UNCHANGED <<rcv, posted, oom, calls>>
         /\ snd.total # NoField /\ i \in Nat /\ i < snd.total
         /\ \E p, q : /\ PacketOK(p) /\ sent' = sent \union {p} /\ p.parts # <<>>
                      /\ q \in posted /\ HasParts(snd, q) /\ IsPartOf(p, q)
                      /\ p.total = snd.total /\ p.what = snd.what /\ p.limit = snd.limit
                      /\ p.len = EncodeWithBody(snd', KNV_PKG_PART_TAG_BASE + i, SliceOf(q, i)).len
<1> DEFINE x == FindChildByTag(snd, i)
           s == NoError(WithIndex(snd, i))
           len == EncodeWithBody(s, KNV_PKG_PART_TAG_BASE + i, x).len
           parts == [j \in {i} |-> x]
           p == Packet(s, <<>>, parts, len)
<1>1. snd' = s /\ sent' = sent \union {p} /\ UNCHANGED <<rcv, posted, oom, calls>>
  BY DEF EncodePart, Send
<1>2. snd \in Senders /\ snd.split /\ snd.total_split_count # 1
  BY DEF SenderOK, EncodePart
<1>3. /\ snd.total_split_count \in Nat /\ i \in Nat /\ snd.total_split_count >= 2
      /\ snd.total # NoField /\ snd.total_split_count = snd.total % CountRange
      /\ snd.total \in Nat /\ i < snd.total_split_count
  <2>1. snd.total_split_count \in 0 .. CountRange - 1 /\ snd.total \in Nat \union {NoField}
    BY <1>2 DEF Senders
  <2>2. i \in Nat /\ i < snd.total_split_count /\ snd.total_split_count \in Nat
    BY <2>1 DEF CountRange
  <2>3. snd.total_split_count >= 2
    BY <1>2, <2>2
  <2>4. snd.total # NoField
    BY <2>3 DEF SenderOK
  <2> QED BY <2>1, <2>2, <2>3, <2>4 DEF SenderOK
<1>4. i < snd.total
  BY <1>3 DEF CountRange
<1>5. PICK q \in posted : HasParts(snd, q)
  BY <1>2, <1>3 DEF SenderOK
<1>6. x = SliceOf(q, i)
  BY <1>3, <1>4, <1>5, PartFound
<1>7. SndSame(snd, s) /\ s.curr = i /\ s.ret # 1 /\ s \in Senders /\ snd.ret # 1
  <2>1. snd.ret # 1
    BY <1>2, <1>3 DEF SenderOK
  <2> DEFINE w == WithIndex(snd, i)
  <2>2. w \in Senders /\ SndSame(snd, w) /\ w.curr = i /\ w.ret = snd.ret
    BY <1>2, <1>3, WithIndexIs DEF SndSame
  <2> HIDE DEF w
  <2>3. SndSame(w, NoError(w)) /\ NoError(w).curr = w.curr /\ NoError(w).ret # 1
    BY <2>2, NoErrorIs DEF SndSame
  <2>4. SndSame(snd, NoError(w)) /\ NoError(w) \in Senders
    BY <2>2, <2>3 DEF SndSame
  <2> QED BY <2>1, <2>2, <2>3, <2>4 DEF w
<1> HIDE DEF len, s
<1>8. /\ p.total = snd.total /\ p.curr = i /\ p.ret = s.ret /\ p.bodies = <<>>
      /\ p.parts = parts /\ p.limit = snd.limit /\ p.what = snd.what /\ p.len = len
  BY <1>7, PacketIs DEF SndSame
<1>9. DOMAIN parts = {i} /\ parts[i] = SliceOf(q, i) /\ parts # <<>>
  <2>1. DOMAIN parts = {i} /\ parts[i] = SliceOf(q, i)
    BY <1>6
  <2>2. DOMAIN <<>> = {}
    OBVIOUS
  <2> QED BY <2>1, <2>2, Zenon
<1> HIDE DEF p, parts
<1>10. IsPartOf(p, q)
  BY <1>5, <1>8, <1>9 DEF IsPartOf, HasParts
<1>11. PacketOK(p)
  <2>1. s.ret \in {NoField, 0, 1}
    BY <1>7 DEF Senders
  <2>2. i \in 0 .. (snd.total % CountRange) - 1 /\ snd.total % CountRange # 1
    BY <1>2, <1>3
  <2>3. snd.total >= 2
    BY <1>3 DEF SenderOK
  <2> QED BY <1>3, <1>5, <1>7, <1>8, <1>10, <2>1, <2>2, <2>3 DEF PacketOK
<1>12. p.len = EncodeWithBody(snd', KNV_PKG_PART_TAG_BASE + i, SliceOf(q, i)).len
  BY <1>1, <1>6, <1>8 DEF len
<1>13. p.parts # <<>>
  BY <1>8, <1>9
<1> QED BY <1>1, <1>3, <1>4, <1>5, <1>7, <1>8, <1>10, <1>11, <1>12, <1>13 DEF s

-----------------------------------------------------------------------------
(***************************************************************************)
(* The receiver's steps.                                                   *)
(***************************************************************************)

\* No part is empty.
LEMMA SliceLen ==
  ASSUME NEW q, InParts(q), NEW i \in 0 .. q.total - 1
  PROVE  SliceOf(q, i).len \in Nat \ {0}
<1>1. i \in Nat /\ q.size \in Nat \ {0} /\ q.full \in Nat /\ q.total \in Nat
  BY DEF InParts
<1>2. i * q.size \in Nat
  BY <1>1
<1>3. (IF i = q.total - 1 THEN q.full - i * q.size ELSE q.size) \in Nat \ {0}
  BY <1>1, <1>2 DEF InParts
<1> QED BY <1>3 DEF SliceOf

\* Part i, of a packet in as many parts as the receiver waits for.
PartOf(x, i, total) ==
  /\ i \in Nat /\ i < total
  /\ \E q \in posted : InParts(q) /\ q.total % CountRange = total /\ x = SliceOf(q, i)

\* It is not empty.
LEMMA PartOfLen ==
  ASSUME NEW x, NEW i, NEW total, PartOf(x, i, total)
  PROVE  x.len > 0
<1>1. PICK q \in posted : InParts(q) /\ q.total % CountRange = total /\ x = SliceOf(q, i)
  BY DEF PartOf
<1>2. q.total \in Nat /\ i \in Nat /\ i < q.total % CountRange
  BY <1>1 DEF InParts, PartOf
<1>3. i \in 0 .. q.total - 1
  BY <1>2 DEF CountRange
<1> QED BY <1>1, <1>3, SliceLen

\* A packet after decoding: it is complete, or it is one part of several.
LEMMA DecodeIs ==
  ASSUME NEW p, PacketOK(p)
  PROVE  /\ DOMAIN Decode(p) = DOMAIN Invalid
         /\ Decode(p).tree = TRUE /\ Decode(p).total \in 0 .. CountRange - 1
         /\ DOMAIN Decode(p).parts \subseteq 0 .. CountRange - 1
         /\ Decode(p).parts = p.parts /\ Decode(p).bodies = p.bodies
         /\ ~IsComplete(Decode(p)) =>
              /\ DOMAIN Decode(p).parts = {Decode(p).curr} /\ Decode(p).curr = p.curr
              /\ Decode(p).total >= 2
              /\ PartOf(Decode(p).parts[Decode(p).curr], Decode(p).curr, Decode(p).total)
<1> DEFINE d == Decode(p)
<1>1. /\ DOMAIN d = DOMAIN Invalid
      /\ d.tree = TRUE /\ d.ret = IntField(p.ret) /\ d.total = IntField(p.total) % CountRange
      /\ d.curr = IntField(p.curr) % CountRange /\ d.bodies = p.bodies /\ d.parts = p.parts
  BY DEF Decode, Invalid
<1> HIDE DEF d
<1>2. IntField(p.total) \in Nat /\ IntField(p.curr) \in Nat
  BY DEF PacketOK, IntField, NoField
<1>3. d.total \in 0 .. CountRange - 1
  BY <1>1, <1>2 DEF CountRange
<1>4. CASE p.parts = <<>> /\ (p.total = NoField \/ p.bodies # <<>>)
  <2>1. IsComplete(d)
    <3>1. CASE p.total = NoField
      <4>1. d.total = 0
        BY <1>1, <3>1 DEF IntField, CountRange
      <4> QED BY <1>1, <4>1 DEF IsComplete
    <3>2. CASE p.bodies # <<>>
      BY <1>1, <3>2 DEF IsComplete
    <3> QED BY <3>1, <3>2, <1>4
  <2>2. DOMAIN <<>> = {}
    OBVIOUS
  <2> QED BY <1>1, <1>3, <1>4, <2>1, <2>2 DEF d
<1>5. CASE /\ p.bodies = <<>> /\ p.ret # 1 /\ p.curr \in 0 .. (p.total % CountRange) - 1
           /\ p.total % CountRange # 1
           /\ \E q \in posted : IsPartOf(p, q)
  <2>1. PICK q \in posted : IsPartOf(p, q)
    BY <1>5
  <2>2. q.total = p.total /\ p.total \in Nat /\ InParts(q)
    BY <2>1 DEF IsPartOf, InParts
  <2>3. d.total = p.total % CountRange
    BY <1>1, <2>2 DEF IntField, NoField
  <2>4. p.curr \in Nat /\ p.curr < d.total /\ d.curr = p.curr
    BY <1>1, <1>3, <1>5, <2>2, <2>3 DEF IntField, NoField, CountRange
  <2>5. d.total >= 2
    BY <1>3, <1>5, <2>3, <2>4
  <2>6. DOMAIN d.parts = {d.curr} /\ d.parts[d.curr] = SliceOf(q, d.curr)
    BY <1>1, <2>1, <2>4 DEF IsPartOf
  <2>7. PartOf(d.parts[d.curr], d.curr, d.total)
    BY <2>2, <2>3, <2>4, <2>6 DEF PartOf
  <2>8. DOMAIN d.parts \subseteq 0 .. CountRange - 1
    <3>1. CountRange \in Int
      BY DEF CountRange
    <3>2. d.curr \in 0 .. CountRange - 1
      BY <1>3, <2>4, <3>1
    <3> QED BY <2>6, <3>2
  <2> QED BY <1>1, <1>3, <2>4, <2>5, <2>6, <2>7, <2>8 DEF d
<1> QED BY <1>4, <1>5 DEF PacketOK

\* The parts after one more.
LEMMA WithPartIs ==
  ASSUME ReceiverOK, NEW part,
         part.curr \in DOMAIN part.parts, ~StartsOver(part),
         PartOf(part.parts[part.curr], part.curr, part.total)
  PROVE  /\ DOMAIN WithPart(part) = DOMAIN rcv.parts \union {part.curr}
         /\ \A i \in DOMAIN WithPart(part) : PartOf(WithPart(part)[i], i, rcv.total)
         /\ DOMAIN WithPart(part) \subseteq 0 .. CountRange - 1
<1> DEFINE w == WithPart(part)
<1>1. /\ DOMAIN w = DOMAIN rcv.parts \union {part.curr}
      /\ w[part.curr] = part.parts[part.curr]
      /\ \A i \in DOMAIN rcv.parts : i # part.curr => w[i] = rcv.parts[i]
  BY DEF WithPart
<1>2. rcv.total = part.total /\ rcv.tree /\ ~IsComplete(rcv)
  BY DEF StartsOver
<1>3. \A i \in DOMAIN rcv.parts : PartOf(rcv.parts[i], i, rcv.total)
  <2>1. \A i \in DOMAIN rcv.parts : i \in Nat
    BY DEF ReceiverOK
  <2> QED BY <1>2, <2>1 DEF ReceiverOK, PartOf
<1> HIDE DEF w
<1>4. \A i \in DOMAIN w : PartOf(w[i], i, rcv.total)
  BY <1>1, <1>2, <1>3
<1>5. DOMAIN w \subseteq 0 .. CountRange - 1
  <2>1. rcv.total \in 0 .. CountRange - 1 /\ CountRange \in Int
    BY DEF ReceiverOK, CountRange
  <2>2. part.curr \in Nat /\ part.curr < rcv.total
    BY <1>2 DEF PartOf
  <2>3. DOMAIN rcv.parts \subseteq 0 .. CountRange - 1
    BY DEF ReceiverOK
  <2> QED BY <1>1, <2>1, <2>2, <2>3
<1> QED BY <1>1, <1>4, <1>5 DEF w

\* All of a receiver that waits: its parts are parts.
LEMMA ReceiverKeeps ==
  ASSUME ReceiverOK, NEW parts, rcv' = [rcv EXCEPT !.parts = parts], posted' = posted,
         DOMAIN parts \subseteq 0 .. CountRange - 1,
         \A i \in DOMAIN parts : PartOf(parts[i], i, rcv.total)
  PROVE  /\ ReceiverOK' /\ rcv'.tree = rcv.tree /\ rcv'.total = rcv.total /\ rcv'.parts = parts
         /\ IsComplete(rcv') = IsComplete(rcv)
<1>1. DOMAIN rcv = {"tree", "ret", "total", "curr", "bodies", "parts"}
  BY DEF ReceiverOK, Invalid
<1>2. /\ DOMAIN rcv' = DOMAIN rcv /\ rcv'.tree = rcv.tree /\ rcv'.total = rcv.total
      /\ rcv'.ret = rcv.ret /\ rcv'.bodies = rcv.bodies /\ rcv'.parts = parts
  BY <1>1
<1>3. IsComplete(rcv') = IsComplete(rcv)
  BY <1>2 DEF IsComplete
<1>4. \A i \in DOMAIN parts : /\ i < rcv.total
          /\ \E q \in posted : /\ InParts(q) /\ q.total % CountRange = rcv.total
                               /\ parts[i] = SliceOf(q, i)
  BY DEF PartOf
<1>5. ReceiverOK'
  BY <1>2, <1>4 DEF ReceiverOK
<1> QED BY <1>2, <1>3, <1>5

\* A protocol without a tree, and one made of a whole packet.
LEMMA InvalidIs ==
  /\ Invalid.tree = FALSE /\ Invalid.total = 0 /\ Invalid.bodies = <<>> /\ Invalid.ret = 0
  /\ DOMAIN Invalid.parts = {}
  /\ \A bodies : LET r == [Invalid EXCEPT !.tree = TRUE, !.bodies = bodies]
                 IN  /\ DOMAIN r = DOMAIN Invalid /\ r.tree = TRUE /\ r.total = 0 /\ r.ret = 0
                     /\ DOMAIN r.parts = {} /\ IsComplete(r) /\ r.bodies = bodies
BY DEF Invalid, IsComplete

\* What AddPartial makes of the parts: a whole packet, nothing, or the same
\* protocol without its parts.
LEMMA MergeIs ==
  ASSUME NEW parts, NEW n, NEW r \in Merge(parts, n)
  PROVE  \/ r = [rcv EXCEPT !.parts = <<>>]
         \/ r = Invalid
         \/ \E bodies : r = [Invalid EXCEPT !.tree = TRUE, !.bodies = bodies]
BY DEF Merge

\* AddPartial keeps the receiver's part of the invariant.
LEMMA ReceiverStep ==
  ASSUME ReceiverOK, WaitsForMissing, oom \in BOOLEAN, NEW p, PacketOK(p),
         Assign(p) \/ AddPartial(p) \/ AddLastPartial(p) \/ AddPartialNoMemory(p)
  PROVE  ReceiverOK' /\ WaitsForMissing' /\ oom' \in BOOLEAN /\ UNCHANGED <<snd, sent, posted, calls>>
<1> DEFINE part == Decode(p)
           w == WithPart(part)
<1>0. 0 \in 0 .. CountRange - 1
  BY DEF CountRange
<1>1. UNCHANGED <<snd, sent, posted, calls>>
  BY DEF Assign, AddPartial, AddLastPartial, AddPartialNoMemory
<1>2. /\ DOMAIN part = DOMAIN Invalid
      /\ part.tree = TRUE /\ part.total \in 0 .. CountRange - 1
      /\ DOMAIN part.parts \subseteq 0 .. CountRange - 1
      /\ ~IsComplete(part) => /\ DOMAIN part.parts = {part.curr} /\ part.total >= 2
                              /\ PartOf(part.parts[part.curr], part.curr, part.total)
  BY DecodeIs
<1> HIDE DEF part
<1>3. CASE Assign(p)
  <2>1. rcv' = part /\ oom' = oom
    BY <1>3 DEF Assign, part
  <2>2. ReceiverOK'
    BY <1>1, <1>2, <2>1 DEF ReceiverOK, PartOf
  <2>3. WaitsForMissing'
    <3> SUFFICES ASSUME ~IsComplete(part)
                 PROVE  \E i \in 0 .. part.total - 1 : i \notin DOMAIN part.parts
      BY <2>1 DEF WaitsForMissing
    <3>1. 0 \in 0 .. part.total - 1 /\ 1 \in 0 .. part.total - 1 /\ 0 # 1
      BY <1>2
    <3> QED BY <3>1, <1>2
  <2> QED BY <1>1, <2>1, <2>2, <2>3
<1>4. ASSUME ~StartsOver(part), IsNewPart(part)
      PROVE  /\ rcv.tree /\ ~IsComplete(rcv) /\ rcv.total \in Nat /\ rcv.total >= 2
             /\ \A i \in DOMAIN w : PartOf(w[i], i, rcv.total)
             /\ DOMAIN w \subseteq 0 .. CountRange - 1
  <2>1. ~IsComplete(part) /\ part.curr \in DOMAIN part.parts
    BY <1>4 DEF StartsOver, IsNewPart
  <2>2. PartOf(part.parts[part.curr], part.curr, part.total)
    BY <1>2, <2>1
  <2>3. rcv.tree /\ ~IsComplete(rcv) /\ rcv.total = part.total
    BY <1>4 DEF StartsOver
  <2>4. rcv.total \in Nat /\ rcv.total >= 2
    BY <1>2, <2>1, <2>3 DEF CountRange
  <2> QED BY <1>4, <2>1, <2>2, <2>3, <2>4, WithPartIs
<1> HIDE DEF w
<1>5. CASE AddPartial(p)
  <2>1. /\ ~StartsOver(part) /\ IsNewPart(part) /\ ~HasAll(w) /\ rcv' = [rcv EXCEPT !.parts = w]
        /\ oom' = oom
    BY <1>5 DEF AddPartial, part, w
  <2>2. ReceiverOK' /\ rcv'.total = rcv.total /\ rcv'.parts = w
    BY <1>1, <1>4, <2>1, ReceiverKeeps
  <2>3. PICK i \in 0 .. rcv.total - 1 : ~(i \in DOMAIN w /\ w[i].len > 0)
    BY <2>1 DEF HasAll
  <2>4. i \notin DOMAIN w
    BY <1>4, <2>1, <2>3, PartOfLen
  <2>5. WaitsForMissing'
    BY <2>2, <2>4 DEF WaitsForMissing
  <2> QED BY <1>1, <2>1, <2>2, <2>5
<1>6. CASE AddLastPartial(p)
  <2>1. ~StartsOver(part) /\ IsNewPart(part) /\ rcv' \in Merge(w, rcv.total) /\ oom' = oom
    BY <1>6 DEF AddLastPartial, part, w
  <2>2. CASE rcv' = [rcv EXCEPT !.parts = <<>>]
    <3>1. DOMAIN <<>> = {}
      OBVIOUS
    <3>2. ReceiverOK' /\ rcv'.total = rcv.total /\ rcv'.parts = <<>>
      BY <1>1, <2>2, <3>1, ReceiverKeeps
    <3>3. 0 \in 0 .. rcv'.total - 1 /\ 0 \notin DOMAIN rcv'.parts
      BY <1>4, <2>1, <3>1, <3>2
    <3>4. WaitsForMissing'
      BY <3>3 DEF WaitsForMissing
    <3> QED BY <1>1, <2>1, <3>2, <3>4
  <2>3. CASE rcv' = Invalid
    <3>1. ReceiverOK'
      BY <2>3, <1>0, InvalidIs DEF ReceiverOK
    <3>2. WaitsForMissing'
      BY <2>3, InvalidIs DEF WaitsForMissing
    <3> QED BY <1>1, <2>1, <3>1, <3>2
  <2>4. CASE \E bodies : rcv' = [Invalid EXCEPT !.tree = TRUE, !.bodies = bodies]
    <3>1. /\ DOMAIN rcv' = DOMAIN Invalid /\ rcv'.tree = TRUE /\ rcv'.total = 0
          /\ DOMAIN rcv'.parts = {} /\ IsComplete(rcv')
      BY <2>4, InvalidIs
    <3>2. ReceiverOK'
      BY <1>0, <3>1 DEF ReceiverOK
    <3>3. WaitsForMissing'
      BY <3>1 DEF WaitsForMissing
    <3> QED BY <1>1, <2>1, <3>2, <3>3
  <2> QED BY <2>1, <2>2, <2>3, <2>4, MergeIs
<1>7. CASE AddPartialNoMemory(p)
  <2>1. oom' = TRUE
    BY <1>7 DEF AddPartialNoMemory
  <2>2. WaitsForMissing'
    BY <2>1 DEF WaitsForMissing
  <2>3. CASE rcv' = Invalid
    <3>1. ReceiverOK'
      BY <2>3, <1>0, InvalidIs DEF ReceiverOK
    <3> QED BY <1>1, <2>1, <2>2, <3>1
  <2>4. CASE ~StartsOver(part) /\ IsNewPart(part) /\ rcv' = [rcv EXCEPT !.parts = w]
    <3>1. ReceiverOK'
      BY <1>1, <1>4, <2>4, ReceiverKeeps
    <3> QED BY <1>1, <2>1, <2>2, <3>1
  <2>5. CASE ~StartsOver(part) /\ IsNewPart(part) /\ rcv' = [rcv EXCEPT !.parts = <<>>]
    <3>1. DOMAIN <<>> = {}
      OBVIOUS
    <3>2. ReceiverOK'
      BY <1>1, <2>5, <3>1, ReceiverKeeps
    <3> QED BY <1>1, <2>1, <2>2, <3>2
  <2> QED BY <1>7, <2>3, <2>4, <2>5 DEF AddPartialNoMemory, part, w
<1> QED BY <1>3, <1>5, <1>6, <1>7

\* The parts of one packet, put together, are that packet.
LEMMA MergeWhole ==
  ASSUME NEW q, InParts(q), NEW parts, \A i \in 0 .. q.total - 1 : parts[i] = SliceOf(q, i)
  PROVE  Merge(parts, q.total) = {[Invalid EXCEPT !.tree = TRUE, !.bodies = q.what]}
<1> DEFINE n == q.total
           f == [k \in 1 .. n |-> parts[k - 1].len]
<1>1. n \in Nat /\ n >= 2 /\ q.size \in Nat \ {0} /\ q.full \in Nat
  BY DEF InParts
<1>2. ASSUME NEW i \in 0 .. n - 1
      PROVE  /\ parts[i].of = q.what /\ parts[i].full = q.full
             /\ parts[i].from = i * q.size
             /\ parts[i].len = IF i = n - 1 THEN q.full - i * q.size ELSE q.size
  <2>1. parts[i] = SliceOf(q, i)
    OBVIOUS
  <2>2. /\ SliceOf(q, i).of = q.what /\ SliceOf(q, i).full = q.full
        /\ SliceOf(q, i).from = i * q.size
        /\ SliceOf(q, i).len = IF i = n - 1 THEN q.full - i * q.size ELSE q.size
    BY Zenon DEF SliceOf
  <2> QED BY <2>1, <2>2, Zenon
<1>3. MergedLen(parts, n) = q.full
  <2>1. \A k \in 1 .. n - 1 : f[k] = q.size
    <3> SUFFICES ASSUME NEW k \in 1 .. n - 1 PROVE parts[k - 1].len = q.size
      BY <1>1
    <3>1. k - 1 \in 0 .. n - 1 /\ k - 1 # n - 1
      BY <1>1
    <3> QED BY <1>2, <3>1
  <2>2. f[n] = q.full - (n - 1) * q.size
    <3>1. n \in 1 .. n /\ n - 1 \in 0 .. n - 1
      BY <1>1
    <3>2. parts[n - 1].len = q.full - (n - 1) * q.size
      BY <1>2, <3>1
    <3> QED BY <3>1, <3>2
  <2>3. (n - 1) * q.size \in Int
    BY <1>1
  <2>4. MergedLen(parts, n) = SumTo(f, n)
    BY DEF MergedLen
  <2>5. q.full - (n - 1) * q.size \in Int /\ n \in Nat \ {0} /\ q.size \in Nat
    BY <1>1, <2>3
  <2> HIDE DEF f, n
  <2>6. SumTo(f, n) = (n - 1) * q.size + (q.full - (n - 1) * q.size)
    BY <2>1, <2>2, <2>5, SumEqual
  <2> QED BY <1>1, <2>3, <2>4, <2>6
<1>4. parts[0].from = 0 /\ parts[0].full = q.full /\ parts[0].of = q.what
  <2>1. 0 \in 0 .. n - 1 /\ 0 * q.size = 0
    BY <1>1
  <2> QED BY <1>2, <2>1
<1>5. InOrder(parts, n)
  <2> SUFFICES ASSUME NEW i \in 0 .. n - 2
               PROVE  /\ parts[i + 1].from = parts[i].from + parts[i].len
                      /\ parts[i + 1].of = parts[i].of
                      /\ parts[i + 1].full = parts[i].full
    BY <1>4 DEF InOrder
  <2>1. i \in 0 .. n - 1 /\ i + 1 \in 0 .. n - 1 /\ i # n - 1
    BY <1>1
  <2>2. (i + 1) * q.size = i * q.size + q.size
    <3>1. \A a, b \in Nat : (a + 1) * b = a * b + b
      OBVIOUS
    <3>2. i \in Nat /\ q.size \in Nat
      BY <1>1
    <3> QED BY <3>1, <3>2
  <2>3. parts[i].from = i * q.size /\ parts[i].len = q.size /\ parts[i + 1].from = (i + 1) * q.size
    BY <1>2, <2>1
  <2> QED BY <1>2, <2>1, <2>2, <2>3
<1>6. ~(MergedLen(parts, n) < parts[0].full \/ parts[0].from # 0)
  BY <1>1, <1>3, <1>4
<1> QED BY <1>4, <1>5, <1>6 DEF Merge

\* Without packets in the same number of parts, or in too many, the parts of a
\* receiver that waits are parts of one packet.
LEMMA OneSource ==
  ASSUME ~Confusable, ~Wrapped, NEW n, NEW y, NEW j, PartOf(y, j, n)
  PROVE  \E q \in posted : /\ InParts(q) /\ q.total = n
                           /\ \A x, i : PartOf(x, i, n) => x = SliceOf(q, i)
<1>1. PICK q \in posted : InParts(q) /\ q.total % CountRange = n /\ y = SliceOf(q, j)
  BY DEF PartOf
<1>2. ASSUME NEW r \in posted, InParts(r), r.total % CountRange = n
      PROVE  r.total = n /\ r.total # 0
  <2>1. r.total \in Nat /\ r.total >= 2 /\ ~(r.total >= CountRange)
    BY <1>2 DEF InParts, Wrapped
  <2> QED BY <1>2, <2>1 DEF CountRange
<1>3. q.total = n /\ n # 0
  BY <1>1, <1>2
<1>4. ASSUME NEW x, NEW i, PartOf(x, i, n)
      PROVE  x = SliceOf(q, i)
  <2>1. PICK r \in posted : InParts(r) /\ r.total % CountRange = n /\ x = SliceOf(r, i)
    BY <1>4 DEF PartOf
  <2>2. r.total = n
    BY <1>2, <2>1
  <2>3. r = q
    BY <1>3, <2>2 DEF Confusable
  <2> QED BY <2>1, <2>3
<1> QED BY <1>1, <1>3, <1>4

\* With the last part the packet is complete, and is one that was posted.
LEMMA LastPartCompletes ==
  ASSUME ReceiverOK, NEW p, PacketOK(p), AddLastPartial(p), ~Confusable, ~Wrapped
  PROVE  \E q \in posted : rcv' = [Invalid EXCEPT !.tree = TRUE, !.bodies = q.what]
<1> DEFINE part == Decode(p)
           w == WithPart(part)
<1>1. ~StartsOver(part) /\ IsNewPart(part) /\ HasAll(w) /\ rcv' \in Merge(w, rcv.total)
  BY DEF AddLastPartial
<1>2. /\ ~IsComplete(part) /\ part.curr \in DOMAIN part.parts /\ rcv.total = part.total
  BY <1>1 DEF StartsOver, IsNewPart
<1>3. PartOf(part.parts[part.curr], part.curr, part.total)
  BY <1>2, DecodeIs
<1> HIDE DEF part
<1>4. \A i \in DOMAIN w : PartOf(w[i], i, rcv.total)
  BY <1>1, <1>2, <1>3, WithPartIs
<1> HIDE DEF w
<1>5. PICK q \in posted : /\ InParts(q) /\ q.total = rcv.total
                          /\ \A x, i : PartOf(x, i, rcv.total) => x = SliceOf(q, i)
  BY <1>2, <1>3, OneSource
<1>6. \A i \in 0 .. q.total - 1 : w[i] = SliceOf(q, i)
  BY <1>1, <1>4, <1>5 DEF HasAll
<1>7. Merge(w, q.total) = {[Invalid EXCEPT !.tree = TRUE, !.bodies = q.what]}
  BY <1>5, <1>6, MergeWhole
<1> QED BY <1>1, <1>5, <1>7

-----------------------------------------------------------------------------
(***************************************************************************)
(* Invariance.                                                             *)
(***************************************************************************)

\* Packets and a receiver stay what they are when more is posted.
LEMMA Frame ==
  ASSUME IInv, SenderOK', posted \subseteq posted', UNCHANGED <<sent, rcv, oom>>, calls' \in 0 .. MaxCalls
  PROVE  IInv'
<1>1. ASSUME NEW p \in sent PROVE PacketOK(p)'
  <2>1. PacketOK(p)
    BY DEF IInv
  <2> QED BY <2>1 DEF PacketOK
<1>2. ReceiverOK'
  BY DEF IInv, ReceiverOK
<1>3. WaitsForMissing'
  BY DEF IInv, WaitsForMissing
<1>4. oom' \in BOOLEAN
  BY DEF IInv
<1> QED BY <1>1, <1>2, <1>3, <1>4 DEF IInv

\* A packet more that is as it should be.
LEMMA OneMore ==
  ASSUME IInv, SenderOK', UNCHANGED <<rcv, posted, oom, calls>>, NEW p, PacketOK(p), sent' = sent \union {p}
  PROVE  IInv'
<1>1. ASSUME NEW r \in sent' PROVE PacketOK(r)'
  <2>1. PacketOK(r)
    BY DEF IInv
  <2> QED BY <2>1 DEF PacketOK
<1>2. ReceiverOK'
  BY DEF IInv, ReceiverOK
<1>3. WaitsForMissing'
  BY DEF IInv, WaitsForMissing
<1>4. oom' \in BOOLEAN /\ calls' \in 0 .. MaxCalls
  BY DEF IInv
<1> QED BY <1>1, <1>2, <1>3, <1>4 DEF IInv

\* The calls are counted.
LEMMA CallingCounts ==
  ASSUME calls \in 0 .. MaxCalls, Calling
  PROVE  calls' \in 0 .. MaxCalls
BY MaxCallsAssumption DEF Calling

\* The initial states.
LEMMA InitOK == Init => IInv
<1> SUFFICES ASSUME Init PROVE IInv
  OBVIOUS
<1>1. SenderOK
  BY NewSenderIs DEF Init, SenderOK
<1>2. rcv = Invalid /\ sent = {} /\ oom = FALSE /\ calls \in 0 .. MaxCalls
  BY MaxCallsAssumption DEF Init
<1>3. 0 \in 0 .. CountRange - 1
  BY DEF CountRange
<1>4. ReceiverOK
  BY <1>2, <1>3, InvalidIs DEF ReceiverOK
<1>5. WaitsForMissing
  BY <1>2, InvalidIs DEF WaitsForMissing
<1> QED BY <1>1, <1>2, <1>4, <1>5 DEF IInv

\* The kinds of steps.
SenderStep ==
  \/ \E allow \in BOOLEAN, size \in PkgSizes : Construct(allow, size) \/ SetAllowSplit(allow, size)
  \/ \E len \in ErrLens : SetError(len)
  \/ \E b \in Bodies : AddBody(b)
  \/ RemoveAllBodies

\* A step that prepares a packet leaves a protocol that is not split.
LEMMA SenderStepMakes ==
  ASSUME SenderOK, SenderStep
  PROVE  SenderOK' /\ ~snd'.split /\ UNCHANGED <<sent, rcv, posted, oom>> /\ Calling
<1>1. snd \in Senders
  BY DEF SenderOK
<1>2. UNCHANGED <<sent, rcv, posted, oom>> /\ Calling
  BY DEF SenderStep, Construct, SetAllowSplit, SetError, AddBody, RemoveAllBodies
<1>3. SUFFICES /\ snd' \in Senders /\ ~snd'.split
               /\ \/ snd'.total = NoField /\ snd'.total_split_count = 0
                  \/ snd'.total = snd.total /\ snd'.total_split_count = snd.total_split_count
  BY <1>2 DEF SenderOK
<1>4. ASSUME NEW allow \in BOOLEAN, NEW size \in PkgSizes, Construct(allow, size)
      PROVE  snd' \in Senders /\ ~snd'.split /\ snd'.total = NoField /\ snd'.total_split_count = 0
  BY <1>4, NewSenderIs DEF Construct
<1>5. ASSUME NEW allow \in BOOLEAN, NEW size \in PkgSizes, SetAllowSplit(allow, size)
      PROVE  /\ snd' \in Senders /\ ~snd'.split
             /\ snd'.total = snd.total /\ snd'.total_split_count = snd.total_split_count
  <2> DEFINE m == IF size # 0 THEN size % SizeRange ELSE snd.max_pkg_sz
  <2>1. m \in 0 .. SizeRange - 1
    <3>1. size % SizeRange \in 0 .. SizeRange - 1
      BY SizeFits
    <3>2. snd.max_pkg_sz \in 0 .. SizeRange - 1
      BY <1>1 DEF Senders
    <3> QED BY <3>1, <3>2
  <2>2. snd' = [snd EXCEPT !.split = FALSE, !.allow_split = allow, !.max_pkg_sz = m]
    BY <1>5 DEF SetAllowSplit
  <2> HIDE DEF m
  <2> QED BY <1>1, <2>1, <2>2 DEF Senders
<1>6. ASSUME NEW len \in ErrLens, SetError(len)
      PROVE  /\ snd' \in Senders /\ ~snd'.split
             /\ snd'.total = snd.total /\ snd'.total_split_count = snd.total_split_count
  <2>1. len \in Nat
    BY LensAssumption
  <2> QED BY <1>1, <1>6, <2>1 DEF SetError, Senders
<1>7. ASSUME NEW b \in Bodies, AddBody(b)
      PROVE  /\ snd' \in Senders /\ ~snd'.split
             /\ snd'.total = snd.total /\ snd'.total_split_count = snd.total_split_count
  <2>1. b.keyed \in BOOLEAN
    BY BodiesAssumption
  <2>2. Append(snd.bodies, b) \in Seq(Bodies) /\ (snd.child_has_key \/ b.keyed) \in BOOLEAN
    BY <1>1, <2>1 DEF Senders
  <2>3. snd' = [snd EXCEPT !.split = FALSE, !.bodies = Append(snd.bodies, b),
                           !.child_has_key = snd.child_has_key \/ b.keyed]
    BY <1>7 DEF AddBody
  <2> QED BY <1>1, <2>2, <2>3 DEF Senders
<1>8. ASSUME RemoveAllBodies
      PROVE  /\ snd' \in Senders /\ ~snd'.split
             /\ snd'.total = snd.total /\ snd'.total_split_count = snd.total_split_count
  <2>1. <<>> \in Seq(Bodies)
    OBVIOUS
  <2> QED BY <1>1, <1>8, <2>1 DEF RemoveAllBodies, Senders
<1> QED BY <1>4, <1>5, <1>6, <1>7, <1>8 DEF SenderStep

\* Every step keeps the invariant.
LEMMA NextOK == IInv /\ [Next]_vars => IInv'
<1> SUFFICES ASSUME IInv, [Next]_vars PROVE IInv'
  OBVIOUS
<1>1. SenderOK /\ ReceiverOK /\ WaitsForMissing /\ oom \in BOOLEAN /\ calls \in 0 .. MaxCalls /\ snd \in Senders
  BY DEF IInv, SenderOK
<1>2. CASE SenderStep
  BY <1>1, <1>2, SenderStepMakes, CallingCounts, Frame
<1>3. ASSUME NEW b \in Bodies \union {NoBody}, SplitNot(b) PROVE IInv'
  <2>1. SenderOK' /\ posted \subseteq posted'
    BY <1>1, <1>3, SplitNotMakes DEF SenderOK
  <2>2. UNCHANGED <<sent, rcv, oom>> /\ Calling
    BY <1>3 DEF SplitNot, MaySplit
  <2> QED BY <1>1, <2>1, <2>2, CallingCounts, Frame
<1>4. ASSUME NEW b \in Bodies \union {NoBody}, SplitFail(b) PROVE IInv'
  <2>1. SenderOK'
    BY <1>1, <1>4, SplitFailMakes DEF SenderOK
  <2>2. UNCHANGED <<sent, rcv, oom, posted>> /\ Calling
    BY <1>4 DEF SplitFail, MaySplit
  <2> QED BY <1>1, <2>1, <2>2, CallingCounts, Frame
<1>5. ASSUME NEW b \in Bodies \union {NoBody}, Split(b) PROVE IInv'
  <2>1. /\ snd' \in Senders /\ posted \subseteq posted'
        /\ snd'.total >= 2 /\ snd'.total_split_count = snd'.total % CountRange
        /\ snd'.ret # 1 /\ \E q \in posted' : HasParts(snd', q)
    BY <1>1, <1>5, SplitMakes, SplitNoError
  <2>2. SenderOK'
    BY <2>1 DEF SenderOK, NoField
  <2>3. UNCHANGED <<sent, rcv, oom>> /\ Calling
    BY <1>5 DEF Split, MaySplit
  <2> QED BY <1>1, <2>1, <2>2, <2>3, CallingCounts, Frame
<1>6. CASE EncodePartBody
  <2>1. SenderOK'
    BY <1>1, <1>6, EncodePartBodySends, NoErrorIs, SenderSame
  <2> QED BY <1>1, <1>6, <2>1, EncodePartBodySends, OneMore
<1>7. CASE EncodePartAll
  <2>1. snd' = snd /\ posted' = posted
    BY <1>1, <1>7, EncodePartAllSends
  <2>2. SenderOK'
    BY <1>1, <2>1 DEF SenderOK
  <2> QED BY <1>1, <1>7, <2>2, EncodePartAllSends, OneMore
<1>8. ASSUME NEW i \in 0 .. snd.total_split_count - 1, EncodePart(i) PROVE IInv'
  <2>1. /\ SndSame(snd, snd') /\ snd' = NoError(WithIndex(snd, i)) /\ i \in Nat
        /\ UNCHANGED <<rcv, posted, oom, calls>>
    BY <1>1, <1>8, EncodePartSends
  <2>2. WithIndex(snd, i) \in Senders
    BY <1>1, <2>1, WithIndexIs
  <2>3. snd'.ret # 1
    BY <2>1, <2>2, NoErrorIs
  <2>4. SenderOK'
    BY <1>1, <2>1, <2>3, SenderSame
  <2>5. PICK p : PacketOK(p) /\ sent' = sent \union {p}
    BY <1>1, <1>8, EncodePartSends
  <2> QED BY <2>1, <2>4, <2>5, OneMore
<1>9. ASSUME NEW p \in sent, Assign(p) \/ AddPartial(p) \/ AddLastPartial(p) \/ AddPartialNoMemory(p)
      PROVE  IInv'
  <2>1. PacketOK(p)
    BY DEF IInv
  <2>2. ReceiverOK' /\ WaitsForMissing' /\ oom' \in BOOLEAN /\ UNCHANGED <<snd, sent, posted, calls>>
    BY <1>1, <1>9, <2>1, ReceiverStep
  <2>3. SenderOK'
    BY <1>1, <2>2 DEF SenderOK
  <2>4. ASSUME NEW r \in sent' PROVE PacketOK(r)'
    <3>1. PacketOK(r)
      BY <2>2 DEF IInv
    <3> QED BY <2>2, <3>1 DEF PacketOK
  <2> QED BY <1>1, <2>2, <2>3, <2>4 DEF IInv
<1>10. CASE UNCHANGED vars
  <2>1. SenderOK'
    BY <1>1, <1>10 DEF SenderOK, vars
  <2> QED BY <1>1, <1>10, <2>1, Frame DEF vars
<1> QED BY <1>2, <1>3, <1>4, <1>5, <1>6, <1>7, <1>8, <1>9, <1>10 DEF Next, SenderStep

\* KnvSplit, however callers use the protocols: the tree, the packets and the
\* receiver hold parts of posted packets.
THEOREM Invariance == Spec => []IInv
BY InitOK, NextOK, PTL DEF Spec

\* The invariant gives the counters their ranges.
LEMMA TypesOK == IInv => TypeOK
<1> SUFFICES ASSUME IInv PROVE TypeOK
  OBVIOUS
<1>1. snd.total_split_count \in 0 .. CountRange - 1 /\ snd.max_pkg_sz \in 0 .. SizeRange - 1
  BY DEF IInv, SenderOK, Senders
<1>2. \A p \in sent : p.total = NoField \/ p.total >= 2
  BY DEF IInv, PacketOK
<1>3. /\ rcv.tree \in BOOLEAN /\ rcv.total \in 0 .. CountRange - 1
      /\ DOMAIN rcv.parts \subseteq 0 .. CountRange - 1
  BY DEF IInv, ReceiverOK
<1> QED BY <1>1, <1>2, <1>3 DEF IInv, TypeOK

\* The counters of Split, EncodePart and AddPartial fit into their fields
\* (protocol.h:93-95), and no packet says that it is one of fewer than two parts.
THEOREM Types == Spec => []TypeOK
BY TypesOK, Invariance, PTL

\* AddPartial never waits for nothing: a receiver that is not complete misses a
\* part, whatever was lost, repeated or reordered, and however the sender uses
\* its protocol.
THEOREM NeverWaitsInVain == Spec => []WaitsForMissing
<1>1. IInv => WaitsForMissing
  BY DEF IInv
<1> QED BY <1>1, Invariance, PTL

\* However callers use a protocol again, a packet that EncodePart sends as a part
\* is the part of that index of what the last Split was asked to send.
THEOREM PartsAsAsked == Spec => []SlicesAsAsked
<1>1. IInv => SlicesAsAsked
  <2> SUFFICES ASSUME IInv, NEW p \in sent, p.parts # <<>>
               PROVE  /\ DOMAIN p.parts = {p.curr}
                      /\ \E q \in posted : /\ q.what = p.what /\ q.total = p.total
                                           /\ p.parts[p.curr].of = q.what
                                           /\ p.parts[p.curr].full = q.full
                                           /\ p.parts[p.curr].from = p.curr * q.size
    BY DEF SlicesAsAsked
  <2>1. PICK q \in posted : IsPartOf(p, q)
    BY DEF IInv, PacketOK
  <2>2. DOMAIN p.parts = {p.curr} /\ q.what = p.what /\ q.total = p.total
    BY <2>1 DEF IsPartOf
  <2>3. /\ p.parts[p.curr].of = q.what /\ p.parts[p.curr].full = q.full
        /\ p.parts[p.curr].from = p.curr * q.size
    BY <2>1 DEF IsPartOf, SliceOf
  <2> QED BY <2>2, <2>3
<1> QED BY <1>1, Invariance, PTL

\* AddPartial loses no part that it has while packets with the same number of
\* parts arrive, unless the last one came and there was no memory for the whole
\* packet.
THEOREM PartsStay == Spec => PartsKept
<1> DEFINE A == /\ rcv.tree /\ ~IsComplete(rcv)
                /\ rcv'.tree /\ ~IsComplete(rcv') /\ rcv'.total = rcv.total
                => Confusable \/ Wrapped \/ MergeLost \/ DOMAIN rcv.parts \subseteq DOMAIN rcv'.parts
<1>1. ASSUME IInv, [Next]_vars PROVE [A]_vars
  <2> SUFFICES ASSUME rcv' # rcv, rcv.tree, ~IsComplete(rcv), rcv'.tree, ~IsComplete(rcv'),
                      rcv'.total = rcv.total, ~Confusable, ~Wrapped, ~MergeLost
               PROVE  DOMAIN rcv.parts \subseteq DOMAIN rcv'.parts
    BY DEF vars
  <2>1. SenderOK /\ ReceiverOK
    BY <1>1 DEF IInv
  <2>2. PICK p \in sent : Assign(p) \/ AddPartial(p) \/ AddLastPartial(p) \/ AddPartialNoMemory(p)
    BY <1>1 DEF Next, vars, Construct, SetAllowSplit, SetError, AddBody, RemoveAllBodies, SplitNot,
                SplitFail, Split, EncodePartBody, EncodePartAll, EncodePart, Send
  <2>3. PacketOK(p)
    BY <1>1 DEF IInv
  <2> DEFINE part == Decode(p)
             w == WithPart(part)
  <2>4. ~IsComplete(part) => part.curr < part.total /\ part.total \in Nat /\ part.curr \in Nat
    <3> SUFFICES ASSUME ~IsComplete(part)
                 PROVE  part.curr < part.total /\ part.total \in Nat /\ part.curr \in Nat
      OBVIOUS
    <3>1. PartOf(part.parts[part.curr], part.curr, part.total) /\ part.total \in 0 .. CountRange - 1
      BY <2>3, DecodeIs
    <3>2. CountRange \in Int
      BY DEF CountRange
    <3> HIDE DEF part
    <3>3. part.curr < part.total /\ part.curr \in Nat
      BY <3>1 DEF PartOf
    <3> QED BY <3>1, <3>2, <3>3
  <2>5. ASSUME StartsOver(part), rcv' = part PROVE FALSE
    <3>1. part.curr >= rcv.total /\ part.total = rcv.total
      BY <2>5 DEF StartsOver
    <3> QED BY <2>4, <2>5, <3>1
  <2>6. ASSUME rcv' = Invalid PROVE FALSE
    BY <2>6, InvalidIs
  <2>7. ASSUME rcv' = [rcv EXCEPT !.parts = w] PROVE DOMAIN rcv.parts \subseteq DOMAIN rcv'.parts
    <3>1. rcv'.parts = w
      BY <2>1, <2>7 DEF ReceiverOK, Invalid
    <3>2. DOMAIN w = DOMAIN rcv.parts \union {part.curr}
      BY DEF WithPart
    <3> QED BY <3>1, <3>2
  <2>8. ASSUME AddLastPartial(p) PROVE FALSE
    <3>1. PICK q \in posted : rcv' = [Invalid EXCEPT !.tree = TRUE, !.bodies = q.what]
      BY <2>1, <2>3, <2>8, LastPartCompletes
    <3> QED BY <3>1, InvalidIs
  <2>9. ASSUME rcv' = [rcv EXCEPT !.parts = <<>>], oom', IsNewPart(part), HasAll(w) PROVE FALSE
    <3>1. rcv'.parts = <<>>
      BY <2>1, <2>9 DEF ReceiverOK, Invalid
    <3> QED BY <2>9, <3>1 DEF MergeLost
  <2> QED BY <2>2, <2>5, <2>6, <2>7, <2>8, <2>9 DEF Assign, AddPartial, AddPartialNoMemory
<1>2. Spec => [][A]_vars
  BY <1>1, Invariance, PTL DEF Spec
<1> QED BY <1>2 DEF PartsKept

-----------------------------------------------------------------------------
(***************************************************************************)
(* Callers that leave a protocol alone once it is split.  First, what the  *)
(* lengths depend on.                                                      *)
(***************************************************************************)

\* The header's length depends on its fields, and an error makes it longer.
LEMMA HeaderSizeOf ==
  ASSUME NEW s \in Senders, NEW t \in Senders, s.total = t.total, s.curr = t.curr
  PROVE  /\ s.ret = t.ret /\ s.err = t.err => HeaderSize(s) = HeaderSize(t)
         /\ s.ret = (IF t.ret = 1 THEN 0 ELSE t.ret) /\ s.err = 0 => HeaderSize(s) <= HeaderSize(t)
<1> DEFINE r(u) == IntFieldLen(KNV_PKG_HDR_RET_TAG, u.ret)
           e(u) == IF u.err = 0 THEN 0 ELSE StrFieldLen(KNV_PKG_HDR_ERR_TAG, u.err)
           n(u) == IntFieldLen(KNV_PKG_HDR_TOTAL_SPLIT_COUNT, u.total)
           c(u) == IntFieldLen(KNV_PKG_HDR_CURR_SPLIT_INDEX, u.curr)
           x(u) == HeaderFields + r(u) + e(u) + n(u) + c(u)
<1>1. \A u : HeaderSize(u) = StrFieldLen(KNV_PKG_HDR_TAG, x(u))
  BY DEF HeaderSize
<1>2. n(s) = n(t) /\ c(s) = c(t)
  OBVIOUS
<1>3. s.ret = t.ret /\ s.err = t.err => HeaderSize(s) = HeaderSize(t)
  <2> SUFFICES ASSUME s.ret = t.ret, s.err = t.err PROVE HeaderSize(s) = HeaderSize(t)
    OBVIOUS
  <2>1. r(s) = r(t) /\ e(s) = e(t)
    OBVIOUS
  <2> HIDE DEF r, e, n, c
  <2> QED BY <1>1, <1>2, <2>1
<1>4. ASSUME s.ret = (IF t.ret = 1 THEN 0 ELSE t.ret), s.err = 0
      PROVE  HeaderSize(s) <= HeaderSize(t)
  <2>1. r(s) = r(t) /\ r(t) \in Nat
    <3>1. t.ret \in {NoField, 0, 1}
      BY DEF Senders
    <3> QED BY <1>4, <3>1 DEF IntFieldLen, TagLen, VintLen, NoField, KNV_PKG_HDR_RET_TAG
  <2>2. e(s) = 0 /\ e(t) \in Nat
    <3>1. t.err \in Nat /\ KNV_PKG_HDR_ERR_TAG \in Nat
      BY DEF Senders, KNV_PKG_HDR_ERR_TAG
    <3> QED BY <1>4, <3>1, StrFieldLenNat
  <2>3. n(t) \in Nat /\ c(t) \in Nat
    <3>1. t.total \in Nat \union {NoField} /\ t.curr \in Nat \union {NoField}
      BY DEF Senders
    <3>2. \A tag \in Nat : \A v \in Nat \union {NoField} : IntFieldLen(tag, v) \in Nat
      BY VintLenRange DEF IntFieldLen, TagLen, NoField
    <3>3. KNV_PKG_HDR_TOTAL_SPLIT_COUNT \in Nat /\ KNV_PKG_HDR_CURR_SPLIT_INDEX \in Nat
      BY DEF KNV_PKG_HDR_TOTAL_SPLIT_COUNT, KNV_PKG_HDR_CURR_SPLIT_INDEX
    <3> QED BY <3>1, <3>2, <3>3
  <2>4. HeaderFields \in Nat
    BY LensAssumption
  <2> HIDE DEF r, e, n, c
  <2>5. x(s) \in Nat /\ x(t) \in Nat /\ x(s) <= x(t)
    BY <1>2, <2>1, <2>2, <2>3, <2>4
  <2> HIDE DEF x
  <2> QED BY <1>1, <2>5, TagsNat, StrFieldLenNat
<1> QED BY <1>3, <1>4

\* The children's lengths depend on the children.
LEMMA ChildrenSizeOf ==
  ASSUME NEW s, NEW t
  PROVE  /\ s.bodies = t.bodies => BodiesSize(s) = BodiesSize(t)
         /\ s.parts = t.parts => PartsSize(s) = PartsSize(t)
BY DEF BodiesSize, PartsSize

\* A packet is at most ten bytes longer than what is in there.
LEMMA PrefixLen ==
  ASSUME NEW x \in Nat
  PROVE  /\ StrFieldLen(KNV_PKG_TAG, x) \in Nat
         /\ StrFieldLen(KNV_PKG_TAG, x) <= x + 10
         /\ \A y \in Nat : x <= y => StrFieldLen(KNV_PKG_TAG, x) <= StrFieldLen(KNV_PKG_TAG, y)
<1>1. TagLen(KNV_PKG_TAG) \in 1 .. 5
  BY VintLenRange, TagsNat DEF TagLen
<1>2. VintLen(x) \in 1 .. 5
  BY VintLenRange
<1>3. StrFieldLen(KNV_PKG_TAG, x) <= x + 10
  BY <1>1, <1>2 DEF StrFieldLen
<1> QED BY <1>3, TagsNat, StrFieldLenNat

\* The body that is to be sent has a length.
LEMMA BodyLen ==
  ASSUME NEW b \in Bodies \union {NoBody}, b # NoBody
  PROVE  ChildLen(KNV_PKG_BDY_TAG, Whole(b)) \in Nat
<1>1. b.len \in Nat
  BY BodiesAssumption
<1> QED BY <1>1, TagsNat, StrFieldLenNat DEF ChildLen, Whole

\* What Split estimates is more than what it finds.
LEMMA CurSizeIsMore ==
  ASSUME snd \in Senders, NEW b \in Bodies \union {NoBody}
  PROVE  CurSize(b) \in Nat /\ Encoded(b).len \in Nat /\ Encoded(b).len < CurSize(b)
<1>1. Encoded(b).len \in Nat
  BY EncodedIs
<1>2. Fresh \in Senders /\ HeaderSize(Fresh) \in Nat
  BY FreshIs, HeaderSizeNat
<1>3. CASE b # NoBody
  <2> DEFINE a == AfterEncode(b)
             c == ChildLen(KNV_PKG_BDY_TAG, Whole(b))
  <2>1. a \in Senders /\ HeaderSize(a) \in Nat /\ HeaderSize(a) <= HeaderSize(Fresh)
    <3>1. a \in Senders
      BY AfterEncodeIs
    <3>2. a = NoError(Fresh)
      BY <1>3 DEF AfterEncode
    <3>3. /\ a.total = Fresh.total /\ a.curr = Fresh.curr /\ a.err = 0
          /\ a.ret = (IF Fresh.ret = 1 THEN 0 ELSE Fresh.ret)
      BY <1>2, <3>2, NoErrorIs
    <3> HIDE DEF a
    <3> QED BY <1>2, <3>1, <3>3, HeaderSizeNat, HeaderSizeOf
  <2>2. c \in Nat
    BY <1>3, BodyLen
  <2>3. Encoded(b).len = StrFieldLen(KNV_PKG_TAG, HeaderSize(a) + c)
    BY <1>3 DEF Encoded, EncodeWithBody
  <2>4. CurSize(b) = 32 + (HeaderSize(Fresh) + c)
    BY <1>3 DEF CurSize
  <2> HIDE DEF a, c
  <2>5. HeaderSize(a) + c \in Nat
    BY <2>1, <2>2
  <2>6. Encoded(b).len <= HeaderSize(a) + c + 10
    BY <2>3, <2>5, PrefixLen
  <2> QED BY <1>1, <1>2, <2>1, <2>2, <2>4, <2>6
<1>4. CASE b = NoBody
  <2>1. TreeSize(Fresh) \in Nat /\ CurSize(b) = 32 + TreeSize(Fresh)
    BY <1>2, <1>4, TreeSizeNat DEF CurSize
  <2>2. Encoded(b).len <= TreeSize(Fresh)
    <3>1. Encoded(b) = Encode(Fresh)
      BY <1>4 DEF Encoded, AfterEncode
    <3>2. ChildrenSize(Fresh) \in Nat
      BY <1>2, ChildrenSizeNat
    <3>3. StrFieldLen(KNV_PKG_TAG, HeaderSize(Fresh)) <= TreeSize(Fresh)
      <4>1. HeaderSize(Fresh) + ChildrenSize(Fresh) \in Nat
            /\ HeaderSize(Fresh) <= HeaderSize(Fresh) + ChildrenSize(Fresh)
        BY <1>2, <3>2
      <4> QED BY <1>2, <4>1, PrefixLen DEF TreeSize
    <3>4. CASE Fresh.ret = 1
      BY <3>1, <3>3, <3>4 DEF Encode
    <3>5. CASE Fresh.ret # 1
      BY <2>1, <3>1, <3>5 DEF Encode
    <3> QED BY <3>4, <3>5
  <2> QED BY <1>1, <2>1, <2>2
<1> QED BY <1>3, <1>4

\* A packet that is too long without the parts in its tree is too long with them.
LEMMA StillTooLongIs ==
  ASSUME snd \in Senders, NEW b \in Bodies \union {NoBody}, StillTooLong(b), b = NoBody => snd.ret # 1
  PROVE  TooLong(b) /\ HdrSize(b) < GetMaxPkgSize(snd)
<1>1. GetMaxPkgSize(snd) \in Nat
  BY MaxPkgSizeRange
<1>2. CurSize(b) \in Nat /\ Encoded(b).len \in Nat /\ Encoded(b).len < CurSize(b)
  BY CurSizeIsMore
<1>3. Encoded(b).len > GetMaxPkgSize(snd)
  <2>1. CASE b # NoBody
    BY <2>1 DEF StillTooLong, Bare
  <2>2. CASE b = NoBody
    <3>1. Fresh \in Senders /\ Fresh.ret # 1 /\ Fresh.bodies = snd.bodies
      BY <2>2, FreshIs
    <3>2. /\ BodiesSize(Fresh) \in Nat /\ PartsSize(Fresh) \in Nat /\ BodiesSize(Fresh) = BodiesSize(snd)
          /\ HeaderSize(Fresh) \in Nat
      BY <3>1, ChildrenSizeNat, ChildrenSizeOf, HeaderSizeNat
    <3>3. Encoded(b).len = StrFieldLen(KNV_PKG_TAG, HeaderSize(Fresh) + (BodiesSize(Fresh) + PartsSize(Fresh)))
      BY <2>2, <3>1 DEF Encoded, AfterEncode, Encode, TreeSize, ChildrenSize
    <3>4. /\ HeaderSize(Fresh) + (BodiesSize(Fresh) + PartsSize(Fresh)) \in Nat
          /\ HeaderSize(Fresh) + BodiesSize(Fresh) \in Nat
          /\ HeaderSize(Fresh) + BodiesSize(Fresh) <= HeaderSize(Fresh) + (BodiesSize(Fresh) + PartsSize(Fresh))
      BY <3>2
    <3>5. /\ StrFieldLen(KNV_PKG_TAG, HeaderSize(Fresh) + BodiesSize(Fresh)) <= Encoded(b).len
          /\ StrFieldLen(KNV_PKG_TAG, HeaderSize(Fresh) + BodiesSize(Fresh)) \in Nat
      BY <3>3, <3>4, PrefixLen
    <3>6. StrFieldLen(KNV_PKG_TAG, HeaderSize(Fresh) + BodiesSize(Fresh)) > GetMaxPkgSize(snd)
      BY <2>2, <3>2 DEF StillTooLong, Bare
    <3> QED BY <1>1, <1>2, <3>5, <3>6
  <2> QED BY <2>1, <2>2
<1>4. CurSize(b) > GetMaxPkgSize(snd)
  BY <1>1, <1>2, <1>3
<1> QED BY <1>3, <1>4 DEF StillTooLong, TooLong, NeedSplit

\* Fresh and AfterEncode of any protocol.
Cleared(s) == [s EXCEPT !.total_split_count = 1, !.total = NoField, !.curr = NoField]

After(s, b) == IF b # NoBody THEN NoError(Cleared(s)) ELSE Cleared(s)

\* Their fields.
LEMMA ClearedIs ==
  ASSUME NEW s \in Senders
  PROVE  /\ Cleared(s) \in Senders /\ Cleared(s).total = NoField /\ Cleared(s).curr = NoField
         /\ Cleared(s).ret = s.ret /\ Cleared(s).err = s.err
         /\ Cleared(s).bodies = s.bodies /\ Cleared(s).parts = s.parts
<1>1. 1 \in 0 .. CountRange - 1
  BY DEF CountRange
<1>2. Cleared(s) \in Senders
  BY <1>1 DEF Cleared, Senders
<1> QED BY <1>2 DEF Cleared, Senders

\* The error is cleared if there is a body of its own.
LEMMA AfterIs ==
  ASSUME NEW s \in Senders, NEW b
  PROVE  /\ After(s, b) \in Senders /\ After(s, b).total = NoField /\ After(s, b).curr = NoField
         /\ After(s, b).ret = (IF b # NoBody /\ s.ret = 1 THEN 0 ELSE s.ret)
         /\ After(s, b).err = (IF b # NoBody THEN 0 ELSE s.err)
<1>1. CASE b = NoBody
  BY <1>1, ClearedIs DEF After
<1>2. CASE b # NoBody
  <2>1. After(s, b) = NoError(Cleared(s))
    BY <1>2 DEF After
  <2> QED BY <1>2, <2>1, ClearedIs, NoErrorIs
<1> QED BY <1>1, <1>2

\* The error is the same, or was cleared for a packet with a body.
SameError(s, t, b) ==
  \/ t.ret = s.ret /\ t.err = s.err
  \/ b # NoBody /\ t.ret = (IF s.ret = 1 THEN 0 ELSE s.ret) /\ t.err = 0

\* What Split finds stays the same as long as header, bodies and size do.
LEMMA Quiet ==
  ASSUME snd \in Senders, snd' \in Senders, snd'.bodies = snd.bodies,
         snd'.allow_split = snd.allow_split, snd'.max_pkg_sz = snd.max_pkg_sz,
         NEW b \in Bodies \union {NoBody}, SameError(snd, snd', b)
  PROVE  /\ HdrSize(b)' = HdrSize(b) /\ Bare(b)' = Bare(b) /\ MayBeSplit(b)' = MayBeSplit(b)
         /\ GetMaxPkgSize(snd)' = GetMaxPkgSize(snd) /\ What(snd', b) = What(snd, b)
         /\ (b # NoBody \/ snd'.parts = snd.parts) => (TooLong(b)' => TooLong(b))
<1> DEFINE f == Cleared(snd)
           g == Cleared(snd')
           a == After(snd, b)
           c == After(snd', b)
<1>1. Fresh = f /\ Fresh' = g /\ AfterEncode(b) = a /\ AfterEncode(b)' = c
  BY DEF Fresh, Cleared, AfterEncode, After
<1>2. /\ f \in Senders /\ f.total = NoField /\ f.curr = NoField /\ f.ret = snd.ret /\ f.err = snd.err
      /\ f.bodies = snd.bodies /\ f.parts = snd.parts
  BY ClearedIs
<1>3. /\ g \in Senders /\ g.total = NoField /\ g.curr = NoField /\ g.ret = snd'.ret /\ g.err = snd'.err
      /\ g.bodies = snd.bodies /\ g.parts = snd'.parts
  BY ClearedIs
<1>4. /\ a \in Senders /\ a.total = NoField /\ a.curr = NoField
      /\ a.ret = (IF b # NoBody /\ snd.ret = 1 THEN 0 ELSE snd.ret)
      /\ a.err = (IF b # NoBody THEN 0 ELSE snd.err)
  BY AfterIs
<1>5. /\ c \in Senders /\ c.total = NoField /\ c.curr = NoField
      /\ c.ret = (IF b # NoBody /\ snd'.ret = 1 THEN 0 ELSE snd'.ret)
      /\ c.err = (IF b # NoBody THEN 0 ELSE snd'.err)
  BY AfterIs
<1>6. b = NoBody => a = f /\ c = g
  BY DEF After
<1> HIDE DEF f, g, a, c
<1>7. HeaderSize(c) = HeaderSize(a)
  <2>1. c.ret = a.ret /\ c.err = a.err
    BY <1>4, <1>5 DEF SameError
  <2> QED BY <1>4, <1>5, <2>1, HeaderSizeOf
<1>8. HeaderSize(g) <= HeaderSize(f) /\ HeaderSize(f) \in Nat /\ HeaderSize(g) \in Nat
  <2>1. HeaderSize(f) \in Nat /\ HeaderSize(g) \in Nat
    BY <1>2, <1>3, HeaderSizeNat
  <2>2. CASE g.ret = f.ret /\ g.err = f.err
    BY <1>2, <1>3, <2>1, <2>2, HeaderSizeOf
  <2>3. CASE g.ret = (IF f.ret = 1 THEN 0 ELSE f.ret) /\ g.err = 0
    BY <1>2, <1>3, <2>1, <2>3, HeaderSizeOf
  <2>4. \/ g.ret = f.ret /\ g.err = f.err
        \/ g.ret = (IF f.ret = 1 THEN 0 ELSE f.ret) /\ g.err = 0
    <3>1. \/ snd'.ret = snd.ret /\ snd'.err = snd.err
          \/ snd'.ret = (IF snd.ret = 1 THEN 0 ELSE snd.ret) /\ snd'.err = 0
      BY DEF SameError
    <3> QED BY <1>2, <1>3, <3>1
  <2> QED BY <2>1, <2>2, <2>3, <2>4
<1>9. HdrSize(b)' = HdrSize(b)
  BY <1>1, <1>7 DEF HdrSize
<1>10. GetMaxPkgSize(snd)' = GetMaxPkgSize(snd) /\ MayBeSplit(b)' = MayBeSplit(b)
  BY DEF GetMaxPkgSize, MayBeSplit, HasBody
<1>11. What(snd', b) = What(snd, b)
  <2>1. OwnNames(snd') = OwnNames(snd)
    BY DEF OwnNames
  <2> QED BY <2>1 DEF What, Encode, SameError
<1>12. BodiesSize(g) = BodiesSize(f) /\ BodiesSize(snd') = BodiesSize(snd)
       /\ (snd'.parts = snd.parts => PartsSize(g) = PartsSize(f))
  BY <1>2, <1>3, ChildrenSizeOf
<1>13. b = NoBody => HeaderSize(g) = HeaderSize(f)
  BY <1>6, <1>7
<1>14. b # NoBody => Encoded(b)'.len = Encoded(b).len
  BY <1>1, <1>7 DEF Encoded, EncodeWithBody
<1>15. Bare(b)' = Bare(b)
  <2>1. CASE b # NoBody
    BY <1>14, <2>1 DEF Bare
  <2>2. CASE b = NoBody
    BY <1>1, <1>12, <1>13, <2>2 DEF Bare
  <2> QED BY <2>1, <2>2
<1>16. ASSUME b # NoBody \/ snd'.parts = snd.parts, TooLong(b)'
       PROVE  TooLong(b)
  <2>1. CASE b # NoBody
    <3> DEFINE l == ChildLen(KNV_PKG_BDY_TAG, Whole(b))
    <3>1. l \in Nat
      BY <2>1, BodyLen
    <3>2. CurSize(b)' = 32 + (HeaderSize(g) + l) /\ CurSize(b) = 32 + (HeaderSize(f) + l)
      BY <1>1, <2>1 DEF CurSize
    <3> HIDE DEF l
    <3>3. CurSize(b)' <= CurSize(b) /\ CurSize(b)' \in Nat /\ CurSize(b) \in Nat
      BY <1>8, <3>1, <3>2
    <3>4. GetMaxPkgSize(snd) \in Nat
      BY MaxPkgSizeRange
    <3>5. /\ MayBeSplit(b)' /\ CurSize(b)' > GetMaxPkgSize(snd)' /\ Encoded(b)'.len > GetMaxPkgSize(snd)'
      BY <1>16 DEF TooLong, NeedSplit
    <3>6. CurSize(b) > GetMaxPkgSize(snd)
      BY <1>10, <3>3, <3>4, <3>5
    <3> QED BY <1>10, <1>14, <2>1, <3>5, <3>6 DEF TooLong, NeedSplit
  <2>2. CASE b = NoBody
    <3>1. TreeSize(g) = TreeSize(f)
      BY <1>12, <1>13, <1>16, <2>2 DEF TreeSize, ChildrenSize
    <3>2. g.ret = f.ret
      BY <1>2, <1>3, <2>2 DEF SameError
    <3>3. CurSize(b)' = CurSize(b)
      BY <1>1, <2>2, <3>1 DEF CurSize
    <3>4. Encoded(b)'.len = Encoded(b).len
      <4>1. Encoded(b)' = Encode(g) /\ Encoded(b) = Encode(f)
        BY <1>1, <1>6, <2>2 DEF Encoded
      <4>2. HeaderSize(g) = HeaderSize(f)
        BY <1>13, <2>2
      <4> QED BY <4>1, <4>2, <3>1, <3>2 DEF Encode
    <3> QED BY <1>10, <1>16, <3>3, <3>4 DEF TooLong, NeedSplit
  <2> QED BY <2>1, <2>2
<1> QED BY <1>9, <1>10, <1>11, <1>15, <1>16

-----------------------------------------------------------------------------
(***************************************************************************)
(* The sender stays tidy.                                                  *)
(***************************************************************************)

\* Sending changes nothing that Split has found.
LEMMA SplitAsQuiet ==
  ASSUME SenderOK, NEW b \in Bodies \union {NoBody}, SplitAs(b), SndSame(snd, snd'),
         SameError(snd, snd', b), posted' = posted, snd.total = NoField => snd'.curr = NoField
  PROVE  SplitAs(b)'
<1>1. snd \in Senders /\ snd' \in Senders
  BY DEF SenderOK, SndSame
<1>2. /\ snd'.total = snd.total /\ snd'.allow_split = snd.allow_split /\ snd'.max_pkg_sz = snd.max_pkg_sz
      /\ snd'.parts = snd.parts /\ snd'.bodies = snd.bodies /\ snd'.split = snd.split
      /\ snd'.what = snd.what /\ snd'.asked = snd.asked /\ snd'.limit = snd.limit
  BY DEF SndSame
<1>3. /\ HdrSize(b)' = HdrSize(b) /\ Bare(b)' = Bare(b) /\ MayBeSplit(b)' = MayBeSplit(b)
      /\ GetMaxPkgSize(snd)' = GetMaxPkgSize(snd) /\ What(snd', b) = What(snd, b)
      /\ (TooLong(b)' => TooLong(b))
  BY <1>1, <1>2, Quiet
<1>4. ASSUME snd.total = NoField PROVE InOne(b)'
  <2>1. InOne(b)
    BY <1>4 DEF SplitAs
  <2> QED BY <1>2, <1>3, <1>4, <2>1 DEF InOne
<1>5. ASSUME snd.total # NoField PROVE InSeveral(b)'
  <2>1. StillTooLong(b) /\ \E q \in posted : HasParts(snd, q) /\ q.size = GetMaxPkgSize(snd) - HdrSize(b)
    BY <1>5 DEF SplitAs, InSeveral
  <2>2. StillTooLong(b)'
    BY <1>3, <2>1 DEF StillTooLong
  <2>3. \E q \in posted' : HasParts(snd', q) /\ q.size = GetMaxPkgSize(snd)' - HdrSize(b)'
    <3>1. \A q : HasParts(snd, q) => HasParts(snd', q)
      BY <1>2 DEF HasParts
    <3> QED BY <1>3, <2>1, <3>1
  <2> QED BY <2>2, <2>3 DEF InSeveral
<1>6. IF snd'.total = NoField THEN InOne(b)' ELSE InSeveral(b)'
  BY <1>2, <1>4, <1>5
<1>7. /\ snd'.asked = b /\ snd'.what = What(snd', b) /\ \E q \in posted' : q.what = snd'.what
  BY <1>2, <1>3 DEF SplitAs
<1>8. snd'.limit = IF MayBeSplit(b)' THEN GetMaxPkgSize(snd)' ELSE 0
  BY <1>2, <1>3 DEF SplitAs
<1> QED BY <1>6, <1>7, <1>8 DEF SplitAs

\* So a tidy protocol stays tidy when it is sent.
LEMMA TidyQuiet ==
  ASSUME SenderOK, Tidy, snd.split, SndSame(snd, snd'), posted' = posted,
         snd.total = NoField => snd'.curr = NoField,
         \A b \in Bodies \union {NoBody} : SplitAs(b) => SameError(snd, snd', b)
  PROVE  Tidy'
<1>1. PICK b \in Bodies \union {NoBody} : SplitAs(b)
  BY DEF Tidy
<1>2. SplitAs(b)'
  BY <1>1, SplitAsQuiet
<1>3. snd'.err # 0 => snd'.ret = 1
  BY <1>1 DEF SameError, Tidy
<1>4. snd'.split
  BY DEF SndSame
<1> QED BY <1>2, <1>3, <1>4 DEF Tidy

\* Preparing a packet, with a protocol that is not split.
LEMMA TidyEdits ==
  ASSUME SenderOK, Tidy, Reuse = "never", SenderStep
  PROVE  Tidy'
<1>1. snd \in Senders /\ ~snd'.split
  BY SenderStepMakes DEF SenderOK
<1>2. SUFFICES Unsplit' /\ (snd'.err # 0 => snd'.ret = 1)
  BY <1>1 DEF Tidy
<1>3. ASSUME NEW allow, NEW size, Construct(allow, size)
      PROVE  Unsplit' /\ (snd'.err # 0 => snd'.ret = 1)
  BY <1>3 DEF Construct, NewSender, Unsplit
<1>4. ASSUME MayEdit \/ MayClear PROVE Unsplit /\ (snd.err # 0 => snd.ret = 1)
  BY <1>4 DEF MayEdit, MayClear, Tidy
<1>5. ASSUME NEW allow, NEW size, SetAllowSplit(allow, size)
      PROVE  Unsplit' /\ (snd'.err # 0 => snd'.ret = 1)
  <2>1. /\ snd'.err = snd.err /\ snd'.ret = snd.ret /\ snd'.parts = snd.parts
        /\ snd'.total = snd.total /\ snd'.curr = snd.curr
    BY <1>1, <1>5 DEF SetAllowSplit, Senders
  <2> QED BY <1>4, <1>5, <2>1 DEF SetAllowSplit, Unsplit
<1>6. ASSUME NEW len, SetError(len)
      PROVE  Unsplit' /\ (snd'.err # 0 => snd'.ret = 1)
  <2>1. snd'.ret = 1 /\ snd'.parts = snd.parts /\ snd'.total = snd.total /\ snd'.curr = snd.curr
    BY <1>1, <1>6 DEF SetError, Senders
  <2> QED BY <1>4, <1>6, <2>1 DEF SetError, Unsplit
<1>7. ASSUME NEW b, AddBody(b)
      PROVE  Unsplit' /\ (snd'.err # 0 => snd'.ret = 1)
  <2>1. /\ snd'.err = snd.err /\ snd'.ret = snd.ret /\ snd'.parts = snd.parts
        /\ snd'.total = snd.total /\ snd'.curr = snd.curr
    BY <1>1, <1>7 DEF AddBody, Senders
  <2> QED BY <1>4, <1>7, <2>1 DEF AddBody, Unsplit
<1>8. ASSUME RemoveAllBodies
      PROVE  Unsplit' /\ (snd'.err # 0 => snd'.ret = 1)
  <2>1. /\ snd'.err = snd.err /\ snd'.ret = snd.ret /\ snd'.parts = snd.parts
        /\ snd'.total = snd.total /\ snd'.curr = snd.curr
    BY <1>1, <1>8 DEF RemoveAllBodies, Senders
  <2> QED BY <1>4, <1>8, <2>1 DEF RemoveAllBodies, Unsplit
<1> QED BY <1>3, <1>5, <1>6, <1>7, <1>8 DEF SenderStep

\* A protocol that is split is split again for the same packet.
LEMMA AskedAgain ==
  ASSUME SenderOK, Tidy, Reuse = "never", NEW b \in Bodies \union {NoBody}, MaySplit(b)
  PROVE  \/ ~snd.split /\ Unsplit
         \/ snd.split /\ snd.total = NoField /\ InOne(b)
         \/ snd.split /\ InSeveral(b) /\ snd.ret # 1
<1>1. CASE ~snd.split
  BY <1>1 DEF Tidy
<1>2. CASE snd.split
  <2>1. b = snd.asked
    BY <1>2 DEF MaySplit
  <2>2. SplitAs(b)
    BY <1>2, <2>1 DEF Tidy, SplitAs
  <2>3. CASE snd.total = NoField
    BY <1>2, <2>2, <2>3 DEF SplitAs
  <2>4. CASE snd.total # NoField
    <3>1. snd.ret # 1
      BY <1>2, <2>4 DEF SenderOK
    <3> QED BY <1>2, <2>2, <2>4, <3>1 DEF SplitAs
  <2> QED BY <2>3, <2>4
<1> QED BY <1>1, <1>2

\* A packet that need not be split.
LEMMA TidySplitNot ==
  ASSUME SenderOK, Tidy, Reuse = "never", NEW b \in Bodies \union {NoBody}, SplitNot(b)
  PROVE  Tidy'
<1>1. snd \in Senders /\ ~TooLong(b) /\ MaySplit(b)
  BY DEF SenderOK, SplitNot
<1>2. /\ snd' \in Senders
      /\ posted' = posted \union {[what |-> What(snd, b), full |-> 0, total |-> 0, size |-> 0]}
      /\ snd'.total = NoField /\ snd'.curr = NoField
      /\ snd'.split /\ snd'.what = What(snd, b) /\ snd'.asked = b
      /\ snd'.limit = (IF MayBeSplit(b) THEN GetMaxPkgSize(snd) ELSE 0)
      /\ snd'.allow_split = snd.allow_split /\ snd'.max_pkg_sz = snd.max_pkg_sz
      /\ snd'.bodies = snd.bodies
      /\ b = NoBody => snd'.parts = snd.parts
      /\ b # NoBody => \E s \in Senders : s.parts = snd.parts /\ snd'.parts = PartCopy(s, b).parts
  BY <1>1, SplitNotMakes
<1>3. SameError(snd, snd', b)
  BY <1>1, SplitNotMakes DEF SameError
<1>4. /\ MayBeSplit(b)' = MayBeSplit(b)
      /\ GetMaxPkgSize(snd)' = GetMaxPkgSize(snd) /\ What(snd', b) = What(snd, b)
      /\ ~TooLong(b)'
  BY <1>1, <1>2, <1>3, Quiet
<1>5. Unsplit \/ InOne(b)
  <2>1. ASSUME InSeveral(b), snd.ret # 1 PROVE FALSE
    BY <1>1, <2>1, StillTooLongIs DEF InSeveral
  <2> QED BY <1>1, <2>1, AskedAgain
<1>6. IF b = NoBody THEN snd'.parts = <<>>
      ELSE /\ Len(snd'.parts) = 1 /\ snd'.parts[1] # <<>>
           /\ \A k \in 1 .. Len(snd'.parts[1]) : snd'.parts[1][k] = Whole(b)
  <2>1. CASE b = NoBody
    BY <1>2, <1>5, <2>1 DEF Unsplit, InOne
  <2>2. CASE b # NoBody
    <3>1. PICK s \in Senders : s.parts = snd.parts /\ snd'.parts = PartCopy(s, b).parts
      BY <1>2, <2>2
    <3>2. b \in Bodies
      BY <2>2
    <3>3. CASE s.parts = <<>>
      <4>1. snd'.parts = <<<<Whole(b)>>>>
        BY <3>1, <3>2, <3>3, PartCopyIs
      <4> QED BY <2>2, <4>1
    <3>4. CASE s.parts # <<>>
      <4> DEFINE old == snd.parts[1]
                 new == snd'.parts[1]
      <4>1. Len(snd.parts) = 1 /\ \A k \in 1 .. Len(old) : old[k] = Whole(b)
        BY <1>5, <2>2, <3>1, <3>4 DEF Unsplit, InOne
      <4>2. Len(snd'.parts) = 1 /\ new = Append(old, Whole(b)) /\ new # <<>>
        BY <3>1, <3>2, <3>4, <4>1, PartCopyIs
      <4>3. old \in Seq(Values)
        <5>1. snd.parts \in Seq(Seq(Values))
          BY <1>1 DEF Senders
        <5> QED BY <4>1, <5>1
      <4> HIDE DEF old, new
      <4>4. \A k \in 1 .. Len(new) : new[k] = Whole(b)
        BY <4>1, <4>2, <4>3
      <4> QED BY <2>2, <4>2, <4>4 DEF new
    <3> QED BY <3>3, <3>4
  <2> QED BY <2>1, <2>2
<1>7. InOne(b)'
  BY <1>2, <1>4, <1>6 DEF InOne
<1>8. \E q \in posted' : q.what = snd'.what
  <2> DEFINE q == [what |-> What(snd, b), full |-> 0, total |-> 0, size |-> 0]
  <2>1. q.what = What(snd, b)
    OBVIOUS
  <2>2. q \in posted'
    BY <1>2
  <2> HIDE DEF q
  <2> QED BY <1>2, <2>1, <2>2
<1>9. SplitAs(b)'
  <2>1. snd'.limit = IF MayBeSplit(b)' THEN GetMaxPkgSize(snd)' ELSE 0
    BY <1>2, <1>4
  <2> QED BY <1>2, <1>4, <1>7, <1>8, <2>1 DEF SplitAs
<1>10. snd'.err # 0 => snd'.ret = 1
  BY <1>3 DEF SameError, Tidy
<1> QED BY <1>2, <1>9, <1>10 DEF Tidy

\* A Split that fails has left no parts.
LEMMA TidySplitFail ==
  ASSUME SenderOK, Tidy, Reuse = "never", NEW b \in Bodies \union {NoBody}, SplitFail(b)
  PROVE  Tidy'
<1>1. snd \in Senders /\ TooLong(b) /\ MaySplit(b) /\ ~(HdrSize(b) < GetMaxPkgSize(snd))
  <2>1. snd \in Senders
    BY DEF SenderOK
  <2>2. HdrSize(b) \in Nat /\ GetMaxPkgSize(snd) \in Nat
    BY <2>1, HdrSizeNat, MaxPkgSizeRange
  <2> QED BY <2>1, <2>2 DEF SplitFail
<1>2. Unsplit
  BY <1>1, AskedAgain DEF InOne, InSeveral, StillTooLong
<1>3. /\ ~snd'.split /\ snd'.total = NoField /\ snd'.curr = NoField /\ snd'.parts = snd.parts
      /\ ((snd'.ret = snd.ret /\ snd'.err = snd.err) \/ snd'.err = 0)
  BY <1>1, SplitFailMakes
<1> QED BY <1>2, <1>3 DEF Tidy, Unsplit

\* A packet in parts.
LEMMA TidySplit ==
  ASSUME SenderOK, Tidy, Reuse = "never", NEW b \in Bodies \union {NoBody}, Split(b)
  PROVE  Tidy'
<1>1. snd \in Senders /\ TooLong(b) /\ MaySplit(b) /\ HdrSize(b) < GetMaxPkgSize(snd)
  BY DEF SenderOK, Split
<1>2. /\ snd' \in Senders /\ snd'.total >= 2
      /\ snd'.split /\ snd'.ret = AfterEncode(b).ret /\ snd'.err = AfterEncode(b).err
      /\ snd'.what = What(snd, b) /\ snd'.asked = b
      /\ snd'.limit = (IF MayBeSplit(b) THEN GetMaxPkgSize(snd) ELSE 0)
      /\ snd'.allow_split = snd.allow_split /\ snd'.max_pkg_sz = snd.max_pkg_sz
      /\ snd'.bodies = snd.bodies
      /\ \E q \in posted' : HasParts(snd', q) /\ q.size = GetMaxPkgSize(snd) - HdrSize(b)
  BY SplitMakes
<1>3. SameError(snd, snd', b)
  BY <1>1, <1>2, AfterEncodeIs DEF SameError
<1>4. /\ HdrSize(b)' = HdrSize(b) /\ Bare(b)' = Bare(b) /\ MayBeSplit(b)' = MayBeSplit(b)
      /\ GetMaxPkgSize(snd)' = GetMaxPkgSize(snd) /\ What(snd', b) = What(snd, b)
  BY <1>1, <1>2, <1>3, Quiet
<1>5. Bare(b) > GetMaxPkgSize(snd)
  <2>1. CASE b # NoBody
    BY <1>1, <2>1 DEF TooLong, Bare
  <2>2. CASE b = NoBody /\ Unsplit
    <3>1. /\ Fresh \in Senders /\ Fresh.ret = snd.ret /\ Fresh.parts = <<>> /\ Fresh.bodies = snd.bodies
      BY <1>1, <2>2, FreshIs DEF Unsplit
    <3>2. Fresh.ret # 1
      BY <2>2, SplitNoError DEF AfterEncode
    <3>3. /\ PartsSize(Fresh) = 0 /\ BodiesSize(Fresh) = BodiesSize(snd) /\ BodiesSize(Fresh) \in Nat
      BY <3>1, ChildrenSizeNat, ChildrenSizeOf
    <3>4. ChildrenSize(Fresh) = BodiesSize(snd)
      BY <3>3 DEF ChildrenSize
    <3>5. Encoded(b).len = StrFieldLen(KNV_PKG_TAG, HeaderSize(Fresh) + BodiesSize(snd))
      BY <2>2, <3>2, <3>4 DEF Encoded, AfterEncode, Encode, TreeSize
    <3> QED BY <1>1, <2>2, <3>5 DEF TooLong, Bare
  <2>3. CASE InSeveral(b)
    BY <2>3 DEF InSeveral, StillTooLong
  <2> QED BY <1>1, <2>1, <2>2, <2>3, AskedAgain DEF InOne
<1>6. StillTooLong(b)'
  <2>1. MayBeSplit(b)
    BY <1>1 DEF TooLong, NeedSplit
  <2> QED BY <1>1, <1>4, <1>5, <2>1 DEF StillTooLong
<1>7. InSeveral(b)'
  BY <1>2, <1>4, <1>6 DEF InSeveral
<1>8. SplitAs(b)'
  <2>1. snd'.limit = IF MayBeSplit(b)' THEN GetMaxPkgSize(snd)' ELSE 0
    BY <1>2, <1>4
  <2>2. \E q \in posted' : q.what = snd'.what
    BY <1>2 DEF HasParts
  <2>3. snd'.total # NoField
    BY <1>2 DEF NoField
  <2> QED BY <1>2, <1>4, <1>7, <2>1, <2>2, <2>3 DEF SplitAs
<1>9. snd'.err # 0 => snd'.ret = 1
  BY <1>3 DEF SameError, Tidy
<1> QED BY <1>2, <1>8, <1>9 DEF Tidy

\* Sending leaves the protocol tidy.
LEMMA TidyEncodePartBody ==
  ASSUME SenderOK, Tidy, EncodePartBody
  PROVE  Tidy'
<1>1. /\ snd \in Senders /\ SndSame(snd, snd') /\ snd' = NoError(snd) /\ posted' = posted /\ snd.split
  BY EncodePartBodySends DEF SenderOK, EncodePartBody
<1>2. /\ snd'.ret = (IF snd.ret = 1 THEN 0 ELSE snd.ret) /\ snd'.err = 0 /\ snd'.curr = snd.curr
  BY <1>1, NoErrorIs
<1>3. snd.total = NoField => snd.curr = NoField
  BY <1>1 DEF Tidy, SplitAs, InOne
<1>4. ASSUME NEW b \in Bodies \union {NoBody}, SplitAs(b) PROVE SameError(snd, snd', b)
  <2>1. CASE b # NoBody
    BY <1>2, <2>1 DEF SameError
  <2>2. CASE b = NoBody
    <3>1. snd.total # NoField
      <4> SUFFICES ASSUME snd.total = NoField PROVE FALSE
        OBVIOUS
      <4>1. snd.parts = <<>>
        BY <1>4, <2>2 DEF SplitAs, InOne
      <4>2. HasPart(snd, 0)
        BY DEF EncodePartBody
      <4>3. Len(<<>>) = 0
        OBVIOUS
      <4> QED BY <4>1, <4>2, <4>3 DEF HasPart
    <3>2. snd.ret # 1
      BY <1>1, <3>1 DEF SenderOK
    <3>3. snd.err = 0
      BY <3>2 DEF Tidy
    <3> QED BY <1>2, <3>2, <3>3 DEF SameError
  <2> QED BY <2>1, <2>2
<1> QED BY <1>1, <1>2, <1>3, <1>4, TidyQuiet

\* So does sending a part, which changes the index and no error.
LEMMA TidyEncodePart ==
  ASSUME SenderOK, Tidy, NEW i \in 0 .. snd.total_split_count - 1, EncodePart(i)
  PROVE  Tidy' /\ snd'.curr = i /\ snd'.ret = snd.ret /\ snd'.err = 0 /\ snd.err = 0
<1>1. /\ snd \in Senders /\ SndSame(snd, snd') /\ snd' = NoError(WithIndex(snd, i)) /\ snd.ret # 1
      /\ posted' = posted /\ snd.split /\ snd.total # NoField /\ i \in Nat
  BY EncodePartSends DEF SenderOK, EncodePart
<1>2. WithIndex(snd, i) \in Senders /\ WithIndex(snd, i).ret = snd.ret /\ WithIndex(snd, i).curr = i
  BY <1>1, WithIndexIs
<1>3. snd'.ret = snd.ret /\ snd'.err = 0 /\ snd'.curr = i
  BY <1>1, <1>2, NoErrorIs
<1>4. snd.err = 0
  BY <1>1 DEF Tidy
<1>5. \A b \in Bodies \union {NoBody} : SplitAs(b) => SameError(snd, snd', b)
  BY <1>3, <1>4 DEF SameError
<1> QED BY <1>1, <1>3, <1>4, <1>5, TidyQuiet

\* A step that leaves the sender alone does.
LEMMA TidyUnchanged ==
  ASSUME SenderOK, Tidy, snd' = snd, posted' = posted
  PROVE  Tidy'
<1>1. CASE ~snd.split
  BY <1>1 DEF Tidy, Unsplit
<1>2. CASE snd.split
  <2>1. SndSame(snd, snd')
    BY DEF SndSame, SenderOK
  <2>2. \A b \in Bodies \union {NoBody} : SplitAs(b) => SameError(snd, snd', b)
    BY DEF SameError
  <2>3. snd.total = NoField => snd'.curr = NoField
    BY <1>2 DEF Tidy, SplitAs, InOne
  <2> QED BY <1>2, <2>1, <2>2, <2>3, TidyQuiet
<1> QED BY <1>1, <1>2

-----------------------------------------------------------------------------
(***************************************************************************)
(* Every packet that is sent has what was asked for, and fits.             *)
(***************************************************************************)
PacketRight(p) ==
  /\ \E q \in posted : q.what = p.what
  /\ p.total # NoField => \E q \in posted : q.total = p.total
  /\ p.total < CountRange =>
       IF p.parts # <<>> THEN DOMAIN p.parts = {p.curr} /\ p.parts[p.curr].of = p.what
       ELSE p.bodies = p.what
  /\ p.limit # 0 /\ p.total < CountRange => p.len <= p.limit + Overrun(p)

\* The body in the tree is the one to be sent.
LEMMA CopyFound ==
  ASSUME SenderOK, NEW b \in Bodies, InOne(b), b # NoBody
  PROVE  FindChildByTag(snd, 0) = Whole(b)
<1> DEFINE l == snd.parts[1]
<1>1. snd.parts \in Seq(Seq(Values)) /\ Len(snd.parts) = 1
  BY DEF SenderOK, Senders, InOne
<1>2. l \in Seq(Values) /\ l # <<>> /\ \A k \in 1 .. Len(l) : l[k] = Whole(b)
  BY <1>1 DEF InOne
<1>3. FindChildByTag(snd, 0) = IF snd.child_has_key THEN Head(l) ELSE l[Len(l)]
  BY DEF FindChildByTag
<1> HIDE DEF l
<1>4. Len(l) \in Nat /\ Len(l) # 0
  BY <1>2
<1>5. Head(l) = l[1] /\ 1 \in 1 .. Len(l) /\ Len(l) \in 1 .. Len(l)
  BY <1>2, <1>4
<1> QED BY <1>2, <1>3, <1>5

\* A packet that is not split fits.
LEMMA WholeFits ==
  ASSUME snd \in Senders, NEW b \in Bodies \union {NoBody}, ~TooLong(b), MayBeSplit(b)
  PROVE  Encoded(b).len <= GetMaxPkgSize(snd)
<1>1. GetMaxPkgSize(snd) \in Nat
  BY MaxPkgSizeRange
<1>2. CurSize(b) \in Nat /\ Encoded(b).len \in Nat /\ Encoded(b).len < CurSize(b)
  BY CurSizeIsMore
<1> QED BY <1>1, <1>2 DEF TooLong, NeedSplit

\* The header of part i of n has the two fields more, and is followed by l bytes of
\* the packet, under a tag.
PartHeader(f, n, i) == f + (2 + VintLen(n)) + (2 + VintLen(i))

PartLen(f, n, i, l) ==
  (3 + VintLen(PartHeader(f, n, i)) + PartHeader(f, n, i)) + (2 + VintLen(l) + l)

\* What Split leaves for the bytes of a part.
Room(max, f) == max - (3 + VintLen(f) + f) - 16

\* The lengths of the prefixes and fields of a part, for a header with other
\* fields of length f: 16 bytes are enough for packets of less than 16 KB in less
\* than 128 parts, and 20 for all.
LEMMA PartArithmetic ==
  ASSUME NEW f \in Nat, NEW n \in Nat, NEW i \in Nat, NEW l \in Nat, NEW max \in Nat,
         n < 256, i < n, max <= 64000, l <= Room(max, f)
  PROVE  LET x == PartLen(f, n, i, l)
         IN  /\ 3 + VintLen(x) + x <= max + 4 /\ x \in Nat
             /\ max < 16384 => 3 + VintLen(x) + x <= max + 2
             /\ n < 128 => 3 + VintLen(x) + x <= max + 2
             /\ max < 16384 /\ n < 128 => 3 + VintLen(x) + x <= max
<1> DEFINE g == PartHeader(f, n, i)
           x == PartLen(f, n, i, l)
<1>0. /\ l <= max - (3 + VintLen(f) + f) - 16
      /\ g = f + (2 + VintLen(n)) + (2 + VintLen(i))
      /\ x = (3 + VintLen(g) + g) + (2 + VintLen(l) + l)
  BY DEF Room, PartHeader, PartLen
<1> HIDE DEF g, x
<1> DEFINE d == VintLen(n) + VintLen(i)
<1>1. d \in Nat /\ d <= 4 /\ (n < 128 => d = 2)
  BY DEF VintLen
<1>2. g = f + 4 + d
  <2>1. VintLen(n) \in Nat /\ VintLen(i) \in Nat
    BY VintLenRange
  <2> QED BY <1>0, <2>1
<1> HIDE DEF d
<1>3. g \in Nat /\ VintLen(g) \in Nat /\ VintLen(f) \in Nat /\ VintLen(g) <= VintLen(f) + 1
  <2>1. g \in Nat /\ g <= f + 8 /\ f <= g
    BY <1>1, <1>2
  <2> QED BY <2>1 DEF VintLen
<1>4. VintLen(l) \in Nat /\ VintLen(l) <= 3 /\ (max < 16384 => VintLen(l) <= 2)
  <2>1. l <= max
    BY <1>0, <1>3
  <2> QED BY <2>1 DEF VintLen
<1>5. x \in Nat /\ x < max
  BY <1>0, <1>1, <1>2, <1>3, <1>4
<1>6. VintLen(x) \in Nat /\ VintLen(x) <= 3 /\ (max < 16384 => VintLen(x) <= 2)
  BY <1>5 DEF VintLen
<1>7. 3 + VintLen(x) + x <= max - 6 + d + VintLen(x) + VintLen(l)
  BY <1>0, <1>1, <1>2, <1>3, <1>4, <1>5, <1>6
<1> QED BY <1>1, <1>4, <1>5, <1>6, <1>7 DEF x

\* The header of a part has two fields more.
LEMMA HeaderGrows ==
  ASSUME NEW s \in Senders, NEW t \in Senders, s.total = NoField, s.curr = NoField,
         s.ret = t.ret, s.err = 0, t.err = 0, t.total \in Nat, t.curr \in Nat
  PROVE  \E f \in Nat :
            /\ HeaderSize(s) = 3 + VintLen(f) + f
            /\ LET g == f + (2 + VintLen(t.total)) + (2 + VintLen(t.curr))
               IN  HeaderSize(t) = 3 + VintLen(g) + g
<1> DEFINE r == IntFieldLen(KNV_PKG_HDR_RET_TAG, s.ret)
           f == HeaderFields + r
           g == f + (2 + VintLen(t.total)) + (2 + VintLen(t.curr))
<1>1. r \in Nat
  <2>1. s.ret \in Nat \union {NoField}
    BY DEF Senders
  <2>2. KNV_PKG_HDR_RET_TAG \in Nat
    BY DEF KNV_PKG_HDR_RET_TAG
  <2> QED BY <2>1, <2>2, VintLenRange DEF IntFieldLen, TagLen, NoField
<1>2. HeaderFields \in Nat
  BY LensAssumption
<1>3. \A x \in Nat : StrFieldLen(KNV_PKG_HDR_TAG, x) = 3 + VintLen(x) + x
  <2>1. TagLen(KNV_PKG_HDR_TAG) = 3
    BY DEF TagLen, VintLen, KNV_PKG_HDR_TAG
  <2> QED BY <2>1 DEF StrFieldLen
<1>4. \A v \in Nat : /\ IntFieldLen(KNV_PKG_HDR_TOTAL_SPLIT_COUNT, v) = 2 + VintLen(v)
                     /\ IntFieldLen(KNV_PKG_HDR_CURR_SPLIT_INDEX, v) = 2 + VintLen(v)
  <2>1. TagLen(KNV_PKG_HDR_TOTAL_SPLIT_COUNT) = 2 /\ TagLen(KNV_PKG_HDR_CURR_SPLIT_INDEX) = 2
    BY DEF TagLen, VintLen, KNV_PKG_HDR_TOTAL_SPLIT_COUNT, KNV_PKG_HDR_CURR_SPLIT_INDEX
  <2> QED BY <2>1 DEF IntFieldLen, NoField
<1>5. \A tag : IntFieldLen(tag, NoField) = 0
  BY DEF IntFieldLen
<1> HIDE DEF r
<1>6. f \in Nat
  BY <1>1, <1>2
<1>7. HeaderSize(s) = 3 + VintLen(f) + f
  <2>1. HeaderSize(s) = StrFieldLen(KNV_PKG_HDR_TAG, HeaderFields + r + 0 + 0 + 0)
    BY <1>5 DEF HeaderSize, r
  <2>2. HeaderFields + r + 0 + 0 + 0 = f
    BY <1>1, <1>2
  <2> HIDE DEF f
  <2> QED BY <1>3, <1>6, <2>1, <2>2
<1>8. HeaderSize(t) = 3 + VintLen(g) + g
  <2> DEFINE n == 2 + VintLen(t.total)
             c == 2 + VintLen(t.curr)
  <2>1. n \in Nat /\ c \in Nat
    BY VintLenRange
  <2>2. HeaderSize(t) = StrFieldLen(KNV_PKG_HDR_TAG, HeaderFields + r + 0 + n + c)
    BY <1>4 DEF HeaderSize, r
  <2>3. HeaderFields + r + 0 + n + c = g /\ g \in Nat
    BY <1>1, <1>2, <2>1
  <2> HIDE DEF g, n, c
  <2> QED BY <1>3, <2>2, <2>3
<1> HIDE DEF f
<1> QED BY <1>6, <1>7, <1>8

\* Part i of a packet fits, or is as much too long as Overrun says.
LEMMA PartFits ==
  ASSUME snd \in Senders, snd.err = 0, NEW b \in Bodies \union {NoBody}, snd.ret # 1,
         NEW q, InParts(q), q.size = GetMaxPkgSize(snd) - HdrSize(b), q.total < CountRange,
         NEW i \in 0 .. q.total - 1,
         NEW t \in Senders, t.ret = snd.ret, t.err = 0, t.total = q.total, t.curr = i,
         NEW p, p.limit = GetMaxPkgSize(snd), p.total = q.total,
         p.len = EncodeWithBody(t, KNV_PKG_PART_TAG_BASE + i, SliceOf(q, i)).len
  PROVE  p.len <= p.limit + Overrun(p)
<1> DEFINE a == AfterEncode(b)
           max == GetMaxPkgSize(snd)
           n == q.total
           l == SliceOf(q, i).len
<1>1. a \in Senders /\ a.total = NoField /\ a.curr = NoField /\ a.ret = snd.ret /\ a.err = 0
  BY AfterEncodeIs
<1>2. HdrSize(b) = HeaderSize(a) + 16
  BY DEF HdrSize
<1>3. max \in Nat /\ max <= 64000
  BY MaxPkgSizeRange
<1>4. n \in Nat /\ i \in Nat /\ i < n /\ n < 256 /\ q.size \in Nat /\ q.full \in Nat
  BY DEF InParts, CountRange
<1>5. l \in Nat /\ l <= q.size
  <2>1. l \in Nat
    BY SliceLen
  <2>2. l = IF i = n - 1 THEN q.full - i * q.size ELSE q.size
    BY DEF SliceOf
  <2>3. CASE i = n - 1
    <3>1. q.full <= n * q.size
      BY DEF InParts
    <3>2. i * q.size = n * q.size - q.size
      <4>1. \A x, y \in Nat : (x + 1) * y - y = x * y
        OBVIOUS
      <4>2. n = i + 1
        BY <1>4, <2>3
      <4> QED BY <1>4, <4>1, <4>2
    <3>3. n * q.size \in Int
      BY <1>4
    <3> HIDE DEF l, n
    <3> QED BY <1>4, <2>1, <2>2, <2>3, <3>1, <3>2, <3>3
  <2>4. CASE i # n - 1
    BY <1>4, <2>1, <2>2, <2>4
  <2> QED BY <2>3, <2>4
<1>6. PICK f \in Nat :
            /\ HeaderSize(a) = 3 + VintLen(f) + f
            /\ LET g == f + (2 + VintLen(t.total)) + (2 + VintLen(t.curr))
               IN  HeaderSize(t) = 3 + VintLen(g) + g
  BY <1>1, <1>4, HeaderGrows
<1> DEFINE g == PartHeader(f, n, i)
           x == PartLen(f, n, i, l)
<1>7. HeaderSize(t) = 3 + VintLen(g) + g
  BY <1>6 DEF PartHeader
<1>8. ChildLen(KNV_PKG_PART_TAG_BASE + i, SliceOf(q, i)) = 2 + VintLen(l) + l
  <2>1. TagLen(KNV_PKG_PART_TAG_BASE + i) = 2
    BY <1>4 DEF TagLen, VintLen, KNV_PKG_PART_TAG_BASE
  <2> QED BY <2>1 DEF ChildLen, StrFieldLen
<1>9. p.len = 3 + VintLen(x) + x
  <2>1. TagLen(KNV_PKG_TAG) = 3
    BY DEF TagLen, VintLen, KNV_PKG_TAG
  <2>2. p.len = StrFieldLen(KNV_PKG_TAG, HeaderSize(t) + ChildLen(KNV_PKG_PART_TAG_BASE + i, SliceOf(q, i)))
    BY DEF EncodeWithBody
  <2>3. p.len = StrFieldLen(KNV_PKG_TAG, x)
    BY <1>7, <1>8, <2>2 DEF PartLen
  <2> HIDE DEF x
  <2> QED BY <2>1, <2>3 DEF StrFieldLen
<1>10. l <= Room(max, f)
  <2>1. VintLen(f) \in Nat
    BY VintLenRange
  <2> HIDE DEF a, l, max
  <2>2. q.size = max - (3 + VintLen(f) + f + 16)
    BY <1>2, <1>6 DEF max
  <2> QED BY <1>3, <1>4, <1>5, <2>1, <2>2 DEF Room
<1> HIDE DEF l, max, n
<1>11. /\ 3 + VintLen(x) + x <= max + 4 /\ x \in Nat
       /\ max < 16384 => 3 + VintLen(x) + x <= max + 2
       /\ n < 128 => 3 + VintLen(x) + x <= max + 2
       /\ max < 16384 /\ n < 128 => 3 + VintLen(x) + x <= max
  <2>1. n < 256 /\ i < n /\ n \in Nat /\ i \in Nat /\ l \in Nat
    BY <1>4, <1>5
  <2> QED BY ONLY <1>3, <1>10, <2>1, f \in Nat, PartArithmetic
<1> HIDE DEF x
<1>12. Overrun(p) = (IF max < 16384 THEN 0 ELSE 2) + (IF n < 128 THEN 0 ELSE 2)
  BY DEF Overrun, max, n
<1>13. p.limit = max
  BY DEF max
<1> QED BY <1>3, <1>4, <1>9, <1>11, <1>12, <1>13

\* The packets that EncodePart sends.
LEMMA RightEncodePart ==
  ASSUME SenderOK, Tidy, NEW i \in 0 .. snd.total_split_count - 1, EncodePart(i)
  PROVE  \E p : sent' = sent \union {p} /\ PacketRight(p)
<1>1. PICK p, r : /\ PacketOK(p) /\ sent' = sent \union {p} /\ p.parts # <<>>
                  /\ r \in posted /\ HasParts(snd, r) /\ IsPartOf(p, r)
                  /\ p.total = snd.total /\ p.what = snd.what /\ p.limit = snd.limit
                  /\ p.len = EncodeWithBody(snd', KNV_PKG_PART_TAG_BASE + i, SliceOf(r, i)).len
  BY EncodePartSends
<1>2. /\ snd \in Senders /\ SndSame(snd, snd') /\ snd.ret # 1 /\ snd.split
      /\ snd.total # NoField /\ i \in Nat /\ i < snd.total
  BY EncodePartSends DEF SenderOK, EncodePart
<1>3. snd'.curr = i /\ snd'.ret = snd.ret /\ snd'.err = 0 /\ snd.err = 0
  BY TidyEncodePart
<1>4. PICK b \in Bodies \union {NoBody} : SplitAs(b)
  BY <1>2 DEF Tidy
<1>5. InSeveral(b)
  BY <1>2, <1>4 DEF SplitAs
<1>6. PICK q \in posted : HasParts(snd, q) /\ q.size = GetMaxPkgSize(snd) - HdrSize(b)
  BY <1>5 DEF InSeveral
<1>7. /\ InParts(q) /\ InParts(r) /\ q.total = snd.total /\ r.total = snd.total /\ q.what = snd.what
      /\ r.what = snd.what
  BY <1>1, <1>6 DEF HasParts
<1>8. i \in 0 .. snd.total - 1 /\ snd.total \in Nat
  BY <1>2, <1>7 DEF InParts
<1>9. SliceOf(q, i) = SliceOf(r, i)
  BY <1>1, <1>6, <1>8, PartFound
<1>10. DOMAIN p.parts = {p.curr} /\ p.parts[p.curr].of = p.what
  BY <1>1, <1>7 DEF IsPartOf, SliceOf
<1>11. ASSUME p.limit # 0, p.total < CountRange
       PROVE  p.len <= p.limit + Overrun(p)
  <2>1. p.limit = GetMaxPkgSize(snd)
    BY <1>1, <1>4, <1>11 DEF SplitAs
  <2>2. snd' \in Senders /\ snd'.total = q.total
    BY <1>2, <1>7 DEF SndSame
  <2>3. p.len = EncodeWithBody(snd', KNV_PKG_PART_TAG_BASE + i, SliceOf(q, i)).len
    BY <1>1, <1>9
  <2>4. i \in 0 .. q.total - 1 /\ p.total = q.total /\ q.total < CountRange
    BY <1>1, <1>7, <1>8, <1>11
  <2> QED BY <1>2, <1>3, <1>6, <1>7, <2>1, <2>2, <2>3, <2>4, PartFits
<1>12. PacketRight(p)
  BY <1>1, <1>6, <1>7, <1>10, <1>11 DEF PacketRight
<1> QED BY <1>1, <1>12

\* The packet with the body under the first part's tag.
LEMMA RightEncodePartBody ==
  ASSUME SenderOK, Tidy, EncodePartBody
  PROVE  \E p : sent' = sent \union {p} /\ PacketRight(p)
<1>1. PICK p : /\ PacketOK(p) /\ sent' = sent \union {p} /\ p.parts = <<>>
               /\ p.total = snd.total /\ p.what = snd.what /\ p.limit = snd.limit
               /\ p.bodies = Names(FindChildByTag(snd, 0)) /\ p.ret # 1
               /\ p.len = EncodeWithBody(NoError(snd), KNV_PKG_BDY_TAG, FindChildByTag(snd, 0)).len
  BY EncodePartBodySends
<1>2. snd \in Senders /\ snd.split /\ snd.total_split_count = 1 /\ HasPart(snd, 0)
  BY DEF SenderOK, EncodePartBody
<1>3. PICK b \in Bodies \union {NoBody} : SplitAs(b)
  BY <1>2 DEF Tidy
<1>4. \E q \in posted : q.what = p.what
  BY <1>1, <1>3 DEF SplitAs
<1>5. CASE snd.total # NoField
  <2>1. snd.total \in Nat /\ snd.total >= 2 /\ snd.total % CountRange = 1
    BY <1>2, <1>5 DEF SenderOK, Senders
  <2>2. ~(p.total < CountRange)
    BY <1>1, <2>1 DEF CountRange
  <2>3. \E q \in posted : q.total = p.total
    BY <1>1, <1>2, <1>5 DEF SenderOK, HasParts
  <2> QED BY <1>1, <1>4, <2>2, <2>3 DEF PacketRight
<1>6. CASE snd.total = NoField
  <2>1. InOne(b) /\ snd.curr = NoField
    BY <1>3, <1>6 DEF SplitAs, InOne
  <2>2. b # NoBody
    <3> SUFFICES ASSUME b = NoBody PROVE FALSE
      OBVIOUS
    <3>1. snd.parts = <<>> /\ Len(<<>>) = 0
      BY <2>1 DEF InOne
    <3> QED BY <1>2, <3>1 DEF HasPart
  <2>3. FindChildByTag(snd, 0) = Whole(b)
    BY <2>1, <2>2, CopyFound
  <2>4. p.bodies = p.what
    <3>1. p.bodies = <<b.name>>
      BY <1>1, <2>3 DEF Names, Whole
    <3>2. p.what = <<b.name>>
      BY <1>1, <1>3, <2>2 DEF SplitAs, What
    <3> QED BY <3>1, <3>2
  <2>5. p.len = Encoded(b).len
    <3> DEFINE a == AfterEncode(b)
               c == NoError(snd)
    <3>1. /\ a \in Senders /\ a.total = NoField /\ a.curr = NoField
          /\ a.ret = (IF snd.ret = 1 THEN 0 ELSE snd.ret) /\ a.err = 0
      BY <1>2, <2>2, AfterEncodeIs
    <3>2. /\ c \in Senders /\ c.total = NoField /\ c.curr = NoField
          /\ c.ret = (IF snd.ret = 1 THEN 0 ELSE snd.ret) /\ c.err = 0
      BY <1>2, <1>6, <2>1, NoErrorIs
    <3>3. Encoded(b) = EncodeWithBody(a, KNV_PKG_BDY_TAG, Whole(b))
      BY <2>2 DEF Encoded
    <3> HIDE DEF a, c
    <3>4. HeaderSize(a) = HeaderSize(c)
      BY <3>1, <3>2, HeaderSizeOf
    <3> QED BY <1>1, <2>3, <3>3, <3>4 DEF EncodeWithBody, c
  <2>6. ASSUME p.limit # 0 PROVE p.len <= p.limit + Overrun(p)
    <3>1. MayBeSplit(b) /\ p.limit = GetMaxPkgSize(snd)
      BY <1>1, <1>3, <2>6 DEF SplitAs
    <3>2. Encoded(b).len <= GetMaxPkgSize(snd) /\ GetMaxPkgSize(snd) \in Nat /\ Encoded(b).len \in Nat
      BY <1>2, <2>1, <3>1, WholeFits, MaxPkgSizeRange, EncodedIs DEF InOne
    <3>3. Overrun(p) \in Nat
      BY DEF Overrun
    <3> QED BY <2>5, <3>1, <3>2, <3>3
  <2> QED BY <1>1, <1>4, <1>6, <2>4, <2>6 DEF PacketRight
<1> QED BY <1>1, <1>5, <1>6

\* The packet with the whole tree.
LEMMA RightEncodePartAll ==
  ASSUME SenderOK, Tidy, EncodePartAll
  PROVE  \E p : sent' = sent \union {p} /\ PacketRight(p)
<1>1. PICK p : /\ PacketOK(p) /\ sent' = sent \union {p} /\ p.parts = <<>>
               /\ p.total = snd.total /\ p.what = snd.what /\ p.limit = snd.limit
               /\ p.bodies = Encode(snd).of /\ p.len = Encode(snd).len
  BY EncodePartAllSends
<1>2. snd \in Senders /\ snd.split /\ ~HasPart(snd, 0) /\ snd.total = NoField
  BY EncodePartAllSends DEF SenderOK, EncodePartAll
<1>3. PICK b \in Bodies \union {NoBody} : SplitAs(b)
  BY <1>2 DEF Tidy
<1>4. \E q \in posted : q.what = p.what
  BY <1>1, <1>3 DEF SplitAs
<1>5. InOne(b) /\ snd.curr = NoField
  BY <1>2, <1>3 DEF SplitAs, InOne
<1>6. b = NoBody
  BY <1>2, <1>5 DEF InOne, HasPart
<1>7. p.bodies = p.what
  BY <1>1, <1>3, <1>6 DEF SplitAs, What
<1>8. p.len = Encoded(b).len
  <2>1. /\ Fresh \in Senders /\ Fresh.total = NoField /\ Fresh.curr = NoField
        /\ Fresh.ret = snd.ret /\ Fresh.err = snd.err /\ Fresh.bodies = snd.bodies /\ Fresh.parts = snd.parts
    BY <1>2, FreshIs
  <2>2. HeaderSize(Fresh) = HeaderSize(snd)
    BY <1>2, <1>5, <2>1, HeaderSizeOf
  <2>3. TreeSize(Fresh) = TreeSize(snd)
    BY <2>1, <2>2, ChildrenSizeOf DEF TreeSize, ChildrenSize
  <2>4. Encoded(b) = Encode(Fresh)
    BY <1>6 DEF Encoded, AfterEncode
  <2> QED BY <1>1, <2>1, <2>2, <2>3, <2>4 DEF Encode
<1>9. ASSUME p.limit # 0 PROVE p.len <= p.limit + Overrun(p)
  <2>1. MayBeSplit(b) /\ p.limit = GetMaxPkgSize(snd)
    BY <1>1, <1>3, <1>9 DEF SplitAs
  <2>2. Encoded(b).len <= GetMaxPkgSize(snd) /\ GetMaxPkgSize(snd) \in Nat /\ Encoded(b).len \in Nat
    BY <1>2, <1>5, <2>1, WholeFits, MaxPkgSizeRange, EncodedIs DEF InOne
  <2>3. Overrun(p) \in Nat
    BY DEF Overrun
  <2> QED BY <1>8, <2>1, <2>2, <2>3
<1> QED BY <1>1, <1>2, <1>4, <1>7, <1>9 DEF PacketRight
-----------------------------------------------------------------------------
(***************************************************************************)
(* The receiver gets packets as they were asked for.                       *)
(***************************************************************************)

\* What is right of the packets that were posted, is so with more of them.
LEMMA MorePosted ==
  ASSUME posted \subseteq posted'
  PROVE  /\ Confusable => Confusable'
         /\ Wrapped => Wrapped'
         /\ \A p : PacketRight(p) => PacketRight(p)'
<1>1. Confusable => Confusable'
  BY DEF Confusable
<1>2. Wrapped => Wrapped'
  BY DEF Wrapped
<1>3. \A p : PacketRight(p) => PacketRight(p)'
  BY DEF PacketRight
<1> QED BY <1>1, <1>2, <1>3

\* A packet that is complete when it arrives is one that was posted.
LEMMA CompletePacket ==
  ASSUME NEW p, PacketOK(p), PacketRight(p), ~Wrapped, IsComplete(Decode(p)), Decode(p).ret = 0
  PROVE  \E q \in posted : Decode(p).bodies = q.what
<1>1. /\ Decode(p).bodies = p.bodies
      /\ Decode(p).total = IntField(p.total) % CountRange
      /\ Decode(p).total = 0 \/ Decode(p).bodies # <<>>
  BY DEF Decode, IsComplete
<1>2. p.parts = <<>>
  <2> SUFFICES ASSUME p.parts # <<>> PROVE FALSE
    OBVIOUS
  <2>1. /\ p.bodies = <<>> /\ p.curr \in 0 .. (p.total % CountRange) - 1
        /\ \E q \in posted : IsPartOf(p, q)
    BY DEF PacketOK
  <2>2. p.total \in Nat /\ p.total # NoField
    BY <2>1 DEF IsPartOf, InParts, NoField
  <2>3. IntField(p.total) = p.total
    BY <2>2 DEF IntField
  <2>4. p.total % CountRange = 0
    BY <1>1, <2>1, <2>3
  <2> QED BY <2>1, <2>4
<1>3. p.total < CountRange
  <2>1. CASE p.total = NoField
    BY <2>1 DEF NoField, CountRange
  <2>2. CASE p.total # NoField
    <3>1. p.total \in Nat
      BY <2>2 DEF PacketOK
    <3>2. PICK q \in posted : q.total = p.total
      BY <2>2 DEF PacketRight
    <3>3. ~(q.total >= CountRange)
      BY <3>2 DEF Wrapped
    <3> QED BY <3>1, <3>2, <3>3 DEF CountRange
  <2> QED BY <2>1, <2>2
<1>4. p.bodies = p.what
  BY <1>2, <1>3 DEF PacketRight
<1> QED BY <1>1, <1>4 DEF PacketRight

\* A protocol that AddPartial makes complete has what was asked for.
LEMMA WholeStep ==
  ASSUME ReceiverOK, ReceivedWhole, NEW p, PacketOK(p), PacketRight(p),
         Assign(p) \/ AddPartial(p) \/ AddLastPartial(p) \/ AddPartialNoMemory(p)
  PROVE  ReceivedWhole'
<1> DEFINE part == Decode(p)
           w == WithPart(part)
<1>1. posted' = posted
  BY DEF Assign, AddPartial, AddLastPartial, AddPartialNoMemory
<1>2. SUFFICES ASSUME IsComplete(rcv'), rcv'.ret = 0, ~Confusable, ~Wrapped
               PROVE  \E q \in posted : rcv'.bodies = q.what
  BY <1>1 DEF ReceivedWhole, Confusable, Wrapped
<1>3. CASE rcv' = part
  BY <1>2, <1>3, CompletePacket
<1>4. rcv' # Invalid
  BY <1>2, InvalidIs DEF IsComplete
<1>5. ASSUME ~StartsOver(part), NEW parts, rcv' = [rcv EXCEPT !.parts = parts] PROVE FALSE
  <2>1. ~IsComplete(rcv)
    BY <1>5 DEF StartsOver
  <2>2. rcv'.tree = rcv.tree /\ rcv'.ret = rcv.ret /\ rcv'.total = rcv.total /\ rcv'.bodies = rcv.bodies
    BY <1>5 DEF ReceiverOK, Invalid
  <2> QED BY <1>2, <2>1, <2>2 DEF IsComplete
<1>6. CASE AddLastPartial(p)
  <2>1. PICK q \in posted : rcv' = [Invalid EXCEPT !.tree = TRUE, !.bodies = q.what]
    BY <1>2, <1>6, LastPartCompletes
  <2>2. rcv'.bodies = q.what
    BY <2>1 DEF Invalid
  <2> QED BY <2>2
<1> QED BY <1>3, <1>4, <1>5, <1>6 DEF Assign, AddPartial, AddPartialNoMemory

-----------------------------------------------------------------------------
(***************************************************************************)
(* The invariant of callers that leave a protocol alone once it is split.  *)
(***************************************************************************)

\* Its parts.
LEMMA OnceParts ==
  IInvOnce <=> IInv /\ Tidy /\ (\A p \in sent : PacketRight(p)) /\ ReceivedWhole
<1>1. (\A p \in sent : PacketRight(p)) <=>
        /\ Traced /\ SentAsAsked
        /\ \A p \in sent : p.limit # 0 /\ p.total < CountRange => p.len <= p.limit + Overrun(p)
  BY DEF PacketRight, Traced, SentAsAsked, AsAsked
<1>2. SentAsAsked =>
        ((\A p \in sent : p.limit # 0 /\ p.total < CountRange => p.len <= p.limit + Overrun(p))
         <=> (\A p \in sent : p.limit # 0 /\ p.total < CountRange /\ AsAsked(p)
                             => p.len <= p.limit + Overrun(p)))
  BY DEF SentAsAsked
<1> QED BY <1>1, <1>2, TypesOK DEF IInvOnce, PacketsFit

\* It holds in the initial states.
LEMMA InitOnce == Init => IInvOnce
<1> SUFFICES ASSUME Init PROVE IInvOnce
  OBVIOUS
<1>1. IInv /\ sent = {}
  BY InitOK DEF Init
<1>2. PICK allow \in BOOLEAN, size \in PkgSizes : snd = NewSender(allow, size)
  BY DEF Init
<1>3. /\ ~snd.split /\ snd.err = 0 /\ snd.parts = <<>> /\ snd.total = NoField /\ snd.curr = NoField
  BY <1>2 DEF NewSender
<1>4. Tidy
  BY <1>3 DEF Tidy, Unsplit
<1>5. ReceivedWhole
  BY InvalidIs DEF Init, ReceivedWhole, IsComplete
<1> QED BY <1>1, <1>4, <1>5, OnceParts

\* Every step keeps it.
LEMMA NextOnce ==
  ASSUME Reuse = "never", IInvOnce, [Next]_vars
  PROVE  IInvOnce'
<1>1. /\ IInv /\ Tidy /\ (\A p \in sent : PacketRight(p)) /\ ReceivedWhole
      /\ SenderOK /\ ReceiverOK /\ snd \in Senders
  BY OnceParts DEF IInv, SenderOK
<1>2. IInv'
  BY <1>1, NextOK
<1>3. SUFFICES Tidy' /\ (\A p \in sent' : PacketRight(p)') /\ ReceivedWhole'
  <2>1. TypeOK'
    BY <1>2, TypesOK, PTL
  <2>2. Traced' /\ SentAsAsked' /\ PacketsFit'
    BY <2>1 DEF PacketRight, Traced, SentAsAsked, AsAsked, PacketsFit
  <2> QED BY <1>2, <2>2 DEF IInvOnce
<1>4. ASSUME UNCHANGED <<sent, rcv>>, posted \subseteq posted'
      PROVE  (\A p \in sent' : PacketRight(p)') /\ ReceivedWhole'
  <2>1. \A p \in sent' : PacketRight(p)'
    BY <1>1, <1>4, MorePosted
  <2>2. ReceivedWhole'
    BY <1>1, <1>4, MorePosted DEF ReceivedWhole, SentAsAsked
  <2> QED BY <2>1, <2>2
<1>5. ASSUME NEW p, sent' = sent \union {p}, PacketRight(p), UNCHANGED <<rcv, posted>>
      PROVE  (\A r \in sent' : PacketRight(r)') /\ ReceivedWhole'
  <2>1. \A r \in sent' : PacketRight(r)
    BY <1>1, <1>5
  <2>2. \A r \in sent' : PacketRight(r)'
    BY <1>5, <2>1, MorePosted
  <2>3. ReceivedWhole'
    BY <1>1, <1>5, MorePosted DEF ReceivedWhole, SentAsAsked
  <2> QED BY <2>2, <2>3
<1>6. CASE SenderStep
  BY <1>1, <1>4, <1>6, SenderStepMakes, TidyEdits
<1>7. ASSUME NEW b \in Bodies \union {NoBody}, SplitNot(b)
      PROVE  Tidy' /\ (\A p \in sent' : PacketRight(p)') /\ ReceivedWhole'
  <2>1. UNCHANGED <<sent, rcv>> /\ posted \subseteq posted'
    BY <1>7 DEF SplitNot
  <2> QED BY <1>1, <1>4, <1>7, <2>1, TidySplitNot
<1>8. ASSUME NEW b \in Bodies \union {NoBody}, SplitFail(b)
      PROVE  Tidy' /\ (\A p \in sent' : PacketRight(p)') /\ ReceivedWhole'
  <2>1. UNCHANGED <<sent, rcv>> /\ posted \subseteq posted'
    BY <1>8 DEF SplitFail
  <2> QED BY <1>1, <1>4, <1>8, <2>1, TidySplitFail
<1>9. ASSUME NEW b \in Bodies \union {NoBody}, Split(b)
      PROVE  Tidy' /\ (\A p \in sent' : PacketRight(p)') /\ ReceivedWhole'
  <2>1. UNCHANGED <<sent, rcv>> /\ posted \subseteq posted'
    BY <1>1, <1>9, SplitMakes DEF Split
  <2> QED BY <1>1, <1>4, <1>9, <2>1, TidySplit
<1>10. CASE EncodePartBody
  <2>1. UNCHANGED <<rcv, posted>>
    BY <1>1, <1>10, EncodePartBodySends
  <2>2. PICK p : sent' = sent \union {p} /\ PacketRight(p)
    BY <1>1, <1>10, RightEncodePartBody
  <2> QED BY <1>1, <1>5, <1>10, <2>1, <2>2, TidyEncodePartBody
<1>11. CASE EncodePartAll
  <2>1. UNCHANGED <<snd, rcv, posted>>
    BY <1>1, <1>11, EncodePartAllSends
  <2>2. PICK p : sent' = sent \union {p} /\ PacketRight(p)
    BY <1>1, <1>11, RightEncodePartAll
  <2> QED BY <1>1, <1>5, <2>1, <2>2, TidyUnchanged
<1>12. ASSUME NEW i \in 0 .. snd.total_split_count - 1, EncodePart(i)
       PROVE  Tidy' /\ (\A p \in sent' : PacketRight(p)') /\ ReceivedWhole'
  <2>1. UNCHANGED <<rcv, posted>>
    BY <1>1, <1>12, EncodePartSends
  <2>2. PICK p : sent' = sent \union {p} /\ PacketRight(p)
    BY <1>1, <1>12, RightEncodePart
  <2> QED BY <1>1, <1>5, <1>12, <2>1, <2>2, TidyEncodePart
<1>13. ASSUME NEW p \in sent, Assign(p) \/ AddPartial(p) \/ AddLastPartial(p) \/ AddPartialNoMemory(p)
       PROVE  Tidy' /\ (\A r \in sent' : PacketRight(r)') /\ ReceivedWhole'
  <2>1. UNCHANGED <<snd, sent, posted>>
    BY <1>13 DEF Assign, AddPartial, AddLastPartial, AddPartialNoMemory
  <2>2. PacketOK(p) /\ PacketRight(p)
    BY <1>1 DEF IInv
  <2>3. ReceivedWhole'
    BY <1>1, <1>13, <2>2, WholeStep
  <2>4. \A r \in sent' : PacketRight(r)'
    BY <1>1, <2>1, MorePosted
  <2> QED BY <1>1, <2>1, <2>3, <2>4, TidyUnchanged
<1>14. CASE UNCHANGED vars
  BY <1>1, <1>4, <1>14, TidyUnchanged DEF vars
<1> QED BY <1>6, <1>7, <1>8, <1>9, <1>10, <1>11, <1>12, <1>13, <1>14 DEF Next, SenderStep

\* Callers that leave a protocol alone once it is split, but may split it again
\* for the same packet, find it as the first Split left it.
THEOREM InvarianceOnce == Reuse = "never" => (Spec => []IInvOnce)
<1> SUFFICES ASSUME Reuse = "never" PROVE Spec => []IInvOnce
  OBVIOUS
<1>1. IInvOnce /\ [Next]_vars => IInvOnce'
  BY NextOnce
<1> QED BY <1>1, InitOnce, PTL DEF Spec

\* A protocol that AddPartial made complete has all bodies of one packet that
\* Split was asked to send, and nothing else, whatever the network did: as long
\* as no two packets have the same number of parts and none more than 255.
THEOREM WholeOrNothing == Reuse = "never" => (Spec => []ReceivedWhole)
<1> SUFFICES ASSUME Reuse = "never" PROVE Spec => []ReceivedWhole
  OBVIOUS
<1>1. IInvOnce => ReceivedWhole
  BY DEF IInvOnce
<1>2. Spec => []IInvOnce
  BY InvarianceOnce
<1> QED BY <1>1, <1>2, PTL

\* No packet of EncodePart is longer than max_pkg_size allows, or by the 2 or 4
\* bytes that Overrun allows for beyond 16 KB or 127 parts.
THEOREM LengthsBounded == Reuse = "never" => (Spec => []PacketsFit)
<1> SUFFICES ASSUME Reuse = "never" PROVE Spec => []PacketsFit
  OBVIOUS
<1>1. IInvOnce => PacketsFit
  BY DEF IInvOnce
<1>2. Spec => []IInvOnce
  BY InvarianceOnce
<1> QED BY <1>1, <1>2, PTL
=============================================================================
