------------------------------ MODULE KnvSplit ------------------------------
(***************************************************************************)
(* protocol.cc: packets that are too long are sent in parts.  A sender     *)
(* splits the encoded packet (Split) and sends each part under a copy of   *)
(* the header with the number of parts and its index (EncodePart).  The    *)
(* network loses, repeats and reorders packets.  A receiver collects parts *)
(* and puts the packet together when it has all of them (AddPartial).      *)
(*                                                                         *)
(* Lengths are those of the wire format.  Of the bytes it is kept which    *)
(* stretch of which encoded packet they are.                               *)
(***************************************************************************)
EXTENDS KnvWire, Sums

CONSTANTS
  HeaderFields,  \* length of the header's fields other than those below
  HeaderKeyed,   \* the header has a key
  Bodies,        \* bodies to send: [name, len, keyed]
  ErrLens,       \* lengths of error messages
  PkgSizes,      \* arguments of SetAllowSplit, and requests for a size
  Reuse,         \* what callers do with a protocol that has been split, see below
  MayFail,       \* allocations of the receiver may fail
  MaxCalls       \* number of calls of the sender other than EncodePart

ASSUME BodiesAssumption ==
  \A b \in Bodies : b.name # "junk" /\ b.len \in Nat \ {0} /\ b.keyed \in BOOLEAN
ASSUME LensAssumption ==
  /\ HeaderFields \in Nat /\ HeaderKeyed \in BOOLEAN
  /\ ErrLens \subseteq Nat \ {0} /\ PkgSizes \subseteq Nat
ASSUME MaxCallsAssumption == MaxCalls \in Nat
ASSUME ReuseAssumption == Reuse \in {"never", "cleared", "any"}

VARIABLES
  snd,           \* the sender's KnvProtocol
  sent,          \* packets the network may deliver, any number of times
  rcv,           \* the receiver's KnvProtocol
  posted,        \* auxiliary: what Split was asked to send, and how it did
  oom,           \* auxiliary: an allocation of the receiver has failed
  calls          \* number of calls of the sender

vars == <<snd, sent, rcv, posted, oom, calls>>

KNV_DEFUALT_MAX_PKG_SIZE == 64000
KNV_PKG_TAG     == 3507
KNV_PKG_HDR_TAG == 2989
KNV_PKG_BDY_TAG == 3501
KNV_PKG_PART_TAG_BASE == 494
KNV_PKG_HDR_RET_TAG == 7
KNV_PKG_HDR_ERR_TAG == 8
KNV_PKG_HDR_TOTAL_SPLIT_COUNT == 2004
KNV_PKG_HDR_CURR_SPLIT_INDEX  == 2005

CountRange == 256    \* total_split_count and curr_split_index are uint8_t
SizeRange  == 65536  \* max_pkg_sz is uint16_t

NoField == -1        \* a field that the header does not have
NoBody  == [name |-> "none", len |-> 0, keyed |-> FALSE]

-----------------------------------------------------------------------------
(***************************************************************************)
(* Values.  A child of the tree holds a body as a whole, or the bytes      *)
(* from .. from + len - 1 of an encoded packet of length full.  of names   *)
(* the bodies that are in there.                                           *)
(***************************************************************************)
Whole(b) == [of |-> <<b.name>>, part |-> FALSE, full |-> b.len, from |-> 0, len |-> b.len]

Slice(e, from, len) == [of |-> e.of, part |-> TRUE, full |-> e.len, from |-> from, len |-> len]

\* The bodies that a reader of the value finds.
Names(x) == IF x.part THEN <<"junk">> ELSE x.of

ChildLen(tag, x) == StrFieldLen(tag, x.len)

\* uint16_t GetMaxPkgSize()
GetMaxPkgSize(s) ==
  IF s.max_pkg_sz < 128 \/ s.max_pkg_sz > KNV_DEFUALT_MAX_PKG_SIZE
  THEN KNV_DEFUALT_MAX_PKG_SIZE ELSE s.max_pkg_sz

IntFieldLen(tag, v) == IF v = NoField THEN 0 ELSE TagLen(tag) + VintLen(v)

\* header->EvaluateSize()
HeaderSize(s) ==
  StrFieldLen(KNV_PKG_HDR_TAG,
    HeaderFields
    + IntFieldLen(KNV_PKG_HDR_RET_TAG, s.ret)
    + (IF s.err = 0 THEN 0 ELSE StrFieldLen(KNV_PKG_HDR_ERR_TAG, s.err))
    + IntFieldLen(KNV_PKG_HDR_TOTAL_SPLIT_COUNT, s.total)
    + IntFieldLen(KNV_PKG_HDR_CURR_SPLIT_INDEX, s.curr))

\* The children of the tree other than the header, by their tags: the bodies, and
\* parts[i + 1] under the tag of part i.
BodiesSize(s) ==
  SumTo([k \in 1 .. Len(s.bodies) |-> ChildLen(KNV_PKG_BDY_TAG, Whole(s.bodies[k]))], Len(s.bodies))

PartsSize(s) ==
  SumTo([i \in 1 .. Len(s.parts) |->
           SumTo([k \in 1 .. Len(s.parts[i]) |->
                    ChildLen(KNV_PKG_PART_TAG_BASE + i - 1, s.parts[i][k])], Len(s.parts[i]))],
        Len(s.parts))

ChildrenSize(s) == BodiesSize(s) + PartsSize(s)

\* tree->EvaluateSize()
TreeSize(s) == StrFieldLen(KNV_PKG_TAG, HeaderSize(s) + ChildrenSize(s))

\* body != NULL
HasBody(s) == s.bodies # <<>>

OwnNames(s) == [k \in 1 .. Len(s.bodies) |-> s.bodies[k].name]

HasPart(s, i) == i < Len(s.parts) /\ s.parts[i + 1] # <<>>

\* With keys among the children the list is searched from its first child,
\* without them the hash table, whose chains begin with the newest one.
FindChildByTag(s, i) ==
  IF s.child_has_key THEN Head(s.parts[i + 1]) ELSE s.parts[i + 1][Len(s.parts[i + 1])]

-----------------------------------------------------------------------------
(***************************************************************************)
(* Encoding.  A buffer is [of, len].                                       *)
(***************************************************************************)
\* Encode(mem, 0, NULL, 0, b) clears the error in the header.
NoError(s) == [s EXCEPT !.ret = IF @ = 1 THEN 0 ELSE @, !.err = 0]

\* EncodeWithBody(b, mem): header and one child
EncodeWithBody(s, tag, x) ==
  [of |-> Names(x), len |-> StrFieldLen(KNV_PKG_TAG, HeaderSize(s) + ChildLen(tag, x))]

\* Encode(mem): with a retcode only the header, without it the whole tree
Encode(s) ==
  IF s.ret = 1
  THEN [of |-> <<>>, len |-> StrFieldLen(KNV_PKG_TAG, HeaderSize(s))]
  ELSE [of |-> OwnNames(s), len |-> TreeSize(s)]

-----------------------------------------------------------------------------
(***************************************************************************)
(* The sender.  split, what, asked and limit are auxiliary: whether Split  *)
(* has succeeded, what it was to send, its argument, and the size it had   *)
(* to observe.                                                             *)
(***************************************************************************)
\* A protocol for a reply, from the header of the request, which says whether
\* and how the reply may be split (InitHeaderInfo).
NewSender(allow, size) ==
  [ret |-> NoField, err |-> 0, total |-> NoField, curr |-> NoField,
   allow_split |-> allow, max_pkg_sz |-> size % SizeRange,
   total_split_count |-> 0, child_has_key |-> HeaderKeyed, bodies |-> <<>>, parts |-> <<>>,
   split |-> FALSE, what |-> <<>>, asked |-> NoBody, limit |-> 0]

Calling == calls < MaxCalls /\ calls' = calls + 1

\* Callers may leave a protocol alone after Split ("never"), use it again after
\* RemoveAllBodies, which is there for that ("cleared"), or go on as they like.
\* In any case they call Split again before EncodePart.
MayEdit == snd.split => Reuse = "any"

MayClear == snd.split => Reuse # "never"

\* KnvProtocol(hdr, NULL)
Construct(allow, size) ==
  /\ Calling
  /\ snd' = NewSender(allow, size)
  /\ UNCHANGED <<sent, rcv, posted, oom>>

SetAllowSplit(allow, size) ==
  /\ Calling /\ MayEdit
  /\ snd' = [snd EXCEPT !.split = FALSE, !.allow_split = allow,
                        !.max_pkg_sz = IF size # 0 THEN size % SizeRange ELSE @]
  /\ UNCHANGED <<sent, rcv, posted, oom>>

\* SetRetCode and SetRetErrorMsg
SetError(len) ==
  /\ Calling /\ MayEdit
  /\ snd' = [snd EXCEPT !.split = FALSE, !.ret = 1, !.err = len]
  /\ UNCHANGED <<sent, rcv, posted, oom>>

AddBody(b) ==
  /\ Calling /\ MayEdit
  /\ snd' = [snd EXCEPT !.split = FALSE,
                        !.bodies = Append(@, b), !.child_has_key = @ \/ b.keyed]
  /\ UNCHANGED <<sent, rcv, posted, oom>>

RemoveAllBodies ==
  /\ Calling /\ MayClear
  /\ snd' = [snd EXCEPT !.split = FALSE, !.bodies = <<>>]
  /\ UNCHANGED <<sent, rcv, posted, oom>>

\* What Split(b) works with, before it looks at the size of the parts:
\* the protocol without the fields of an earlier Split, the encoded packet
\* if there is a need for one, and the protocol after encoding it.
Fresh == [snd EXCEPT !.total_split_count = 1, !.total = NoField, !.curr = NoField]

CurSize(b) ==
  32 + IF b # NoBody THEN HeaderSize(Fresh) + ChildLen(KNV_PKG_BDY_TAG, Whole(b)) ELSE TreeSize(Fresh)

MayBeSplit(b) == snd.allow_split /\ (b # NoBody \/ HasBody(snd))

NeedSplit(b) == MayBeSplit(b) /\ CurSize(b) > GetMaxPkgSize(snd)

AfterEncode(b) == IF b # NoBody THEN NoError(Fresh) ELSE Fresh

Encoded(b) ==
  IF b # NoBody THEN EncodeWithBody(AfterEncode(b), KNV_PKG_BDY_TAG, Whole(b))
  ELSE Encode(AfterEncode(b))

\* real size is smaller than eval size
TooLong(b) == NeedSplit(b) /\ Encoded(b).len > GetMaxPkgSize(snd)

\* Mutant: no room for the fields and prefixes that come with a part.
TightHdrSize(b) == HeaderSize(AfterEncode(b)) + 15

HdrSize(b) == HeaderSize(AfterEncode(b)) + 16

What(s, b) == IF b # NoBody THEN <<b.name>> ELSE Encode(s).of

\* Retries of a reply are no reuse.
MaySplit(b) == Calling /\ (snd.split => Reuse = "any" \/ b = snd.asked)

\* Mutant: the new parts are put beside the old ones.
PartsBeside(old, new) ==
  [i \in 1 .. IF Len(new) > Len(old) THEN Len(new) ELSE Len(old) |->
     IF i > Len(new) THEN old[i] ELSE IF i > Len(old) THEN <<new[i]>> ELSE Append(old[i], new[i])]

\* New parts, after RemoveChildrenByTag for each of them.
WithParts(old, new) ==
  [i \in 1 .. IF Len(new) > Len(old) THEN Len(new) ELSE Len(old) |->
     IF i <= Len(new) THEN <<new[i]>> ELSE old[i]]

Done(s, b) == [s EXCEPT !.split = TRUE, !.what = What(snd, b), !.asked = b,
                        !.limit = IF MayBeSplit(b) THEN GetMaxPkgSize(snd) ELSE 0]

\* Without parts, a copy of b is kept under the tag of the first part.
PartCopy(s, b) ==
  [s EXCEPT !.parts = IF s.parts = <<>> THEN <<<<Whole(b)>>>>
                      ELSE [s.parts EXCEPT ![1] = Append(s.parts[1], Whole(b))],
            !.child_has_key = s.child_has_key \/ b.keyed]

\* No need to split.
SplitNot(b) ==
  /\ MaySplit(b) /\ ~TooLong(b)
  /\ LET s == IF NeedSplit(b) THEN AfterEncode(b) ELSE Fresh
     IN  snd' = Done(IF b = NoBody THEN s ELSE PartCopy(s, b), b)
  /\ posted' = posted \union {[what |-> What(snd, b), full |-> 0, total |-> 0, size |-> 0]}
  /\ UNCHANGED <<sent, rcv, oom>>

\* Header size is larger than max_pkg_size
SplitFail(b) ==
  /\ MaySplit(b) /\ TooLong(b) /\ HdrSize(b) >= GetMaxPkgSize(snd)
  /\ snd' = [AfterEncode(b) EXCEPT !.split = FALSE]
  /\ UNCHANGED <<sent, rcv, posted, oom>>

\* nr_pkgs <= 1 cannot be: the packet is longer than max_sz > sz_part.  The
\* bytes of a part may happen to begin like a key.
Split(b) ==
  /\ MaySplit(b) /\ TooLong(b) /\ HdrSize(b) < GetMaxPkgSize(snd)
  /\ LET e == Encoded(b)
         sz_part == GetMaxPkgSize(snd) - HdrSize(b)
         nr_pkgs == (e.len + sz_part - 1) \div sz_part
         last == nr_pkgs - 1
         sz_last == e.len - last * sz_part
         parts == [i \in 1 .. nr_pkgs |->
                     Slice(e, (i - 1) * sz_part, IF i - 1 = last THEN sz_last ELSE sz_part)]
     IN  /\ \E key \in {snd.child_has_key, TRUE} :
              snd' = Done([AfterEncode(b) EXCEPT
                             !.total_split_count = nr_pkgs % CountRange,
                             !.total = nr_pkgs, !.child_has_key = key,
                             !.parts = WithParts(@, parts)], b)
         /\ posted' = posted \union
              {[what |-> What(snd, b), full |-> e.len, total |-> nr_pkgs, size |-> sz_part]}
  /\ UNCHANGED <<sent, rcv, oom>>

-----------------------------------------------------------------------------
(***************************************************************************)
(* EncodePart.  A packet has the fields that the receiver looks at; len,   *)
(* limit and what are auxiliary.                                           *)
(***************************************************************************)
Packet(s, bodies, parts, len) ==
  [total |-> s.total, curr |-> s.curr, ret |-> s.ret, bodies |-> bodies, parts |-> parts,
   len |-> len, limit |-> s.limit, what |-> s.what]

Send(s, p) ==
  /\ snd' = s
  /\ sent' = sent \union {p}
  /\ UNCHANGED <<rcv, posted, oom, calls>>

\* total_split_count == 1, and the tree has a body under the first part's tag
EncodePartBody ==
  LET x == FindChildByTag(snd, 0)
      s == NoError(snd)
  IN  /\ snd.split /\ snd.total_split_count = 1 /\ HasPart(snd, 0)
      /\ Send(s, Packet(s, Names(x), <<>>, EncodeWithBody(s, KNV_PKG_BDY_TAG, x).len))

\* total_split_count == 1, and it has none
EncodePartAll ==
  /\ snd.split /\ snd.total_split_count = 1 /\ ~HasPart(snd, 0)
  /\ Send(snd, Packet(snd, Encode(snd).of, <<>>, Encode(snd).len))

WithIndex(s, i) == [s EXCEPT !.curr = i]

EncodePart(i) ==
  LET x == FindChildByTag(snd, i)
      s == NoError(WithIndex(snd, i))
  IN  /\ snd.split /\ snd.total_split_count # 1 /\ HasPart(snd, i)
      /\ Send(s, Packet(s, <<>>, [j \in {i} |-> x],
                        EncodeWithBody(s, KNV_PKG_PART_TAG_BASE + i, x).len))

-----------------------------------------------------------------------------
(***************************************************************************)
(* The receiver.                                                           *)
(***************************************************************************)
Invalid ==
  [tree |-> FALSE, ret |-> 0, total |-> 0, curr |-> 0, bodies |-> <<>>, parts |-> <<>>]

\* InitHeaderInfo: a field that is missing is 0
IntField(v) == IF v = NoField THEN 0 ELSE v

\* KnvProtocol(buf, buf_len) of a packet
Decode(p) ==
  [tree |-> TRUE, ret |-> IntField(p.ret), total |-> IntField(p.total) % CountRange,
   curr |-> IntField(p.curr) % CountRange, bodies |-> p.bodies, parts |-> p.parts]

IsComplete(r) == r.tree /\ (r.ret # 0 \/ r.total = 0 \/ r.bodies # <<>>)

\* Mutant: parts of packets with different numbers of parts go together.
MixesTotals(part) ==
  ~rcv.tree \/ IsComplete(rcv) \/ IsComplete(part) \/ part.curr >= rcv.total

\* The cases in which AddPartial forgets what it has and takes the new one.
StartsOver(part) ==
  \/ ~rcv.tree
  \/ IsComplete(rcv) \/ IsComplete(part)
  \/ rcv.total # part.total \/ part.curr >= rcv.total

\* Mutant: one part too many is waited for.
HasMore(parts) == \A i \in 0 .. rcv.total : i \in DOMAIN parts /\ parts[i].len > 0

HasAll(parts) == \A i \in 0 .. rcv.total - 1 : i \in DOMAIN parts /\ parts[i].len > 0

\* The slices are all of one packet, one after the other.
InOrder(parts, n) ==
  /\ parts[0].from = 0
  /\ \A i \in 0 .. n - 2 : /\ parts[i + 1].from = parts[i].from + parts[i].len
                           /\ parts[i + 1].of = parts[i].of
                           /\ parts[i + 1].full = parts[i].full

MergedLen(parts, n) == SumTo([k \in 1 .. n |-> parts[k - 1].len], n)

\* assign() of the merged bytes.  KnvNode::New takes as many of them as the
\* length in front of them says, and fails if there are fewer; what is in
\* there decides whether bytes of different packets pass as a message.
Merge(parts, n) ==
  LET whole == [Invalid EXCEPT !.tree = TRUE, !.bodies = parts[0].of]
      junk  == [Invalid EXCEPT !.tree = TRUE, !.bodies = <<"junk">>]
  IN  IF MergedLen(parts, n) < parts[0].full \/ parts[0].from # 0
      THEN {[rcv EXCEPT !.parts = <<>>]}
      ELSE IF InOrder(parts, n) THEN {whole}
      ELSE {junk, Invalid}

\* The part is there and is a new one.
IsNewPart(part) == part.curr \in DOMAIN part.parts /\ part.curr \notin DOMAIN rcv.parts

\* Mutant: the new part takes the place of the others.
OnlyPart(part) == part.parts

WithPart(part) == [i \in DOMAIN rcv.parts \union {part.curr} |->
                     IF i = part.curr THEN part.parts[i] ELSE rcv.parts[i]]

\* AddPartial of a packet that does not continue what is there
Assign(p) ==
  LET part == Decode(p) IN
  /\ StartsOver(part)
  /\ rcv' = part
  /\ UNCHANGED <<snd, sent, posted, oom, calls>>

\* AddPartial of one part more
AddPartial(p) ==
  LET part == Decode(p) IN
  /\ ~StartsOver(part) /\ IsNewPart(part)
  /\ ~HasAll(WithPart(part))
  /\ rcv' = [rcv EXCEPT !.parts = WithPart(part)]
  /\ UNCHANGED <<snd, sent, posted, oom, calls>>

\* AddPartial of the last missing part
AddLastPartial(p) ==
  LET part == Decode(p) IN
  /\ ~StartsOver(part) /\ IsNewPart(part)
  /\ HasAll(WithPart(part))
  /\ rcv' \in Merge(WithPart(part), rcv.total)
  /\ UNCHANGED <<snd, sent, posted, oom, calls>>

\* There is no memory: for Duplicate() in assign; for the buffer of the merged
\* bytes, and the last part stays (-9); or for the tree made of them, when the
\* parts have been removed already (-13).
AddPartialNoMemory(p) ==
  LET part == Decode(p) IN
  /\ MayFail
  /\ \/ StartsOver(part) /\ rcv' = Invalid
     \/ /\ ~StartsOver(part) /\ IsNewPart(part)
        /\ HasAll(WithPart(part))
        /\ \/ rcv' = [rcv EXCEPT !.parts = WithPart(part)]
           \/ rcv' = [rcv EXCEPT !.parts = <<>>]
  /\ oom' = TRUE
  /\ UNCHANGED <<snd, sent, posted, calls>>

-----------------------------------------------------------------------------
Init ==
  /\ \E allow \in BOOLEAN, size \in PkgSizes : snd = NewSender(allow, size)
  /\ sent = {} /\ posted = {}
  /\ rcv = Invalid
  /\ oom = FALSE /\ calls = 0

Next ==
  \/ \E allow \in BOOLEAN, size \in PkgSizes :
        Construct(allow, size) \/ SetAllowSplit(allow, size)
  \/ \E len \in ErrLens : SetError(len)
  \/ \E b \in Bodies : AddBody(b)
  \/ RemoveAllBodies
  \/ \E b \in Bodies \union {NoBody} : SplitNot(b) \/ SplitFail(b) \/ Split(b)
  \/ EncodePartBody \/ EncodePartAll
  \/ \E i \in 0 .. snd.total_split_count - 1 : EncodePart(i)
  \/ \E p \in sent : Assign(p) \/ AddPartial(p) \/ AddLastPartial(p) \/ AddPartialNoMemory(p)

Spec == Init /\ [][Next]_vars

-----------------------------------------------------------------------------
(***************************************************************************)
(* Properties.                                                             *)
(***************************************************************************)
\* The shapes of packets and protocols (protocol.h:72-98): counters fit into
\* their fields.
TypeOK ==
  /\ snd.total_split_count \in 0 .. CountRange - 1
  /\ snd.max_pkg_sz \in 0 .. SizeRange - 1
  /\ \A p \in sent : p.total = NoField \/ p.total >= 2
  /\ rcv.tree \in BOOLEAN /\ rcv.total \in 0 .. CountRange - 1
  /\ DOMAIN rcv.parts \subseteq 0 .. CountRange - 1
  /\ oom \in BOOLEAN /\ calls \in 0 .. MaxCalls

\* Two packets were split into the same number of parts: AddPartial compares
\* nothing else (protocol.cc:705-706) and cannot tell their parts apart.
Confusable ==
  \E p, q \in posted : p # q /\ p.total = q.total /\ p.total # 0

\* A packet was split into more parts than total_split_count can say
\* (protocol.cc:921).
Wrapped == \E p \in posted : p.total >= CountRange

\* EncodePart sends what the last Split was asked to send, under its index, and
\* not what an earlier one left in the tree: a protocol can be used again with
\* only its header part (RemoveAllBodies, protocol.h:157).
AsAsked(p) ==
  p.total < CountRange =>
    IF p.parts # <<>>
    THEN DOMAIN p.parts = {p.curr} /\ p.parts[p.curr].of = p.what
    ELSE p.bodies = p.what

SentAsAsked == \A p \in sent : AsAsked(p)

\* Whatever is lost, repeated or comes late, a protocol that AddPartial made
\* complete (protocol.h:227) has the bodies of one packet that Split was asked
\* to send, all of them and nothing else; unless a sender that uses a protocol
\* again has sent something else (SentAsAsked).
ReceivedWhole ==
  IsComplete(rcv) /\ rcv.ret = 0 =>
    Confusable \/ Wrapped \/ ~SentAsAsked \/ \E p \in posted : rcv.bodies = p.what

\* A receiver that waits misses a part: with the last one, in whatever order
\* they came, the packet is complete (protocol.cc:747-753).
WaitsForMissing ==
  rcv.tree /\ ~IsComplete(rcv) /\ ~oom =>
    \E i \in 0 .. rcv.total - 1 : i \notin DOMAIN rcv.parts

\* Counters fit into their fields (TypeOK), and no packet is longer than
\* max_pkg_size allows: the 16 bytes that Split leaves for the fields and prefixes
\* of a part are enough (protocol.cc:897) for packets of less than 16 KB in less
\* than 128 parts.  Beyond, the two prefixes and the two fields take a byte more
\* each, and a packet may be longer by as much: at the default size of 64000 by 2.
Overrun(p) == (IF p.limit < 16384 THEN 0 ELSE 2) + (IF p.total < 128 THEN 0 ELSE 2)

PacketsFit ==
  TypeOK /\ \A p \in sent : p.limit # 0 /\ p.total < CountRange /\ AsAsked(p) =>
                            p.len <= p.limit + Overrun(p)

\* A packet that is sent in parts is sent right however the protocol was used
\* before: part i is the i-th stretch of the packet of the last Split, from the
\* place where the parts before it end, and not a part that an earlier Split
\* left under the same tag (protocol.cc:944, 986).
SlicesAsAsked ==
  \A p \in sent : p.parts # <<>> =>
    /\ DOMAIN p.parts = {p.curr}
    /\ \E q \in posted : /\ q.what = p.what /\ q.total = p.total
                         /\ p.parts[p.curr].of = q.what /\ p.parts[p.curr].full = q.full
                         /\ p.parts[p.curr].from = p.curr * q.size

\* The last missing part came, the packet was put together from all of them, and
\* there was no memory for its tree: the parts are lost (protocol.cc:807-815).
MergeLost ==
  /\ oom' /\ rcv'.parts = <<>>
  /\ \E p \in sent : IsNewPart(Decode(p)) /\ HasAll(WithPart(Decode(p)))

\* A part that is repeated or late does no harm: as long as packets with the
\* same number of parts arrive, the parts that are there stay (protocol.cc:733),
\* and only a failure to make the whole packet of them loses them.
PartsKept ==
  [][ /\ rcv.tree /\ ~IsComplete(rcv)
      /\ rcv'.tree /\ ~IsComplete(rcv') /\ rcv'.total = rcv.total
      => Confusable \/ Wrapped \/ MergeLost \/ DOMAIN rcv.parts \subseteq DOMAIN rcv'.parts ]_vars

-----------------------------------------------------------------------------
(***************************************************************************)
(* The inductive invariant.  For every use of the protocols: what is in    *)
(* the tree after a Split in parts, in packets, and in a receiver that     *)
(* waits, are parts of posted packets.                                     *)
(***************************************************************************)
AllNames == {b.name : b \in Bodies}

Values == [of : Seq(AllNames), part : BOOLEAN, full : Nat, from : Nat, len : Nat \ {0}]

Senders ==
  [ret : {NoField, 0, 1}, err : Nat, total : Nat \union {NoField}, curr : Nat \union {NoField},
   allow_split : BOOLEAN, max_pkg_sz : 0 .. SizeRange - 1,
   total_split_count : 0 .. CountRange - 1, child_has_key : BOOLEAN,
   bodies : Seq(Bodies), parts : Seq(Seq(Values)),
   split : BOOLEAN, what : Seq(AllNames), asked : Bodies \union {NoBody}, limit : Nat]

\* Part i of the posted packet q.
SliceOf(q, i) ==
  [of |-> q.what, part |-> TRUE, full |-> q.full, from |-> i * q.size,
   len |-> IF i = q.total - 1 THEN q.full - i * q.size ELSE q.size]

\* A packet that was sent in parts: only the last of them may be short.
InParts(q) ==
  /\ q.full \in Nat /\ q.size \in Nat \ {0} /\ q.total \in Nat /\ q.total >= 2
  /\ (q.total - 1) * q.size < q.full /\ q.full <= q.total * q.size

\* The tree has the parts of q.
HasParts(s, q) ==
  /\ InParts(q) /\ q.total = s.total /\ q.what = s.what
  /\ s.total <= Len(s.parts)
  /\ \A i \in 1 .. s.total : s.parts[i] = <<SliceOf(q, i - 1)>>

SenderOK ==
  /\ snd \in Senders
  /\ IF snd.total = NoField THEN snd.total_split_count \in {0, 1}
     ELSE snd.total >= 2 /\ snd.total_split_count = snd.total % CountRange
  /\ snd.split /\ snd.total # NoField => snd.ret # 1 /\ \E q \in posted : HasParts(snd, q)

\* Part i of q.
IsPartOf(p, q) ==
  /\ InParts(q) /\ q.total = p.total /\ q.what = p.what
  /\ DOMAIN p.parts = {p.curr} /\ p.parts[p.curr] = SliceOf(q, p.curr)

PacketOK(p) ==
  /\ p.ret \in {NoField, 0, 1} /\ p.curr \in Nat \union {NoField}
  /\ p.total \in Nat \union {NoField} /\ (p.total = NoField \/ p.total >= 2)
  /\ \/ p.parts = <<>> /\ (p.total = NoField \/ p.bodies # <<>>)
     \/ /\ p.bodies = <<>> /\ p.ret # 1 /\ p.curr \in 0 .. (p.total % CountRange) - 1
        /\ p.total % CountRange # 1
        /\ \E q \in posted : IsPartOf(p, q)

ReceiverOK ==
  /\ DOMAIN rcv = DOMAIN Invalid
  /\ rcv.tree \in BOOLEAN /\ rcv.total \in 0 .. CountRange - 1
  /\ DOMAIN rcv.parts \subseteq 0 .. CountRange - 1
  /\ rcv.tree /\ ~IsComplete(rcv) =>
       \A i \in DOMAIN rcv.parts :
          /\ i < rcv.total
          /\ \E q \in posted : /\ InParts(q) /\ q.total % CountRange = rcv.total
                               /\ rcv.parts[i] = SliceOf(q, i)

IInv ==
  /\ SenderOK /\ (\A p \in sent : PacketOK(p)) /\ ReceiverOK /\ WaitsForMissing
  /\ oom \in BOOLEAN /\ calls \in 0 .. MaxCalls

\* Callers that leave a protocol alone once it is split: what Split said of the
\* packet stays true, and its tree has no parts but those of the last Split.

\* The packet is too long even without the parts that are in the tree.
Bare(b) ==
  IF b # NoBody THEN Encoded(b).len
  ELSE StrFieldLen(KNV_PKG_TAG, HeaderSize(Fresh) + BodiesSize(snd))

StillTooLong(b) == MayBeSplit(b) /\ HdrSize(b) < GetMaxPkgSize(snd) /\ Bare(b) > GetMaxPkgSize(snd)

Unsplit == snd.parts = <<>> /\ snd.total = NoField /\ snd.curr = NoField

\* Sent as a whole: the tree has copies of the body, and nothing else.
InOne(b) ==
  /\ snd.curr = NoField /\ ~TooLong(b)
  /\ IF b = NoBody THEN snd.parts = <<>>
     ELSE /\ Len(snd.parts) = 1 /\ snd.parts[1] # <<>>
          /\ \A k \in 1 .. Len(snd.parts[1]) : snd.parts[1][k] = Whole(b)

InSeveral(b) ==
  /\ StillTooLong(b)
  /\ \E q \in posted : HasParts(snd, q) /\ q.size = GetMaxPkgSize(snd) - HdrSize(b)

SplitAs(b) ==
  /\ snd.asked = b
  /\ snd.what = What(snd, b) /\ \E q \in posted : q.what = snd.what
  /\ snd.limit = IF MayBeSplit(b) THEN GetMaxPkgSize(snd) ELSE 0
  /\ IF snd.total = NoField THEN InOne(b) ELSE InSeveral(b)

Tidy ==
  /\ snd.err # 0 => snd.ret = 1
  /\ IF snd.split THEN \E b \in Bodies \union {NoBody} : SplitAs(b) ELSE Unsplit

\* Packets are of posted packets.
Traced ==
  \A p \in sent : /\ \E q \in posted : q.what = p.what
                  /\ p.total # NoField => \E q \in posted : q.total = p.total

IInvOnce == IInv /\ Tidy /\ Traced /\ SentAsAsked /\ PacketsFit /\ ReceivedWhole
=============================================================================
