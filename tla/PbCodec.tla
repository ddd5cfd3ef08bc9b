------------------------------ MODULE PbCodec ------------------------------
(***************************************************************************)
(* pb.c and pb.h behind the calls of knv_codec.h: fields are written into  *)
(* a buffer of limited size and read back from what arrives of it.  The    *)
(* widths of the code are constants, so that TLC can look at all messages  *)
(* of a few short bytes: a byte has Payload + 1 bits (7 + 1 in the code),  *)
(* Int64 and Int32 are the widths of the two integer types (64 and 32),    *)
(* Fix64 and Fix32 their lengths in bytes (8 and 4).                       *)
(***************************************************************************)
EXTENDS Integers, SequencesExt, FiniteSetsExt

CONSTANTS
  Payload, Int64, Int32, Fix64, Fix32,
  Tags,        \* field numbers that callers write; larger ones lose bits in TagWord
  Ints, Strs,  \* values that callers write
  Size,        \* the length of its buffer that the writer states
  MaxFields,   \* bound on the number of fields written
  Forged       \* messages that no writer wrote

PB_TYPE_VARINT  == 0
PB_TYPE_FIXED64 == 1
PB_TYPE_STRING  == 2
PB_TYPE_FIXED32 == 5
Types == {PB_TYPE_VARINT, PB_TYPE_FIXED64, PB_TYPE_STRING, PB_TYPE_FIXED32}

ASSUME WidthAssumption ==
  /\ {Payload, Int64, Int32, Fix64, Fix32} \subseteq Nat \ {0}
  /\ Int32 > 3 /\ Int64 >= Int32
  /\ Int64 = Fix64 * (Payload + 1) /\ Int32 = Fix32 * (Payload + 1)
\* 2 to the n.
Pow2[n \in 0 .. Int64 + Payload] == IF n = 0 THEN 1 ELSE 2 * Pow2[n-1]

Bytes == 0 .. Pow2[Payload + 1] - 1

ASSUME DataAssumption ==
  /\ Tags \subseteq 1 .. Pow2[Int32 - 3] - 1 /\ Ints \subseteq 0 .. Pow2[Int64] - 1
  /\ Strs \subseteq Seq(Bytes) /\ Forged \subseteq Seq(Bytes)
  /\ \A s \in Strs : Len(s) < Pow2[Int64]

\* A size_t as an int.
ToInt(sz) ==
  LET l == sz % Pow2[Int32] IN IF l < Pow2[Int32 - 1] THEN l ELSE l - Pow2[Int32]

\* pb_init_buff: what is left of the writer's buffer (int left) is its size (size_t).
Room == ToInt(Size)

\* Lengths are ints.  A message has less than 2 GB; a size of 2 to 4 GB would be
\* a negative one, which pb_add compares as an unsigned one and pb_add_byte does
\* not (pb.c:232, 254).
ASSUME LengthAssumption ==
  /\ Size \in 0 .. Pow2[Int64] - 1 /\ Room >= 0
  /\ \A m \in Forged : Len(m) < Pow2[Int32 - 1]

VARIABLES
  phase,    \* "write", "read", "end"
  buf,      \* bytes written so far; there is Room for as many
  sent,     \* fields written so far: [tag, type, val]
  msg,      \* what the reader was given
  f,        \* the reader's pb_field_t
  got,      \* fields read so far
  starts    \* auxiliary: positions of msg at which these fields began

vars == <<phase, buf, sent, msg, f, got, starts>>

-----------------------------------------------------------------------------
(***************************************************************************)
(* Writing.                                                                *)
(***************************************************************************)
MaxVint == (Int64 + Payload - 1) \div Payload

\* pb_eval_vint_length
VintLength(v) == IF v = 0 THEN 1 ELSE Cardinality({i \in 0 .. MaxVint - 1 : v >= Pow2[Payload * i]})

\* Mutant: zero has no bits, and no byte is written for it.
VintBytesZeroless(v) ==
  LET used == Cardinality({i \in 0 .. MaxVint - 1 : v >= Pow2[Payload * i]})
  IN  [i \in 1 .. used |-> ((v \div Pow2[Payload * (i - 1)]) % Pow2[Payload])
                           + (IF i < used THEN Pow2[Payload] ELSE 0)]

\* pb_add_vint: groups of Payload bits, low ones first, with the top bit set in
\* all bytes but the last.
VintBytes(v) ==
  LET used == IF v = 0 THEN 1 ELSE CHOOSE n \in 1 .. MaxVint : v < Pow2[Payload * n] /\ v >= Pow2[Payload * (n - 1)]
  IN  [i \in 1 .. used |-> ((v \div Pow2[Payload * (i - 1)]) % Pow2[Payload])
                           + (IF i < used THEN Pow2[Payload] ELSE 0)]

\* field_number << 3 in a uint32_t
TagWord(type, t) == type + ((t * 8) % Pow2[Int32])

\* pb_add_dword, pb_add_ddword: n bytes, low ones first.
FixBytes(v, n) == [i \in 1 .. n |-> (v \div Pow2[(Payload + 1) * (i - 1)]) % Pow2[Payload + 1]]

\* Mutant: the length is written with one byte.
ChunksFlat(x) ==
  <<VintBytes(TagWord(x.type, x.tag))>> \o
  IF x.type = PB_TYPE_VARINT THEN <<VintBytes(x.val)>>
  ELSE IF x.type = PB_TYPE_FIXED64 THEN <<FixBytes(x.val, Fix64)>>
  ELSE IF x.type = PB_TYPE_FIXED32 THEN <<FixBytes(x.val, Fix32)>>
  ELSE <<(<<Len(x.val) % Pow2[Payload + 1]>>), x.val>>

\* pb_add_field_val: the pieces that are written one after the other, each of
\* which has to fit.
Chunks(x) ==
  <<VintBytes(TagWord(x.type, x.tag))>> \o
  IF x.type = PB_TYPE_VARINT THEN <<VintBytes(x.val)>>
  ELSE IF x.type = PB_TYPE_FIXED64 THEN <<FixBytes(x.val, Fix64)>>
  ELSE IF x.type = PB_TYPE_FIXED32 THEN <<FixBytes(x.val, Fix32)>>
  ELSE <<VintBytes(Len(x.val)), x.val>>

Encode(x) == FlattenSeq(Chunks(x))

\* pb_eval_field_length
EvalLength(x) ==
  VintLength(TagWord(x.type, x.tag)) +
  IF x.type = PB_TYPE_VARINT THEN VintLength(x.val)
  ELSE IF x.type = PB_TYPE_FIXED64 THEN Fix64
  ELSE IF x.type = PB_TYPE_FIXED32 THEN Fix32
  ELSE VintLength(Len(x.val)) + Len(x.val)

\* pb_add: a piece that does not fit is not written, the ones before it stay.
Fitting(b, cs) ==
  b \o FlattenSeq(SubSeq(cs, 1, Max({k \in 0 .. Len(cs) : Len(b \o FlattenSeq(SubSeq(cs, 1, k))) <= Room})))

\* Mutant: the last byte of the buffer is used twice.
AddTight(cs, x) ==
  /\ phase = "write" /\ Len(sent) < MaxFields
  /\ buf' = IF Len(buf) + Len(FlattenSeq(cs)) <= Room + 1 THEN buf \o FlattenSeq(cs) ELSE Fitting(buf, cs)
  /\ IF Len(buf) + Len(FlattenSeq(cs)) <= Room + 1
     THEN sent' = Append(sent, x) /\ UNCHANGED phase
     ELSE phase' = "end" /\ UNCHANGED sent
  /\ UNCHANGED <<msg, f, got, starts>>

\* A field is written piece by piece.  When one does not fit, the caller gets
\* an error and gives up; the pieces before it are in the buffer.
Add(cs, x) ==
  /\ phase = "write" /\ Len(sent) < MaxFields
  /\ buf' = Fitting(buf, cs)
  /\ IF Len(buf) + Len(FlattenSeq(cs)) <= Room
     THEN sent' = Append(sent, x) /\ UNCHANGED phase
     ELSE phase' = "end" /\ UNCHANGED sent
  /\ UNCHANGED <<msg, f, got, starts>>

\* knv_add_field, knv_add_field_val
knv_add_field(x) == Add(Chunks(x), x)

\* knv_add_varint, knv_add_fixed32, knv_add_fixed64
knv_add_varint(t, v)  == LET x == [tag |-> t, type |-> PB_TYPE_VARINT, val |-> v]  IN Add(Chunks(x), x)
knv_add_fixed32(t, v) == LET x == [tag |-> t, type |-> PB_TYPE_FIXED32, val |-> v % Pow2[Int32]] IN Add(Chunks(x), x)
knv_add_fixed64(t, v) == LET x == [tag |-> t, type |-> PB_TYPE_FIXED64, val |-> v] IN Add(Chunks(x), x)

\* knv_add_string
knv_add_string(t, s) == LET x == [tag |-> t, type |-> PB_TYPE_STRING, val |-> s] IN Add(Chunks(x), x)

\* knv_add_string_head, then the contents field by field with knv_add_user (as
\* Serialize does for a node).
knv_add_string_head(t, s) ==
  LET x == [tag |-> t, type |-> PB_TYPE_STRING, val |-> s]
  IN  Add(SubSeq(Chunks(x), 1, 2) \o [i \in 1 .. Len(s) |-> <<s[i]>>], x)

-----------------------------------------------------------------------------
(***************************************************************************)
(* Reading.  r is a pb_field_t over the message m: pos bytes are behind,   *)
(* left are ahead, ok says whether the last call worked.                   *)
(***************************************************************************)
Byte(m, r, i) == m[r.pos + i]

Failed(r) == [r EXCEPT !.ok = FALSE]

Advance(r, n) == [r EXCEPT !.pos = @ + n, !.left = @ - n]

\* pb_get, pb_get_dword, pb_get_ddword, for the bytes that follow
Get(r, n) == IF r.left < n THEN Failed(r) ELSE Advance(r, n)

\* pb_decode_varint: at most MaxVint bytes; the bits of the last one that are
\* beyond Int64 are lost.  A failing call has moved over the bytes it saw.
DecodeVarint(m, r) ==
  LET ends  == {n \in 1 .. MaxVint : n <= r.left /\ Byte(m, r, n) < Pow2[Payload]}
      n     == Min(ends)
      word[i \in 0 .. MaxVint] ==
        IF i = 0 THEN 0 ELSE word[i-1] + (Byte(m, r, i) % Pow2[Payload]) * Pow2[Payload * (i - 1)]
  IN  IF ends # {} THEN [Advance(r, n) EXCEPT !.val = word[n] % Pow2[Int64]]
      ELSE Failed(Advance(r, IF r.left < MaxVint THEN r.left ELSE MaxVint))

\* pb_decode_fixed32, pb_decode_fixed64
DecodeFixed(m, r, n) ==
  LET word[i \in 0 .. n] ==
        IF i = 0 THEN 0 ELSE word[i-1] + Byte(m, r, i) * Pow2[(Payload + 1) * (i - 1)]
      s == Get(r, n)
  IN  IF s.ok THEN [s EXCEPT !.val = word[n]] ELSE s

\* pb_decode_string
DecodeString(m, r) ==
  LET s == DecodeVarint(m, r)
  IN  IF ~s.ok THEN s
      ELSE IF s.val > s.left THEN Failed(s)
      ELSE [Advance(s, s.val) EXCEPT !.val = SubSeq(m, s.pos + 1, s.pos + s.val)]

DecodeValue(m, r, type) ==
  IF type = PB_TYPE_VARINT THEN DecodeVarint(m, r)
  ELSE IF type = PB_TYPE_FIXED64 THEN DecodeFixed(m, r, Fix64)
  ELSE IF type = PB_TYPE_STRING THEN DecodeString(m, r)
  ELSE IF type = PB_TYPE_FIXED32 THEN DecodeFixed(m, r, Fix32)
  ELSE Failed(r)

\* Mutant: the end of the message is told by the failure alone.
DecodeTagEager(m, r) ==
  LET s == DecodeVarint(m, [r EXCEPT !.ok = TRUE])
  IN  IF ~s.ok \/ s.val = 0 THEN [Failed(s) EXCEPT !.eom = TRUE]
      ELSE LET d == DecodeValue(m, [s EXCEPT !.tag = (s.val \div 8) % Pow2[Int32], !.type = s.val % 8], s.val % 8)
           IN  IF d.ok THEN d ELSE [d EXCEPT !.eom = TRUE]

\* pb_decode_tag: the message is over (eom) when nothing is left, or at a zero.
DecodeTag(m, r) ==
  LET s == DecodeVarint(m, [r EXCEPT !.ok = TRUE])
  IN  IF ~s.ok THEN [s EXCEPT !.eom = @ \/ s.left = 0]
      ELSE IF s.val = 0 THEN [Failed(s) EXCEPT !.eom = TRUE]
      ELSE DecodeValue(m, [s EXCEPT !.tag = (s.val \div 8) % Pow2[Int32], !.type = s.val % 8], s.val % 8)

Fresh(m) == [pos |-> 0, left |-> Len(m), tag |-> 0, type |-> 0, val |-> 0,
             eom |-> FALSE, ok |-> TRUE]

FieldOf(r) == [tag |-> r.tag, type |-> r.type, val |-> r.val]

\* r is what a call returned: another field, or the end.
Reading(r, begin) ==
  /\ f' = r
  /\ got' = IF r.ok THEN Append(got, FieldOf(r)) ELSE got
  /\ starts' = IF r.ok THEN Append(starts, begin) ELSE starts
  /\ phase' = IF r.ok THEN "read" ELSE "end"
  /\ UNCHANGED <<buf, sent>>

\* Some of the bytes arrive, or all.  knv_begin reads the first field.
knv_begin(n) ==
  /\ phase = "write" /\ n <= Len(buf)
  /\ msg' = SubSeq(buf, 1, n)
  /\ Reading(DecodeTag(SubSeq(buf, 1, n), Fresh(SubSeq(buf, 1, n))), 0)

\* knv_begin for a message from elsewhere.
knv_begin_forged(m) ==
  /\ msg' = m
  /\ Reading(DecodeTag(m, Fresh(m)), 0)

\* knv_begin_delimited: a message that is preceded by its length, with other
\* bytes behind it.  The fields end where the length says.
knv_begin_delimited(n) ==
  /\ phase = "write"
  /\ LET m == VintBytes(Len(buf)) \o buf \o [i \in 1 .. n |-> Pow2[Payload]]
         r == DecodeVarint(m, Fresh(m))
     IN  /\ Len(m) < Pow2[Int32 - 1]
         /\ msg' = m
         /\ IF r.val > r.left THEN Reading(Failed(r), 0)
            ELSE Reading(DecodeTag(m, [r EXCEPT !.left = r.val]), r.pos)

\* knv_next
knv_next ==
  /\ phase = "read"
  /\ Reading(DecodeTag(msg, f), f.pos)
  /\ UNCHANGED msg

Init ==
  /\ phase = "write" /\ buf = <<>> /\ sent = <<>>
  /\ msg = <<>> /\ f = Fresh(<<>>) /\ got = <<>> /\ starts = <<>>

Next ==
  \/ \E t \in Tags, v \in Ints : knv_add_varint(t, v) \/ knv_add_fixed32(t, v) \/ knv_add_fixed64(t, v)
  \/ \E t \in Tags, s \in Strs : knv_add_string(t, s) \/ knv_add_string_head(t, s)
  \/ \E i \in DOMAIN sent : knv_add_field(sent[i])
  \/ \E n \in 0 .. Room : knv_begin(n)
  \/ \E n \in 0 .. 1 : knv_begin_delimited(n)
  \/ buf = <<>> /\ phase = "write" /\ \E m \in Forged : knv_begin_forged(m)
  \/ knv_next

Spec == Init /\ [][Next]_vars

-----------------------------------------------------------------------------
\* Types; what the reader has left is never negative.
TypeOK ==
  /\ phase \in {"write", "read", "end"}
  /\ buf \in Seq(Bytes) /\ msg \in Seq(Bytes)
  /\ f.pos \in Nat /\ f.left \in Nat
  /\ f.tag \in 0 .. Pow2[Int32] - 1 /\ f.type \in 0 .. 7
  /\ f.ok \in BOOLEAN /\ f.eom \in BOOLEAN

\* The writer stays inside its buffer and the reader inside its message, also
\* when a length announces more than there is.
Bounded == TypeOK /\ Len(buf) <= Room /\ f.pos + f.left <= Len(msg)

Length(xs) == LET sum[i \in 0 .. Len(xs)] == IF i = 0 THEN 0 ELSE sum[i-1] + EvalLength(xs[i]) IN sum[Len(xs)]

\* The message that was written is the message that is read: all of it, in this
\* order, and with the end recognised.
RoundTrip ==
  phase = "end" /\ sent # <<>> /\ Len(msg) >= Length(sent) => got = sent /\ f.eom

\* Of a message that was cut off, the complete fields are read and nothing else.
\* The reader takes the cut for an end only if nothing or a part of a tag is
\* behind the last complete field.
Truncation ==
  IsPrefix(msg, buf) =>
    /\ IsPrefix(got, sent)
    /\ phase = "end" /\ msg # <<>> /\ Len(got) < Len(sent) =>
         /\ Length(SubSeq(sent, 1, Len(got) + 1)) > Len(msg)
         /\ f.eom <=> Len(msg) - Length(got) < VintLength(TagWord(sent[Len(got)+1].type, sent[Len(got)+1].tag))

\* What is read of any message can be written again: it is then read the same
\* way, and takes no more bytes than it did (KnvNode writes fields anew whose
\* lengths it took from the message).
Rewrite ==
  phase = "read" =>
    LET x == FieldOf(f)
        e == Encode(x)
        r == DecodeTag(e, Fresh(e))
    IN  x.tag \in 1 .. Pow2[Int32 - 3] - 1 =>
          /\ r.ok /\ FieldOf(r) = x /\ r.left = 0
          /\ Len(e) <= f.pos - starts[Len(starts)]
          /\ Len(e) = EvalLength(x)

-----------------------------------------------------------------------------
(***************************************************************************)
(* The inductive invariant.                                                *)
(***************************************************************************)
\* Fields that callers write.
Written ==
  [tag : Tags, type : {PB_TYPE_VARINT, PB_TYPE_FIXED64}, val : 0 .. Pow2[Int64] - 1]
  \union [tag : Tags, type : {PB_TYPE_FIXED32}, val : 0 .. Pow2[Int32] - 1]
  \union [tag : Tags, type : {PB_TYPE_STRING}, val : Strs]

\* A field that is written as it is: no bit of it is lost.
Storable(x) ==
  /\ x.tag \in 1 .. Pow2[Int32 - 3] - 1 /\ x.type \in Types
  /\ x.type \in {PB_TYPE_VARINT, PB_TYPE_FIXED64} => x.val \in 0 .. Pow2[Int64] - 1
  /\ x.type = PB_TYPE_FIXED32 => x.val \in 0 .. Pow2[Int32] - 1
  /\ x.type = PB_TYPE_STRING => x.val \in Seq(Bytes) /\ Len(x.val) < Pow2[Int64]

\* The fields xs, one after the other.
Message(xs) == FlattenSeq([i \in 1 .. Len(xs) |-> Encode(xs[i])])

\* The reader r is inside the message m.
Reader(m, r) ==
  /\ r = [pos |-> r.pos, left |-> r.left, tag |-> r.tag, type |-> r.type, val |-> r.val,
          eom |-> r.eom, ok |-> r.ok]
  /\ r.pos \in Nat /\ r.left \in Nat /\ r.pos + r.left <= Len(m)
  /\ r.tag \in 0 .. Pow2[Int32] - 1 /\ r.type \in 0 .. 7
  /\ r.ok \in BOOLEAN /\ r.eom \in BOOLEAN

\* Between the calls of a reader: the field it has just read can be written in
\* the bytes it was read from.
Rewritable ==
  phase = "read" =>
    /\ f.ok /\ ~f.eom
    /\ f.tag \in 1 .. Pow2[Int32 - 3] - 1 =>
         Storable(FieldOf(f)) /\ Len(Encode(FieldOf(f))) <= f.pos - starts[Len(starts)]

\* Before the first call of a reader.
Writing ==
  phase = "write" =>
    /\ buf = Message(sent)
    /\ msg = <<>> /\ f = Fresh(<<>>) /\ got = <<>> /\ starts = <<>>

\* The reader was given n bytes of the buffer, at position o of its message, and
\* has read the first fields of these.
Follows(o, n) ==
  /\ buf = Message(sent)
  /\ (o = 0 /\ n = Len(msg)) \/ (o > 0 /\ n = Len(buf))
  /\ o + n <= Len(msg) /\ f.pos + f.left = o + n /\ \A i \in 1 .. n : msg[o+i] = buf[i]
  /\ Len(got) \in 0 .. Len(sent) /\ got = SubSeq(sent, 1, Len(got))
  /\ phase = "read" => f.pos = o + Len(Message(got))
  /\ phase = "end" =>
       IF Len(got) = Len(sent) THEN f.eom
       ELSE /\ n < Len(Message(SubSeq(sent, 1, Len(got) + 1)))
            /\ f.eom <=> n - Len(Message(got)) < VintLength(TagWord(sent[Len(got)+1].type, sent[Len(got)+1].tag))

\* The writer gave up, the message is from elsewhere, or it is the buffer's.
Origin ==
  phase # "write" =>
    \/ phase = "end" /\ msg = <<>> /\ got = <<>>
    \/ buf = <<>> /\ sent = <<>> /\ msg # <<>>
    \/ \E o \in 0 .. Len(msg), n \in 0 .. Len(buf) : Follows(o, n)

IInv ==
  /\ Bounded /\ Reader(msg, f) /\ sent \in Seq(Written) /\ starts \in Seq(Nat)
  /\ Rewritable /\ Writing /\ Origin
=============================================================================
