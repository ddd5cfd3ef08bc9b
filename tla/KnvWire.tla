------------------------------- MODULE KnvWire -------------------------------
(***************************************************************************)
(* Values as they are on the wire, with their lengths (pb.h).  A value is  *)
(* an integer, a string that does not parse as a message, a string that    *)
(* begins like one and does not end like one, or a message: a sequence of  *)
(* fields.  The bytes are left out; what is kept of them is their length,  *)
(* because KnvNode keeps lengths incrementally and reserves buffers by     *)
(* them.  All values have the same shape, so that they can be compared.    *)
(***************************************************************************)
EXTENDS Sums, Sequences, SequencesExt

UC_MAX_META_NUM == 10

\* pb_eval_vint_length, for values of up to 35 bits
VintLen(v) ==
  IF v < 128 THEN 1
  ELSE IF v < 16384 THEN 2
  ELSE IF v < 2097152 THEN 3
  ELSE IF v < 268435456 THEN 4
  ELSE 5

\* pb_eval_tag_length: the type is in the low three bits
TagLen(tag) == VintLen(8 * tag)

\* pb_eval_field_length of a string of length len
StrFieldLen(tag, len) == TagLen(tag) + VintLen(len) + len

\* pb_eval_field_length
FieldLen(tag, x) ==
  IF x.kind = "int" THEN TagLen(tag) + x.len ELSE StrFieldLen(tag, x.len)

SumLen(fields) == SumTo([i \in DOMAIN fields |-> fields[i].len], Len(fields))

Int_(v)      == [kind |-> "int", id |-> v, fields |-> <<>>, len |-> VintLen(v)]
Raw(id, len) == [kind |-> "raw", id |-> id, fields |-> <<>>, len |-> len]
Msg(fields)  == [kind |-> "msg", id |-> 0, fields |-> fields, len |-> SumLen(fields)]
Empty        == Msg(<<>>)

\* Fields, and after them bytes that are no field.
Cut(fields, by) == [kind |-> "cut", id |-> 0, fields |-> fields, len |-> SumLen(fields) + by]

\* A field as the encoder writes it: no varint takes more bytes than needed.
Field(tag, x) == [tag |-> tag, val |-> x, len |-> FieldLen(tag, x)]

\* F(v), with v evaluated once.
Once(F(_), v) == CHOOSE r \in {F(x) : x \in {v}} : TRUE

\* knv_begin finds a first field; and knv_next gets from it to the end.
Begins(x) == x.fields # <<>>
Parses(x) == x.kind = "msg" /\ Begins(x)

\* The entries of a list that are in S, in their order.
Keep(list, S) ==
  LET kept[i \in 0 .. Len(list)] ==
        IF i = 0 THEN <<>>
        ELSE IF list[i] \in S THEN Append(kept[i - 1], list[i]) ELSE kept[i - 1]
  IN  kept[Len(list)]

-----------------------------------------------------------------------------
\* A field with a value in V.
IsField(V, f) == f.tag \in Nat \ {0} /\ f.val \in V /\ f = Field(f.tag, f.val)

\* V has values only, and with each value those of its fields.
ValueSet(V) ==
  \A x \in V :
    /\ x = [kind |-> x.kind, id |-> x.id, fields |-> x.fields, len |-> x.len]
    /\ x.kind \in {"int", "raw", "cut", "msg"}
    /\ x.fields \in Seq(ToSet(x.fields))
    /\ \A i \in DOMAIN x.fields : IsField(V, x.fields[i])
    /\ x.kind \in {"int", "raw"} => x.fields = <<>>
    /\ x.len \in Nat /\ x.len >= SumLen(x.fields)
    /\ x.kind = "msg" => x = Msg(x.fields)

\* The order in which KnvNode writes fields: the key, metas, children.
AsWritten(x) ==
  \A i, j \in DOMAIN x.fields : i < j =>
    /\ x.fields[j].tag # 1
    /\ x.fields[j].tag <= UC_MAX_META_NUM => x.fields[i].tag <= UC_MAX_META_NUM
=============================================================================
