----------------------------- MODULE MCKnvSplit -----------------------------
(* Bodies for KnvSplit.  With 124 bytes of header fields the two fields of a *)
(* part make the header's length prefix longer, and with a size of 1000 a    *)
(* packet is sent whole up to a body of 835 bytes, encoded and found short   *)
(* enough up to 862, and in 2, 3, ... parts beyond.                          *)
EXTENDS KnvSplit

B(name, len, keyed) == [name |-> name, len |-> len, keyed |-> keyed]

Replies == {B("small", 20, TRUE), B("edge", 850, TRUE), B("two", 1000, TRUE),
            B("deux", 1100, FALSE), B("three", 1700, FALSE)}

\* One that is sent whole, one in two and one in three parts.
FewReplies == {b \in Replies : b.name \in {"small", "deux", "three"}}
=============================================================================
