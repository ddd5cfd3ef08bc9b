----------------------------- MODULE MCPbCodec -----------------------------
(***************************************************************************)
(* Bytes of four bits, integers of 16 and 8: as with 64 and 7, the longest *)
(* varint has one significant bit in its last byte.  Tags up to 31 fit.    *)
(***************************************************************************)
EXTENDS PbCodec

MCTags == {7, 8, 31}
MCInts == {0, 7, 8, 65535}
MCStrs == {<<>>, <<0>>, <<9, 1, 15, 0, 0, 0, 8>>, <<9, 1, 15, 0, 0, 0, 8, 2>>}
MCForged == UNION {[1 .. n -> 0 .. 15] : n \in 1 .. 4}
            \union {<<8, 1>> \o q : q \in [1 .. 6 -> {0, 1, 3, 8, 15}]}
=============================================================================
