---------------------------- MODULE MCKnvSubTree ----------------------------
(***************************************************************************)
(* Trees of up to three levels: nodes with keys (tags 11, 12) under a      *)
(* root, fields (13, 14; repeated and single) in these nodes.              *)
(***************************************************************************)
EXTENDS KnvSubTree

Meta(v) == [t \in {2} |-> v]

Root(ms, cs) == Node(11, 1, ms, cs)
Sub(k, ms, cs) == Node(12, k, ms, cs)

Fields == <<Int_(13, 5), Int_(13, 6), Int_(14, 7)>>

MCDocs ==
  { Root(Meta(3), <<Sub(1, Meta(4), Fields), Sub(2, NoMetas, <<Int_(14, 8)>>), Int_(13, 5)>>),
    Root(NoMetas, <<Sub(1, NoMetas, <<>>), Sub(2, Meta(4), Fields)>>),
    Node(11, 0, NoMetas, <<Node(12, 0, NoMetas, <<Int_(13, 5)>>), Int_(14, 7)>>),
    Root(NoMetas, <<>>) }

MCReqs ==
  { Root(NoMetas, <<>>),
    Node(11, 2, NoMetas, <<>>),
    Node(11, 0, Meta(1), <<Sub(1, NoMetas, <<>>), Sub(3, NoMetas, <<>>)>>),
    Node(11, 0, NoMetas, <<Sub(0, NoMetas, <<Int_(13, 1)>>), Int_(13, 0)>>),
    Root(NoMetas, <<Sub(2, Meta(1), <<Int_(13, 1), Int_(14, 1)>>), Int_(13, 1)>>),
    Root(Meta(0), <<Int_(12, 1), Int_(14, 1)>>),
    Root(NoMetas, <<Sub(1, NoMetas, <<Int_(13, 1)>>), Sub(2, NoMetas, <<>>)>>) }

MCLevels == -1 .. 2

MCUpds ==
  { Root(NoMetas, <<Sub(1, Meta(5), <<Int_(13, 1)>>), Sub(3, NoMetas, <<Int_(14, 1)>>)>>),
    Root(Meta(6), <<Sub(2, NoMetas, <<>>)>>),
    Root(NoMetas, <<Int_(13, 1), Int_(13, 2)>>),
    Root(NoMetas, <<>>),
    Node(11, 0, NoMetas, <<Node(12, 0, NoMetas, <<Int_(13, 2)>>)>>),
    Node(11, 0, NoMetas, <<Int_(12, 9)>>) }
=============================================================================
