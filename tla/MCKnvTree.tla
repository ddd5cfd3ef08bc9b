----------------------------- MODULE MCKnvTree -----------------------------
(* Small messages and values for KnvTree. *)
EXTENDS KnvTree

SmallInt == Int_(1)
LongInt  == Int_(300)
Key      == Raw(1, 2)
OtherKey == Raw(2, 3)
Str      == Raw(3, 3)
Broken   == Cut(<<Field(1, SmallInt)>>, 1)
Sub      == Msg(<<Field(11, SmallInt)>>)

\* A tree with a key, a long meta and a subtree, a few bytes short of a
\* longer length prefix.
Tree == Field(11, Msg(<<Field(1, Key), Field(2, Raw(4, 112)), Field(11, Sub)>>))

\* Three levels, all of them a few bytes short of a longer length prefix.
Deep == Field(11, Msg(<<Field(11, Msg(<<Field(11, SmallInt), Field(11, Raw(4, 118))>>))>>))

SixNodes == 1 .. 6

Messages == {Tree, Deep}
TheInts  == {LongInt}
TheStrs  == {Str, Sub, Broken}
TheKeys  == {OtherKey}

\* These values, and those in their fields, three levels down.
WithFields(S) == S \union {f.val : f \in UNION {ToSet(x.fields) : x \in S}}
TheValues ==
  WithFields(WithFields(WithFields(
    {f.val : f \in Messages} \union TheInts \union TheStrs \union TheKeys \union {Empty})))

\* Whatever is expanded or folded, the callers see a message that changes by
\* one edit at a time: an edit anywhere shows in Serialize() of the root as
\* soon as the call returns, and nothing else changes.
Doc == INSTANCE KnvDoc WITH doc <- Field(heap[Root].tag, Serialize(heap)[Root]),
                            Values <- Ints \union Strs \union Keys
=============================================================================
