----------------------------- MODULE MCKnvIndex -----------------------------
(***************************************************************************)
(* Tables that grow once, from two slots to four: the third child makes    *)
(* the table grow, the fourth one finds it at its biggest.  Two tags and a *)
(* key share slots.                                                        *)
(***************************************************************************)
EXTENDS KnvIndex

MCLevels == <<2, 4>>
MCDocs == {<<>>, <<[tag |-> 11, key |-> NoKey], [tag |-> 12, key |-> NoKey], [tag |-> 12, key |-> 1]>>}
MCShortDocs == {<<[tag |-> 11, key |-> NoKey]>>}

\* Parents are alike: one of them starts empty, the others with any value.
MCStart ==
  LET q == CHOOSE q \in Parents : TRUE
  IN  {f \in [Parents -> Docs] : f[q] = <<>>}

MCShortStart == [Parents -> Docs]
=============================================================================
