------------------------------- MODULE KnvDoc -------------------------------
(***************************************************************************)
(* What a tree of KnvNodes promises its callers: a message that changes by *)
(* one edit at a time, at one place, and by nothing else.  How much of it  *)
(* is expanded, and when it is folded, cannot be seen.                     *)
(***************************************************************************)
EXTENDS KnvWire

CONSTANTS
  Docs,      \* messages to start with
  Values     \* values that a caller may put in place of another one

VARIABLE doc     \* the message, as a field

\* g is f without the i-th of its fields.
DropsField(f, g) == \E i \in DOMAIN f : g = RemoveAt(f, i)

\* g is f without all fields of one tag.
DropsTag(f, g) ==
  \E i \in DOMAIN f : g = SelectSeq(f, LAMBDA e : e.tag # f[i].tag)

RECURSIVE IsEdit(_, _)

\* One edit turns the field f into g: another tag, another value, a field
\* more or less, or an edit of one of its fields.
IsEdit(f, g) ==
  \/ f.tag # g.tag /\ f.val = g.val
  \/ /\ f.tag = g.tag
     /\ \/ g.val \in Values
        \/ LET fs == f.val.fields
               gs == g.val.fields
           IN  \/ DropsField(fs, gs) \/ DropsField(gs, fs) \/ DropsTag(fs, gs)
               \/ \E i \in DOMAIN fs \intersect DOMAIN gs :
                    /\ ReplaceAt(fs, i, gs[i]) = gs
                    /\ IsEdit(fs[i], gs[i])

Init == doc \in Docs

Next == \E f \in {doc}, g \in {doc'} : f # g /\ IsEdit(f, g)

Spec == Init /\ [][Next]_doc
=============================================================================
