------------------------------ MODULE MemClass ------------------------------
(***************************************************************************)
(* The size classes of mem_pool.cc (magics[]) and what get_magic is for:   *)
(* the class of a request is the smallest one that holds it.               *)
(***************************************************************************)
EXTENDS Integers

CONSTANTS nr_magics,  \* number of classes
          Size        \* Size[c]: bytes of an element of class c

Classes == 0 .. nr_magics - 1

ASSUME ClassAssumption ==
  /\ nr_magics \in Nat \ {0}
  /\ Size \in [Classes -> Nat \ {0}]
  /\ \A c, d \in Classes : c < d => Size[c] < Size[d]

biggest_magic == Size[nr_magics - 1]

\* The answer of get_magic to sz <= biggest_magic (module MagicSearch shows
\* that the search finds it).
IsClassOf(c, sz) ==
  /\ sz <= Size[c]
  /\ \A d \in Classes : d < c => Size[d] < sz
=============================================================================
