----------------------------- MODULE MCMemPool -----------------------------
(***************************************************************************)
(* Instances of MemPool for TLC: the classes of mem_pool.cc in miniature.  *)
(***************************************************************************)
EXTENDS MemPool

\* Two classes, the second four times the first, as in magics[].
TwoSizes == [c \in 0 .. 1 |-> IF c = 0 THEN 1 ELSE 4]
=============================================================================
