------------------------------ MODULE PoolSpec ------------------------------
(***************************************************************************)
(* What an object pool promises its callers, whatever the free list looks  *)
(* like: an object is handed out to one caller at a time, a recycled       *)
(* object is the one given back last, and a new object is none that        *)
(* exists.  (When a new one is made although objects wait is not said: a   *)
(* caller may have seen the pool empty before.)                            *)
(***************************************************************************)
EXTENDS Naturals, Sequences

CONSTANT Obj

VARIABLES unmade,   \* addresses at which no object has been made yet
          pooled,   \* stack of the objects given back, last one first
          out       \* objects in the hands of callers

vars == <<unmade, pooled, out>>

Init == unmade = Obj /\ pooled = <<>> /\ out = {}

\* A new object is made.
Make(x) ==
  /\ x \in unmade
  /\ unmade' = unmade \ {x}
  /\ out' = out \union {x}
  /\ UNCHANGED pooled

\* The object given back last is handed out again.
Reuse ==
  /\ pooled # <<>>
  /\ Head(pooled) \notin out
  /\ pooled' = Tail(pooled)
  /\ out' = out \union {Head(pooled)}
  /\ UNCHANGED unmade

\* A caller gives back k objects it holds, which land on top of the stack.
GiveBack ==
  \E k \in 1 .. Len(pooled') :
    LET S == {pooled'[i] : i \in 1 .. k} IN
    /\ S \subseteq out
    /\ out' = out \ S
    /\ pooled = SubSeq(pooled', k + 1, Len(pooled'))
    /\ UNCHANGED unmade

Next == (\E x \in Obj : Make(x)) \/ Reuse \/ GiveBack

Spec == Init /\ [][Next]_vars
=============================================================================
