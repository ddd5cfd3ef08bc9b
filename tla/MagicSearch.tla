---------------------------- MODULE MagicSearch ----------------------------
(***************************************************************************)
(* get_magic of mem_pool.cc, the binary search for the class of a request. *)
(* It differs from the textbook one: low moves to mid, not to mid + 1, and *)
(* an exact hit returns early, so that its end and its answer need an      *)
(* argument.  One step is one round of the loop, for any table and any     *)
(* request: what is said of it is proved (module MemPoolProofs).           *)
(***************************************************************************)
EXTENDS MemClass

VARIABLES
  sz,           \* the argument
  low, high,    \* the window
  ret,          \* the class returned, -1 for a request above every class
  done          \* the call has returned

searchVars == <<sz, low, high, ret, done>>

SearchInit ==
  /\ sz \in Nat
  /\ low = 0
  /\ high = nr_magics - 1
  /\ ret = -1
  /\ done = FALSE

Answer(c) == ret' = c /\ done' = TRUE /\ UNCHANGED <<sz, low, high>>

\* allocated size larger than supported
TooBig == ~done /\ sz > biggest_magic /\ Answer(-1)

mid == (low + high) \div 2

Searching == ~done /\ sz <= biggest_magic /\ low < high

Hit == Searching /\ sz = Size[mid] /\ Answer(mid)

GoLow ==
  /\ Searching /\ sz < Size[mid]
  /\ high' = IF high > mid THEN mid ELSE high - 1
  /\ UNCHANGED <<sz, low, ret, done>>

GoHigh ==
  /\ Searching /\ sz > Size[mid]
  /\ low' = IF low < mid THEN mid ELSE low + 1
  /\ UNCHANGED <<sz, high, ret, done>>

\* The window is one class wide.
Found == ~done /\ sz <= biggest_magic /\ low >= high /\ Answer(low)

\* The next call.
Again ==
  /\ done
  /\ sz' \in Nat
  /\ low' = 0 /\ high' = nr_magics - 1 /\ ret' = -1 /\ done' = FALSE

Round == GoLow \/ GoHigh

Step == TooBig \/ Hit \/ Round \/ Found

SearchNext == Step \/ Again

SearchSpec == SearchInit /\ [][SearchNext]_searchVars
-----------------------------------------------------------------------------
\* The window always holds the class of the request, so that the early
\* return and the end of the loop find the same one.
WindowOK ==
  /\ sz \in Nat /\ ret \in Classes \union {-1} /\ done \in BOOLEAN
  /\ low \in Classes /\ high \in Classes /\ low <= high
  /\ \A c \in Classes : c < low => Size[c] < sz
  /\ sz <= biggest_magic => sz <= Size[high]

\* get_magic returns the smallest class that holds the request, and -1 only
\* when none does.
SmallestFit ==
  done => IF sz > biggest_magic THEN ret = -1
          ELSE ret \in Classes /\ IsClassOf(ret, sz)

\* Every round that does not return narrows the window, so that get_magic ends
\* (mem_pool.cc:173-192).
Narrows == [][Round => high' - low' < high - low]_searchVars

SearchIInv == WindowOK /\ SmallestFit
=============================================================================
