----------------------------- MODULE CellArray -----------------------------
(***************************************************************************)
(* What AtomicVec promises, with no chunks, allocations or races: indices  *)
(* are given out one by one, each once; the cell of an index is settled at *)
(* some time, alone or together with others, before or after the index is  *)
(* given out; a settled cell never moves, and no two indices share one.    *)
(***************************************************************************)
CONSTANTS Index, Cell, None   \* None is no cell

VARIABLES
  handed,   \* the indices given out
  place,    \* the cell of each index, or None
  gone

vars == <<handed, place, gone>>

Init ==
  /\ handed = {} /\ gone = FALSE
  /\ place = [i \in Index |-> None]

Distinct(f) == \A i, j \in Index : i # j /\ f[i] # None => f[i] # f[j]

\* A push takes the next index, which is one that no push took before.
HandOut ==
  /\ ~gone
  /\ \E i \in Index \ handed : handed' = handed \cup {i}
  /\ UNCHANGED <<place, gone>>

\* Cells are settled.
Settle ==
  /\ ~gone
  /\ place' \in [Index -> Cell \cup {None}] /\ Distinct(place')
  /\ \A i \in Index : place[i] # None => place'[i] = place[i]
  /\ UNCHANGED <<handed, gone>>

\* The array is dropped.
Vanish ==
  /\ ~gone /\ gone' = TRUE
  /\ place' = [i \in Index |-> None]
  /\ UNCHANGED handed

Next == HandOut \/ Settle \/ Vanish

Spec == Init /\ [][Next]_vars
=============================================================================
