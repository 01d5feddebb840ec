----------------------------- MODULE KeyedStore -----------------------------
(***************************************************************************)
(* What AtomicSlotMap promises, with no slots, counters or free list: a    *)
(* store that hands out a key for each value moved into it, finds a value  *)
(* by its key until the key is removed, lends values to guards, and        *)
(* destroys a removed value once no guard holds it.  Each call takes       *)
(* effect in one step, between its beginning and its return.               *)
(***************************************************************************)
CONSTANTS Key, Value, Guard, None   \* None is neither a key nor a value

VARIABLES
  keyOf,   \* the key each value was inserted under, if it was
  bound,   \* the values their keys still lead to
  holds,   \* the value each guard holds
  drops    \* how often each value was destroyed

vars == <<keyOf, bound, holds, drops>>

Init ==
  /\ keyOf = [v \in Value |-> None]
  /\ bound = {}
  /\ holds = [g \in Guard |-> None]
  /\ drops = [v \in Value |-> 0]

Outside(v) == keyOf[v] = None /\ drops[v] = 0
Unheld(v) == \A g \in Guard : holds[g] # v

\* insert: under a key that was never handed out before.
Insert(v, k) ==
  /\ Outside(v) /\ \A w \in Value : keyOf[w] # k
  /\ keyOf' = [keyOf EXCEPT ![v] = k]
  /\ bound' = bound \cup {v}
  /\ UNCHANGED <<holds, drops>>

\* An insertion whose closure fails destroys its value.
Reject(v) ==
  /\ Outside(v)
  /\ drops' = [drops EXCEPT ![v] = 1]
  /\ UNCHANGED <<keyOf, bound, holds>>

\* remove succeeds: of all calls for one key, one.
Remove(v) ==
  /\ v \in bound
  /\ bound' = bound \ {v}
  /\ UNCHANGED <<keyOf, holds, drops>>

\* get succeeds.
Acquire(v, g) ==
  /\ v \in bound /\ holds[g] = None
  /\ holds' = [holds EXCEPT ![g] = v]
  /\ UNCHANGED <<keyOf, bound, drops>>

\* A guard is cloned, whether its value is still bound or not.
Share(g, h) ==
  /\ holds[g] # None /\ holds[h] = None
  /\ holds' = [holds EXCEPT ![h] = holds[g]]
  /\ UNCHANGED <<keyOf, bound, drops>>

Release(g) ==
  /\ holds[g] # None
  /\ holds' = [holds EXCEPT ![g] = None]
  /\ UNCHANGED <<keyOf, bound, drops>>

\* A removed value is destroyed, once, when no guard holds it.
Destroy(v) ==
  /\ keyOf[v] # None /\ v \notin bound /\ Unheld(v) /\ drops[v] = 0
  /\ drops' = [drops EXCEPT ![v] = 1]
  /\ UNCHANGED <<keyOf, bound, holds>>

\* The store is dropped, and what is still bound in it with it.
Close ==
  /\ \A g \in Guard : holds[g] = None
  /\ bound' = {}
  /\ drops' = [v \in Value |-> IF v \in bound THEN 1 ELSE drops[v]]
  /\ UNCHANGED <<keyOf, holds>>

Next ==
  \/ \E v \in Value : Reject(v) \/ Remove(v) \/ Destroy(v)
  \/ \E v \in Value, k \in Key : Insert(v, k)
  \/ \E v \in Value, g \in Guard : Acquire(v, g)
  \/ \E g \in Guard : Release(g) \/ \E h \in Guard : Share(g, h)
  \/ Close

Spec == Init /\ [][Next]_vars
=============================================================================
