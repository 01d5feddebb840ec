------------------------- MODULE SlotMapRefinement -------------------------
(***************************************************************************)
(* AtomicSlotMap implements KeyedStore: an insertion takes effect when it  *)
(* stores the version, a removal when it exchanges the version, and a get  *)
(* when it compares the version.                                           *)
(***************************************************************************)
EXTENDS SlotMapInvariants

\* The values a lookup of their key would lead to.
Bound == {v \in Value : /\ life # "freed" /\ keyOf[v] # None
                        /\ version[keyOf[v].idx] = keyOf[v].ver}

\* What a guard reads is the content of its slot.
Holds == [g \in Guard |-> IF Held(g) THEN data[guard[g].idx] ELSE None]

Store == INSTANCE KeyedStore WITH bound <- Bound, holds <- Holds

\* Every behaviour of the slot map, seen through Bound and Holds, is one of
\* the keyed store: lock-free calls of many threads look like atomic ones
\* (lib.rs: insert, remove, get; the guards' promise to keep their value).
ImplementsKeyedStore == Store!Spec

\* A get for a key gives up, before or after it took a reference, only at a
\* moment when the key leads to nothing or the count is over its cap: no race
\* makes a present value look absent.
Missing(t) ==
  \/ At(t, "acquire") /\ th'[t].pc = "idle"
  \/ At(t, "check") /\ th'[t].pc = "undo"
MissesJustified ==
  [][\A t \in Thread : Missing(t) =>
       \/ version[th[t].idx] # th[t].ver
       \/ ref_count[th[t].idx] > MAX_REFCOUNT]_vars
=============================================================================
