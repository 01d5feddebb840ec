----------------------------- MODULE MC_SlotMap -----------------------------
(* Model-checking instances of SlotMap. *)
EXTENDS SlotMapRefinement, TLC

\* Guards may be permuted only among those of one kind.
Symmetry ==
  Permutations(Thread) \cup Permutations(Value)
    \cup Permutations(OwningGuard) \cup Permutations(Guard \ OwningGuard)
=============================================================================
