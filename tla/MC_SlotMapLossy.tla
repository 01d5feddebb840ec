--------------------------- MODULE MC_SlotMapLossy --------------------------
(* Model-checking instances of SlotMapLossy. *)
EXTENDS SlotMapLossy, TLC

Symmetry ==
  Permutations(Lossy) \cup Permutations(Thread \ Lossy) \cup Permutations(Value)
    \cup Permutations(OwningGuard) \cup Permutations(Guard \ OwningGuard)
=============================================================================
