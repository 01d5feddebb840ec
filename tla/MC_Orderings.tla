---------------------------- MODULE MC_Orderings ----------------------------
(* Model-checking instances of Orderings. *)
EXTENDS Orderings, TLC

Budget(inserts, gets, slots) == [insert |-> inserts, get |-> gets, slots |-> slots]

\* One slot that is used again, with guards that go round; and two slots on
\* the free list, with more insertions but fewer guards.
MCBudgets == {Budget(2, 2, 1), Budget(1, 3, 1), Budget(3, 1, 1),
              Budget(3, 0, 2), Budget(2, 1, 2)}

Symmetry == Permutations(Thread) \cup Permutations(Guard)
=============================================================================
