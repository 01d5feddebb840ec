---------------------------- MODULE MC_AtomicVec ----------------------------
(* Model-checking instances of AtomicVec: its properties together.  They    *)
(* have liveness properties, and no symmetry.                               *)
EXTENDS AtomicVecRefinement
=============================================================================
