------------------------ MODULE AtomicVecRefinement ------------------------
(***************************************************************************)
(* AtomicVec implements CellArray: a cell is an offset in a chunk.         *)
(***************************************************************************)
EXTENDS AtomicVecInvariants

Cell == Ptr \X Index

\* Where get and get_unchecked_ptr find the element of index i.
Place(i) == IF chunks[ChunkOf(i)] = Null THEN Null
            ELSE <<chunks[ChunkOf(i)], OffsetOf(i)>>

Array == INSTANCE CellArray WITH
  None <- Null, place <- [i \in Index |-> Place(i)], gone <- dropped

\* The vector is an array that grows under its readers: every push gets an
\* index of its own, and the reference that get returned for an index stays
\* that of the index's element, and of no other's, until the vector is dropped.
ImplementsCellArray == Array!Spec
=============================================================================
