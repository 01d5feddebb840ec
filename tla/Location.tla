------------------------------ MODULE Location ------------------------------
(***************************************************************************)
(* Where an index of the vector lives: the vector is an array of chunks of *)
(* FirstChunk, 4 * FirstChunk, 16 * FirstChunk, ... elements (FirstChunk   *)
(* is 32 in the source).                                                   *)
(***************************************************************************)
EXTENDS Integers

CONSTANT FirstChunk   \* the size of chunk 0: the literal 32 of the source

ASSUME FirstChunkAssumption == FirstChunk \in Nat \ {0}

\* floor(log2(n)) for n >= 1: 63 - n.leading_zeros().  What get_location takes
\* the logarithm of is below 2^29 (an index has 32 bits).
Log2(n) == CHOOSE k \in 0..28 : 2^k <= n /\ n < 2^(k + 1)

\* The size of chunk k and the first index in it (the STARTS table).
ChunkSize(k) == FirstChunk * 4^k
Start(k) == FirstChunk * ((4^k - 1) \div 3)

\* AtomicVec::get_location, the chunk and the offset in the chunk.
ChunkOf(idx) == Log2((3 * idx) \div FirstChunk + 1) \div 2
OffsetOf(idx) == idx - Start(ChunkOf(idx))
=============================================================================
