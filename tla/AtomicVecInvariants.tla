------------------------ MODULE AtomicVecInvariants ------------------------
(***************************************************************************)
(* What must hold of AtomicVec in every reachable state.                   *)
(***************************************************************************)
EXTENDS AtomicVec

ThreadState ==
  [pc : PC, op : {"none", "push", "reserve", "get", "capacity"}, idx : Index,
   chunk : Chunk, last : Chunk, new : Ptr \cup {Null}, target : 0 .. LenMod, total : Nat]

\* The shared words, the locals and the history have their types; in particular
\* no call looks at a chunk beyond the last pointer (vec.rs:274 indexes an
\* array of 15).
VecTypeOK ==
  /\ len \in Index /\ chunks \in [Chunk -> Ptr \cup {Null}]
  /\ live \subseteq Ptr /\ dropped \in BOOLEAN
  /\ th \in [Thread -> ThreadState]
  /\ handed \subseteq Index /\ pushed \subseteq Index /\ promised \in 0 .. LenMod
  /\ failed \in BOOLEAN

----------------------------------------------------------------------------
(* The allocations *)

\* A thread that holds a chunk no one else has seen.
Holds(t, p) == At(t, "chunk_swap") /\ th[t].new = p

\* Each allocation that was not freed is either installed, in one chunk, or in
\* the hands of one thread that is about to install or free it: none leaks,
\* none is freed twice or used after, whoever loses the race for a chunk
\* (vec.rs:296-312), and nothing is left once the vector is dropped.
AllocationsOwned ==
  \A p \in Ptr :
    /\ p \in live <=> \/ \E k \in Chunk : chunks[k] = p
                      \/ \E t \in Thread : Holds(t, p)
    /\ \A k, m \in Chunk : chunks[k] = p /\ chunks[m] = p => k = m
    /\ \A t, u \in Thread : Holds(t, p) /\ Holds(u, p) => t = u
    /\ \A k \in Chunk, t \in Thread : ~(chunks[k] = p /\ Holds(t, p))

----------------------------------------------------------------------------
(* The indices *)

Pushing(t) == th[t].op = "push"

\* An index that push_zeroed has returned has its chunk, whether this push
\* allocated it, found it or lost the race for it (vec.rs:97-99): as long as no
\* allocation fails, a client never waits for an index it was given.
PushedReady ==
  ~failed /\ ~dropped => \A i \in pushed : chunks[ChunkOf(i)] # Null

----------------------------------------------------------------------------
(* The capacity *)

\* A capacity that is returned covers every reserve that ended before the call
\* to capacity began, whatever chunks come or are raced for meanwhile
\* ("with_capacity(n).capacity() >= n is guaranteed", lib.rs:763).
PromiseKept ==
  ~failed => \A t \in Thread : At(t, "cap_return") => th[t].total >= th[t].target

----------------------------------------------------------------------------
(* The inductive invariant *)

\* What the locals of a call say of each other.
LocalsSound ==
  \A t \in Thread :
    /\ Pushing(t) => /\ th[t].chunk = ChunkOf(th[t].idx) /\ th[t].last = ChunkOf(th[t].idx)
                     /\ th[t].pc # "cap_read"
    /\ ~At(t, "chunk_swap") => th[t].new = Null
    /\ ~failed /\ At(t, "chunk_swap") => th[t].new # Null

\* Short of the width of len, indices are given out from 0 up.
HandedInOrder == MaxLen < LenMod => handed = 0 .. len - 1

\* No call outlives the vector.
DroppedIdle == dropped => \A t \in Thread : At(t, "idle")

IInv ==
  /\ VecTypeOK /\ AllocationsOwned /\ LocalsSound
  /\ PushedReady /\ HandedInOrder /\ DroppedIdle

\* The chunks of the first n indices are there.
Covered(n) == n > 0 => \A k \in Chunk : k <= ChunkOf(n - 1) => chunks[k] # Null

\* A reserve leaves no gap behind it, so what is promised is covered from chunk
\* 0 on, and a capacity adds up where the chunks it has seen end.
CapacityCounted ==
  ~failed =>
    /\ ~dropped => Covered(promised)
    /\ \A t \in Thread :
         /\ th[t].pc \in {"chunk_load", "alloc", "chunk_swap"} /\ th[t].target > 0 =>
              /\ th[t].last = ChunkOf(th[t].target - 1)
              /\ \A k \in Chunk : k < th[t].chunk => chunks[k] # Null
         /\ At(t, "cap_read") =>
              /\ Covered(th[t].target) /\ th[t].total = Start(th[t].chunk)
              /\ \A k \in Chunk : k < th[t].chunk => Start(k) + ChunkSize(k) <= th[t].total
         /\ At(t, "cap_return") => th[t].total >= th[t].target

\* The chunks lie one after the other and hold every index, as the table of
\* their starts has it (vec.rs:246-262).
Contiguous ==
  /\ Start(0) = 0
  /\ \A k \in Chunk : k + 1 \in Chunk => Start(k + 1) = Start(k) + ChunkSize(k)
  /\ \A i \in Index : i < Start(ChunkOf(i)) + ChunkSize(ChunkOf(i))

----------------------------------------------------------------------------
(* Liveness *)

\* Whoever waits for the chunk of an index below len gets it in the end: it is
\* missing "for a short while" only (vec.rs:316), and "get / get_unchecked are
\* completely lockfree" (vec.rs:28).
GetsReturn == \A t \in Thread : At(t, "wait") ~> At(t, "idle")

\* As long as no allocation fails every call ends: a get below len does not wait
\* for ever, whoever loses the races for its chunk, as the push that raised len
\* sees to the chunk (vec.rs:90-92, 316-318).
CallsReturn == \A t \in Thread : []<>(failed \/ At(t, "idle"))
=============================================================================
