----------------------------- MODULE AtomicVec -----------------------------
(***************************************************************************)
(* AtomicVec: a vector of chunks that threads grow together.  An index is  *)
(* taken before its chunk is there; whoever finds the chunk missing        *)
(* allocates one and tries to install it, and readers spin until it is.    *)
(***************************************************************************)
EXTENDS Integers, FiniteSets, Location

CONSTANTS
  Thread,
  Ptr,        \* addresses the allocator may return
  Null,       \* the null pointer
  LenMod,     \* len wraps here (2^32 in the source)
  MaxLen,     \* bound: no push once len is here
  Amounts,    \* bound: the amounts reserve is called with
  MayFail     \* whether an allocation may return null or panic

Index == 0 .. LenMod - 1
NumChunks == ChunkOf(LenMod - 1) + 1          \* 15 in the source
Chunk == 0 .. NumChunks - 1

ASSUME AtomicVecAssumption ==
  /\ LenMod \in Nat \ {0} /\ MaxLen \in 0 .. LenMod /\ Amounts \subseteq Nat
  /\ Null \notin Ptr /\ MayFail \in BOOLEAN
  /\ NumChunks \in Nat \ {0}
  /\ \A i \in Index : ChunkOf(i) \in Chunk /\ OffsetOf(i) \in Index
  /\ \A k \in Chunk : ChunkSize(k) \in Nat /\ Start(k) \in Nat

VARIABLES
  len,
  chunks,     \* the pointers to the chunks
  live,       \* the allocations that were not freed (the allocator's)
  dropped,    \* whether the vector was dropped
  th,         \* each thread's program counter and locals
  \* History, read by no guard of the code:
  handed,     \* indices that push_zeroed took
  pushed,     \* indices that push_zeroed returned
  promised,   \* the largest capacity a finished reserve asked for
  failed      \* whether an allocation has failed

vars == <<len, chunks, live, dropped, th, handed, pushed, promised, failed>>
history == <<handed, pushed, promised, failed>>

PC == {"idle", "chunk_load", "alloc", "chunk_swap", "wait", "cap_read", "cap_return"}

Idle == [pc |-> "idle", op |-> "none", idx |-> 0, chunk |-> 0, last |-> 0,
         new |-> Null, target |-> 0, total |-> 0]

Become(t, r) == th' = [th EXCEPT ![t] = r]
Return(t) == Become(t, Idle)
At(t, pc) == th[t].pc = pc
Here(t) == th[t].chunk

Init ==
  /\ len = 0 /\ chunks = [k \in Chunk |-> Null]
  /\ live = {} /\ dropped = FALSE
  /\ th = [t \in Thread |-> Idle]
  /\ handed = {} /\ pushed = {} /\ promised = 0 /\ failed = FALSE

----------------------------------------------------------------------------
(* push_zeroed and reserve *)

\* Mutant: the chunk of the index before is ensured.
BeginPush_Before(t) ==
  LET chunk == ChunkOf(IF len = 0 THEN 0 ELSE len - 1)
  IN  /\ ~dropped /\ At(t, "idle") /\ len < MaxLen
      /\ len' = (len + 1) % LenMod
      /\ handed' = handed \cup {len}
      /\ Become(t, [Idle EXCEPT !.pc = "chunk_load", !.op = "push", !.idx = len,
                                !.chunk = chunk, !.last = chunk])
      /\ UNCHANGED <<chunks, live, dropped, pushed, promised, failed>>

BeginPush(t) ==
  /\ ~dropped /\ At(t, "idle") /\ len < MaxLen
  /\ len' = (len + 1) % LenMod
  /\ handed' = handed \cup {len}
  /\ Become(t, [Idle EXCEPT !.pc = "chunk_load", !.op = "push", !.idx = len,
                            !.chunk = ChunkOf(len), !.last = ChunkOf(len)])
  /\ UNCHANGED <<chunks, live, dropped, pushed, promised, failed>>

\* Mutant: the width of the capacity is not checked.
BeginReserve_Wide(t, additional) ==
  LET target_cap == len + additional
  IN  /\ ~dropped /\ At(t, "idle")
      /\ target_cap >= 1
      /\ Become(t, [Idle EXCEPT !.pc = "chunk_load", !.op = "reserve",
                                !.last = ChunkOf(target_cap - 1), !.target = target_cap])
      /\ UNCHANGED <<len, chunks, live, dropped, history>>

\* A reserve of nothing, and one beyond the width of len, which panics, do
\* nothing at all.
BeginReserve(t, additional) ==
  LET target_cap == len + additional
  IN  /\ ~dropped /\ At(t, "idle")
      /\ target_cap \in 1 .. LenMod
      /\ Become(t, [Idle EXCEPT !.pc = "chunk_load", !.op = "reserve",
                                !.last = ChunkOf(target_cap - 1), !.target = target_cap])
      /\ UNCHANGED <<len, chunks, live, dropped, history>>

\* The chunk is there: on to the next one, or out of the call.
Proceed(t) ==
  IF th[t].chunk < th[t].last
  THEN /\ Become(t, [th[t] EXCEPT !.pc = "chunk_load", !.chunk = @ + 1, !.new = Null])
       /\ UNCHANGED history
  ELSE /\ Return(t)
       /\ pushed' = IF th[t].op = "push" THEN pushed \cup {th[t].idx} ELSE pushed
       /\ promised' = IF th[t].target > promised THEN th[t].target ELSE promised
       /\ UNCHANGED <<handed, failed>>

\* Mutant: a reserve stops at the first chunk that is there.
FindChunk_Stop(t) ==
  /\ At(t, "chunk_load") /\ chunks[Here(t)] # Null
  /\ Return(t)
  /\ pushed' = IF th[t].op = "push" THEN pushed \cup {th[t].idx} ELSE pushed
  /\ promised' = IF th[t].target > promised THEN th[t].target ELSE promised
  /\ UNCHANGED <<len, chunks, live, dropped, handed, failed>>

FindChunk(t) ==
  /\ At(t, "chunk_load") /\ chunks[Here(t)] # Null
  /\ Proceed(t)
  /\ UNCHANGED <<len, chunks, live, dropped>>

MissChunk(t) ==
  /\ At(t, "chunk_load") /\ chunks[Here(t)] = Null
  /\ Become(t, [th[t] EXCEPT !.pc = "alloc"])
  /\ UNCHANGED <<len, chunks, live, dropped, history>>

Allocate(t) ==
  /\ At(t, "alloc")
  /\ \E p \in Ptr \ live :
       /\ live' = live \cup {p}
       /\ Become(t, [th[t] EXCEPT !.pc = "chunk_swap", !.new = p])
  /\ UNCHANGED <<len, chunks, dropped, history>>

\* Out of memory: alloc_zeroed returns null, which no one looks at; it is then
\* exchanged for null, or deallocated (as free does it: to no effect).
AllocateNull(t) ==
  /\ At(t, "alloc") /\ MayFail
  /\ Become(t, [th[t] EXCEPT !.pc = "chunk_swap"])
  /\ failed' = TRUE
  /\ UNCHANGED <<len, chunks, live, dropped, handed, pushed, promised>>

\* The layout overflows and the call panics; len stays raised.
AllocatePanics(t) ==
  /\ At(t, "alloc") /\ MayFail
  /\ Return(t) /\ failed' = TRUE
  /\ UNCHANGED <<len, chunks, live, dropped, handed, pushed, promised>>

\* Mutant: the pointer is stored without a comparison.
InstallChunk_Store(t) ==
  /\ At(t, "chunk_swap")
  /\ chunks' = [chunks EXCEPT ![Here(t)] = th[t].new]
  /\ Proceed(t)
  /\ UNCHANGED <<len, live, dropped>>

\* Mutant: a weak exchange, which may fail although the chunk is not there.
InstallChunk_Weak(t) ==
  /\ At(t, "chunk_swap") /\ chunks[Here(t)] = Null
  /\ \/ chunks' = [chunks EXCEPT ![Here(t)] = th[t].new] /\ UNCHANGED live
     \/ live' = live \ {th[t].new} /\ UNCHANGED chunks
  /\ Proceed(t)
  /\ UNCHANGED <<len, dropped>>

InstallChunk(t) ==
  /\ At(t, "chunk_swap") /\ chunks[Here(t)] = Null
  /\ chunks' = [chunks EXCEPT ![Here(t)] = th[t].new]
  /\ Proceed(t)
  /\ UNCHANGED <<len, live, dropped>>

\* Mutant: the chunk that came too late is not freed.
LoseRace_Leak(t) ==
  /\ At(t, "chunk_swap") /\ chunks[Here(t)] # Null
  /\ Proceed(t)
  /\ UNCHANGED <<len, chunks, live, dropped>>

\* Another thread installed the chunk meanwhile: this one's is freed.
LoseRace(t) ==
  /\ At(t, "chunk_swap") /\ chunks[Here(t)] # Null
  /\ live' = live \ {th[t].new}
  /\ Proceed(t)
  /\ UNCHANGED <<len, chunks, dropped>>

----------------------------------------------------------------------------
(* get, get_unchecked, capacity *)

\* wait_for_chunk for an index below len.
BeginGet(t, idx) ==
  /\ ~dropped /\ At(t, "idle") /\ idx < len
  /\ Become(t, [Idle EXCEPT !.pc = "wait", !.op = "get", !.idx = idx, !.chunk = ChunkOf(idx)])
  /\ UNCHANGED <<len, chunks, live, dropped, history>>

Spin(t) == At(t, "wait") /\ chunks[Here(t)] = Null /\ UNCHANGED vars

EndGet(t) ==
  /\ At(t, "wait") /\ chunks[Here(t)] # Null
  /\ Return(t)
  /\ UNCHANGED <<len, chunks, live, dropped, history>>

\* target remembers what was promised when the call began.
BeginCapacity(t) ==
  /\ ~dropped /\ At(t, "idle")
  /\ Become(t, [Idle EXCEPT !.pc = "cap_read", !.op = "capacity", !.target = promised])
  /\ UNCHANGED <<len, chunks, live, dropped, history>>

ReadCapacity(t) ==
  /\ At(t, "cap_read")
  /\ Become(t, IF chunks[Here(t)] = Null THEN [th[t] EXCEPT !.pc = "cap_return"]
               ELSE [th[t] EXCEPT !.total = @ + ChunkSize(Here(t)),
                                  !.chunk = IF Here(t) + 1 \in Chunk THEN @ + 1 ELSE 0,
                                  !.pc = IF Here(t) + 1 \in Chunk THEN "cap_read"
                                         ELSE "cap_return"])
  /\ UNCHANGED <<len, chunks, live, dropped, history>>

EndCapacity(t) ==
  /\ At(t, "cap_return") /\ Return(t)
  /\ UNCHANGED <<len, chunks, live, dropped, history>>

----------------------------------------------------------------------------
(* Drop *)

\* No thread uses the vector any more: its chunks are freed.
Drop ==
  /\ ~dropped /\ \A t \in Thread : At(t, "idle")
  /\ dropped' = TRUE
  /\ live' = live \ {chunks[k] : k \in Chunk}
  /\ chunks' = [k \in Chunk |-> Null]
  /\ UNCHANGED <<len, th, history>>

Ensure(t) == \/ FindChunk(t) \/ MissChunk(t)
             \/ Allocate(t) \/ AllocateNull(t) \/ AllocatePanics(t)
             \/ InstallChunk(t) \/ LoseRace(t)
Step(t) == Ensure(t) \/ Spin(t) \/ EndGet(t) \/ ReadCapacity(t) \/ EndCapacity(t)
Call(t) == \/ BeginPush(t) \/ \E n \in Amounts : BeginReserve(t, n)
           \/ \E i \in Index : BeginGet(t, i) \/ BeginCapacity(t)

Gone == dropped /\ UNCHANGED vars

Next == (\E t \in Thread : Call(t) \/ Step(t)) \/ Drop \/ Gone

Spec == Init /\ [][Next]_vars

\* Threads in a call are scheduled; clients need not call.
FairSpec == Spec /\ \A t \in Thread : WF_vars(Step(t))

=============================================================================
