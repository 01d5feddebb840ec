-------------------------- MODULE AtomicVecProofs --------------------------
(***************************************************************************)
(* AtomicVec for any number of threads, chunks and allocations: its types, *)
(* its allocations, the readiness of what it hands out, that it implements *)
(* CellArray, and the capacity it returns.                                 *)
(***************************************************************************)
EXTENDS AtomicVecRefinement, LocationProofs, TLAPS

----------------------------------------------------------------------------
(* Types *)

LEMMA Sizes ==
  /\ LenMod \in Nat \ {0} /\ MaxLen \in 0 .. LenMod /\ Amounts \subseteq Nat
  /\ Null \notin Ptr /\ MayFail \in BOOLEAN
  /\ 0 \in Chunk /\ 0 \in Index /\ Chunk \subseteq Nat /\ Index \subseteq Nat
  /\ \A i \in Index : ChunkOf(i) \in Chunk /\ OffsetOf(i) \in Index
  /\ \A k \in Chunk : ChunkSize(k) \in Nat
BY AtomicVecAssumption DEF Chunk, Index

LEMMA IdleType == Idle \in ThreadState
BY Sizes DEF Idle, ThreadState, PC

LEMMA BecomeType ==
  ASSUME VecTypeOK, NEW t \in Thread, NEW r \in ThreadState, Become(t, r)
  PROVE  th' \in [Thread -> ThreadState] /\ th'[t] = r
BY DEF VecTypeOK, Become

\* What Proceed leaves behind.
LEMMA ProceedType ==
  ASSUME VecTypeOK, NEW t \in Thread, Proceed(t)
  PROVE  /\ th' \in [Thread -> ThreadState] /\ handed' \subseteq Index
         /\ pushed' \subseteq Index /\ promised' \in 0 .. LenMod /\ failed' = failed
<1>0. th[t] \in ThreadState  BY DEF VecTypeOK
<1>1. CASE th[t].chunk < th[t].last
  <2>. DEFINE r == [th[t] EXCEPT !.pc = "chunk_load", !.chunk = @ + 1, !.new = Null]
  <2>1. th[t].chunk + 1 \in Chunk
    BY <1>0, <1>1, AtomicVecAssumption DEF ThreadState, Chunk
  <2>2. r \in ThreadState  BY <1>0, <2>1 DEF ThreadState, PC
  <2>3. Become(t, r) /\ UNCHANGED history  BY <1>1 DEF Proceed
  <2>. HIDE DEF r
  <2>. QED  BY <2>2, <2>3, BecomeType DEF VecTypeOK, history
<1>2. CASE ~(th[t].chunk < th[t].last)
  <2>1. /\ Become(t, Idle) /\ UNCHANGED <<handed, failed>>
        /\ pushed' = pushed \/ pushed' = pushed \cup {th[t].idx}
        /\ promised' = promised \/ promised' = th[t].target
    BY <1>2, Zenon DEF Proceed, Return
  <2>. QED  BY <1>0, <2>1, IdleType, BecomeType DEF VecTypeOK, ThreadState
<1>. QED  BY <1>1, <1>2

LEMMA TypeStep ==
  ASSUME VecTypeOK, [Next]_vars
  PROVE  VecTypeOK'
<1>. USE Sizes
<1>a. \A t \in Thread : th[t] \in ThreadState  BY DEF VecTypeOK
<1>1. ASSUME NEW t \in Thread, BeginPush(t)  PROVE VecTypeOK'
  <2>. DEFINE r == [Idle EXCEPT !.pc = "chunk_load", !.op = "push", !.idx = len,
                                !.chunk = ChunkOf(len), !.last = ChunkOf(len)]
  <2>1. (len + 1) % LenMod \in Index  BY DEF VecTypeOK, Index
  <2>2. r \in ThreadState
    <3>1. len \in Index /\ ChunkOf(len) \in Chunk  BY DEF VecTypeOK
    <3>. QED  BY <3>1, IdleType DEF ThreadState, PC
  <2>3. Become(t, r)  BY <1>1 DEF BeginPush
  <2>. HIDE DEF r
  <2>. QED  BY <1>1, <2>1, <2>2, <2>3, BecomeType DEF BeginPush, VecTypeOK
<1>2. ASSUME NEW t \in Thread, NEW n \in Amounts, BeginReserve(t, n)  PROVE VecTypeOK'
  <2>. DEFINE r == [Idle EXCEPT !.pc = "chunk_load", !.op = "reserve",
                                !.last = ChunkOf((len + n) - 1), !.target = len + n]
  <2>1. len + n \in 1 .. LenMod /\ len \in Nat /\ n \in Nat
    BY <1>2 DEF BeginReserve, VecTypeOK
  <2>2. (len + n) - 1 \in Index /\ len + n \in 0 .. LenMod  BY <2>1 DEF Index
  <2>3. ChunkOf((len + n) - 1) \in Chunk  BY <2>2
  <2>4. r \in ThreadState  BY <2>2, <2>3, IdleType DEF ThreadState, PC
  <2>5. Become(t, r)  BY <1>2 DEF BeginReserve
  <2>. HIDE DEF r
  <2>. QED  BY <1>2, <2>4, <2>5, BecomeType DEF BeginReserve, VecTypeOK, history
<1>3. ASSUME NEW t \in Thread, NEW i \in Index, BeginGet(t, i)  PROVE VecTypeOK'
  <2>. DEFINE r == [Idle EXCEPT !.pc = "wait", !.op = "get", !.idx = i, !.chunk = ChunkOf(i)]
  <2>1. r \in ThreadState  BY IdleType DEF ThreadState, PC
  <2>2. Become(t, r)  BY <1>3 DEF BeginGet
  <2>. HIDE DEF r
  <2>. QED  BY <1>3, <2>1, <2>2, BecomeType DEF BeginGet, VecTypeOK, history
<1>4. ASSUME NEW t \in Thread, BeginCapacity(t)  PROVE VecTypeOK'
  <2>. DEFINE r == [Idle EXCEPT !.pc = "cap_read", !.op = "capacity", !.target = promised]
  <2>1. r \in ThreadState  BY IdleType DEF VecTypeOK, ThreadState, PC
  <2>2. Become(t, r)  BY <1>4 DEF BeginCapacity
  <2>. HIDE DEF r
  <2>. QED  BY <1>4, <2>1, <2>2, BecomeType DEF BeginCapacity, VecTypeOK, history
<1>5. ASSUME NEW t \in Thread, FindChunk(t)  PROVE VecTypeOK'
  BY <1>5, ProceedType DEF FindChunk, VecTypeOK
<1>6. ASSUME NEW t \in Thread, MissChunk(t)  PROVE VecTypeOK'
  <2>1. [th[t] EXCEPT !.pc = "alloc"] \in ThreadState  BY <1>a DEF ThreadState, PC
  <2>. QED  BY <1>6, <2>1, BecomeType DEF MissChunk, VecTypeOK, history
<1>7. ASSUME NEW t \in Thread, Allocate(t)  PROVE VecTypeOK'
  <2>1. PICK p \in Ptr \ live :
          /\ live' = live \cup {p}
          /\ Become(t, [th[t] EXCEPT !.pc = "chunk_swap", !.new = p])
    BY <1>7 DEF Allocate
  <2>2. [th[t] EXCEPT !.pc = "chunk_swap", !.new = p] \in ThreadState
    BY <1>a DEF ThreadState, PC
  <2>. QED  BY <1>7, <2>1, <2>2, BecomeType DEF Allocate, VecTypeOK, history
<1>8. ASSUME NEW t \in Thread, AllocateNull(t)  PROVE VecTypeOK'
  <2>1. [th[t] EXCEPT !.pc = "chunk_swap"] \in ThreadState  BY <1>a DEF ThreadState, PC
  <2>. QED  BY <1>8, <2>1, BecomeType DEF AllocateNull, VecTypeOK, history
<1>9. ASSUME NEW t \in Thread, AllocatePanics(t) \/ EndGet(t) \/ EndCapacity(t)
      PROVE VecTypeOK'
  BY <1>9, IdleType, BecomeType
  DEF AllocatePanics, EndGet, EndCapacity, Return, VecTypeOK, history
<1>10. ASSUME NEW t \in Thread, InstallChunk(t)  PROVE VecTypeOK'
  <2>1. th[t].new \in Ptr \cup {Null}  BY <1>a DEF ThreadState
  <2>. QED  BY <1>10, <2>1, ProceedType DEF InstallChunk, VecTypeOK
<1>11. ASSUME NEW t \in Thread, LoseRace(t)  PROVE VecTypeOK'
  BY <1>11, ProceedType DEF LoseRace, VecTypeOK
<1>12. ASSUME NEW t \in Thread, ReadCapacity(t)  PROVE VecTypeOK'
  <2>1. th[t].chunk \in Chunk /\ th[t].total + ChunkSize(Here(t)) \in Nat
    <3>1. th[t].chunk \in Chunk /\ th[t].total \in Nat  BY <1>a DEF ThreadState
    <3>2. ChunkSize(Here(t)) \in Nat  BY <3>1 DEF Here
    <3>. QED  BY <3>1, <3>2
  <2>2. PICK r \in ThreadState : Become(t, r)
    <3>1. CASE chunks[Here(t)] = Null
      <4>1. [th[t] EXCEPT !.pc = "cap_return"] \in ThreadState
        BY <1>a DEF ThreadState, PC
      <4>. QED  BY <1>12, <3>1, <4>1 DEF ReadCapacity
    <3>2. CASE chunks[Here(t)] # Null
      <4>. DEFINE k == IF Here(t) + 1 \in Chunk THEN th[t].chunk + 1 ELSE 0
                  pc == IF Here(t) + 1 \in Chunk THEN "cap_read" ELSE "cap_return"
                  r == [th[t] EXCEPT !.total = @ + ChunkSize(Here(t)),
                                     !.chunk = k, !.pc = pc]
      <4>1. k \in Chunk /\ pc \in PC  BY DEF Here, PC
      <4>2. Become(t, r)  BY <1>12, <3>2 DEF ReadCapacity
      <4>. HIDE DEF k, pc
      <4>3. r \in ThreadState  BY <1>a, <2>1, <4>1 DEF ThreadState
      <4>. QED  BY <4>2, <4>3
    <3>. QED  BY <3>1, <3>2
  <2>. QED  BY <1>12, <2>2, BecomeType DEF ReadCapacity, VecTypeOK, history
<1>13. CASE Drop
  BY <1>13 DEF Drop, VecTypeOK, history
<1>14. CASE UNCHANGED vars
  BY <1>14 DEF VecTypeOK, vars
<1>. QED
  BY <1>1, <1>2, <1>3, <1>4, <1>5, <1>6, <1>7, <1>8, <1>9, <1>10, <1>11, <1>12, <1>13, <1>14
  DEF Next, Call, Step, Ensure, Spin, Gone

----------------------------------------------------------------------------
(* Moves of a thread *)

\* The actions that leave the chunks and the allocations alone.
Quiet(t) ==
  \/ BeginPush(t) \/ \E n \in Amounts : BeginReserve(t, n)
  \/ \E i \in Index : BeginGet(t, i)
  \/ BeginCapacity(t) \/ FindChunk(t) \/ MissChunk(t) \/ AllocateNull(t)
  \/ AllocatePanics(t) \/ EndGet(t) \/ ReadCapacity(t) \/ EndCapacity(t)

LEMMA Actions ==
  ASSUME [Next]_vars
  PROVE  \/ \E t \in Thread : Quiet(t) \/ Allocate(t) \/ InstallChunk(t) \/ LoseRace(t)
         \/ Drop \/ UNCHANGED vars
BY DEF Next, Call, Step, Ensure, Spin, Gone, Quiet

\* A failed allocation is not forgotten.
LEMMA FailedStays ==
  ASSUME [Next]_vars
  PROVE  failed => failed'
<1>1. ASSUME NEW t \in Thread, Proceed(t)  PROVE failed' = failed
  BY <1>1 DEF Proceed, history
<1>2. ASSUME NEW t \in Thread, Quiet(t)  PROVE failed => failed'
  BY <1>1, <1>2 DEF Quiet, BeginPush, BeginReserve, BeginGet, BeginCapacity, FindChunk,
     MissChunk, AllocateNull, AllocatePanics, EndGet, ReadCapacity, EndCapacity, history
<1>3. ASSUME NEW t \in Thread, Allocate(t) \/ InstallChunk(t) \/ LoseRace(t)
      PROVE  failed' = failed
  BY <1>1, <1>3 DEF Allocate, InstallChunk, LoseRace, history
<1>. QED  BY <1>2, <1>3, Actions DEF Drop, vars, history

LEMMA ProceedMoves ==
  ASSUME VecTypeOK, NEW t \in Thread, Proceed(t)
  PROVE  /\ \A u \in Thread \ {t} : th'[u] = th[u]
         /\ th'[t].new = Null
         /\ \/ /\ th[t].chunk < th[t].last /\ th'[t].pc = "chunk_load"
               /\ th'[t].op = th[t].op /\ th'[t].idx = th[t].idx /\ th'[t].last = th[t].last
               /\ pushed' = pushed /\ handed' = handed
            \/ /\ ~(th[t].chunk < th[t].last) /\ th'[t] = Idle /\ handed' = handed
               /\ pushed' = IF Pushing(t) THEN pushed \cup {th[t].idx} ELSE pushed
<1>1. th[t] \in ThreadState  BY DEF VecTypeOK
<1>2. CASE th[t].chunk < th[t].last
  <2>. DEFINE r == [th[t] EXCEPT !.pc = "chunk_load", !.chunk = @ + 1, !.new = Null]
  <2>1. Become(t, r) /\ UNCHANGED history  BY <1>2 DEF Proceed
  <2>2. /\ r.pc = "chunk_load" /\ r.op = th[t].op /\ r.idx = th[t].idx
        /\ r.last = th[t].last /\ r.new = Null
    BY <1>1 DEF ThreadState
  <2>. HIDE DEF r
  <2>3. th'[t] = r /\ \A u \in Thread \ {t} : th'[u] = th[u]
    BY <2>1 DEF Become, VecTypeOK
  <2>. QED  BY <1>2, <2>1, <2>2, <2>3 DEF history
<1>3. CASE ~(th[t].chunk < th[t].last)
  <2>1. /\ Become(t, Idle) /\ handed' = handed
        /\ pushed' = IF Pushing(t) THEN pushed \cup {th[t].idx} ELSE pushed
    BY <1>3, Zenon DEF Proceed, Return, Pushing
  <2>2. th'[t] = Idle /\ \A u \in Thread \ {t} : th'[u] = th[u]
    BY <2>1 DEF Become, VecTypeOK
  <2>3. Idle.new = Null  BY DEF Idle
  <2>. QED  BY <1>3, <2>1, <2>2, <2>3
<1>. QED  BY <1>2, <1>3

\* A thread comes by a chunk in Allocate only.
LEMMA QuietMoves ==
  ASSUME VecTypeOK, LocalsSound, NEW t \in Thread, Quiet(t)
  PROVE  /\ chunks' = chunks /\ live' = live /\ dropped' = dropped
         /\ \A u \in Thread \ {t} : th'[u] = th[u]
         /\ th[t].new = Null /\ th'[t].new = Null
         /\ th'[t].pc = "chunk_swap" => failed'
<1>. USE DEF Idle, Become, Return
<1>0. th \in [Thread -> ThreadState] /\ th[t] \in ThreadState  BY DEF VecTypeOK
<1>. DEFINE Claim == /\ chunks' = chunks /\ live' = live /\ dropped' = dropped
                     /\ \A u \in Thread \ {t} : th'[u] = th[u]
                     /\ th[t].new = Null /\ th'[t].new = Null
                     /\ th'[t].pc = "chunk_swap" => failed'
<1>1. CASE BeginPush(t)
  BY <1>0, <1>1 DEF BeginPush, LocalsSound, At
<1>2. ASSUME NEW n \in Amounts, BeginReserve(t, n)  PROVE Claim
  BY <1>0, <1>2 DEF BeginReserve, LocalsSound, At
<1>3. ASSUME NEW i \in Index, BeginGet(t, i)  PROVE Claim
  BY <1>0, <1>3 DEF BeginGet, LocalsSound, At
<1>4. CASE BeginCapacity(t)
  BY <1>0, <1>4 DEF BeginCapacity, LocalsSound, At
<1>5. CASE FindChunk(t)
  BY <1>5, ProceedMoves DEF FindChunk, LocalsSound, At
<1>6. CASE MissChunk(t)
  BY <1>0, <1>6 DEF MissChunk, LocalsSound, At, ThreadState
<1>7. CASE AllocateNull(t)
  BY <1>0, <1>7 DEF AllocateNull, LocalsSound, At, ThreadState
<1>8. CASE AllocatePanics(t) \/ EndGet(t) \/ EndCapacity(t)
  BY <1>0, <1>8 DEF AllocatePanics, EndGet, EndCapacity, LocalsSound, At
<1>9. CASE ReadCapacity(t)
  BY <1>0, <1>9 DEF ReadCapacity, LocalsSound, At, ThreadState
<1>. QED  BY <1>1, <1>2, <1>3, <1>4, <1>5, <1>6, <1>7, <1>8, <1>9 DEF Quiet

LEMMA AllocateMoves ==
  ASSUME VecTypeOK, NEW t \in Thread, Allocate(t)
  PROVE  \E p \in Ptr \ live :
           /\ live' = live \cup {p} /\ chunks' = chunks /\ dropped' = dropped
           /\ th'[t] = [th[t] EXCEPT !.pc = "chunk_swap", !.new = p]
           /\ th'[t].pc = "chunk_swap" /\ th'[t].new = p /\ At(t, "alloc")
           /\ \A u \in Thread \ {t} : th'[u] = th[u]
<1>1. PICK p \in Ptr \ live :
        /\ live' = live \cup {p}
        /\ Become(t, [th[t] EXCEPT !.pc = "chunk_swap", !.new = p])
  BY DEF Allocate
<1>2. th'[t] = [th[t] EXCEPT !.pc = "chunk_swap", !.new = p]
      /\ \A u \in Thread \ {t} : th'[u] = th[u]
  BY <1>1 DEF Become, VecTypeOK
<1>3. th'[t].pc = "chunk_swap" /\ th'[t].new = p  BY <1>2 DEF VecTypeOK, ThreadState
<1>. QED  BY <1>1, <1>2, <1>3 DEF Allocate

----------------------------------------------------------------------------
(* The allocations *)

LEMMA OwnedStep ==
  ASSUME VecTypeOK, LocalsSound, AllocationsOwned, [Next]_vars
  PROVE  AllocationsOwned'
<1>. USE Sizes
<1>1. ASSUME NEW t \in Thread, Quiet(t)  PROVE AllocationsOwned'
  <2>1. \A u \in Thread, p \in Ptr : Holds(u, p)' <=> Holds(u, p)
    BY <1>1, QuietMoves DEF Holds, At
  <2>2. chunks' = chunks /\ live' = live  BY <1>1, QuietMoves
  <2>. QED  BY <2>1, <2>2 DEF AllocationsOwned
<1>2. ASSUME NEW t \in Thread, Allocate(t)  PROVE AllocationsOwned'
  <2>1. PICK q \in Ptr \ live :
          /\ live' = live \cup {q} /\ chunks' = chunks
          /\ th'[t].pc = "chunk_swap" /\ th'[t].new = q /\ At(t, "alloc")
          /\ \A u \in Thread \ {t} : th'[u] = th[u]
    BY <1>2, AllocateMoves
  <2>2. \A p \in Ptr : /\ \A u \in Thread \ {t} : Holds(u, p)' <=> Holds(u, p)
                       /\ ~Holds(t, p) /\ (Holds(t, p)' <=> p = q)
    BY <2>1 DEF Holds, At
  <2>3. /\ \A k \in Chunk : chunks[k] # q
        /\ \A u \in Thread : ~Holds(u, q)
    BY <2>1 DEF AllocationsOwned
  <2>. SUFFICES ASSUME NEW p \in Ptr
                PROVE  /\ p \in live' <=> \/ \E k \in Chunk : chunks'[k] = p
                                          \/ \E u \in Thread : Holds(u, p)'
                       /\ \A k, m \in Chunk : chunks'[k] = p /\ chunks'[m] = p => k = m
                       /\ \A u, v \in Thread : Holds(u, p)' /\ Holds(v, p)' => u = v
                       /\ \A k \in Chunk, u \in Thread : ~(chunks'[k] = p /\ Holds(u, p)')
    BY DEF AllocationsOwned
  <2>4. CASE p = q
    <3>1. \A u \in Thread : Holds(u, p)' <=> u = t  BY <2>2, <2>3, <2>4
    <3>. QED  BY <3>1, <2>1, <2>3, <2>4
  <2>5. CASE p # q
    <3>1. \A u \in Thread : Holds(u, p)' <=> Holds(u, p)  BY <2>2, <2>5
    <3>2. p \in live' <=> p \in live  BY <2>1, <2>5
    <3>. QED  BY <3>1, <3>2, <2>1 DEF AllocationsOwned
  <2>. QED  BY <2>4, <2>5
<1>3. ASSUME NEW t \in Thread, InstallChunk(t)  PROVE AllocationsOwned'
  <2>. DEFINE c == th[t].chunk
              q == th[t].new
  <2>1. c \in Chunk /\ q \in Ptr \cup {Null} /\ At(t, "chunk_swap") /\ chunks[c] = Null
    BY <1>3 DEF InstallChunk, Here, VecTypeOK, ThreadState
  <2>2. /\ live' = live /\ chunks'[c] = q
        /\ \A k \in Chunk \ {c} : chunks'[k] = chunks[k]
    BY <1>3, <2>1 DEF InstallChunk, Here, VecTypeOK
  <2>3. \A p \in Ptr : /\ \A u \in Thread \ {t} : Holds(u, p)' <=> Holds(u, p)
                       /\ ~Holds(t, p)' /\ (Holds(t, p) <=> p = q)
    BY <1>3, <2>1, ProceedMoves DEF InstallChunk, Holds, At
  <2>. HIDE DEF c, q
  <2>. SUFFICES ASSUME NEW p \in Ptr
                PROVE  /\ p \in live' <=> \/ \E k \in Chunk : chunks'[k] = p
                                          \/ \E u \in Thread : Holds(u, p)'
                       /\ \A k, m \in Chunk : chunks'[k] = p /\ chunks'[m] = p => k = m
                       /\ \A u, v \in Thread : Holds(u, p)' /\ Holds(v, p)' => u = v
                       /\ \A k \in Chunk, u \in Thread : ~(chunks'[k] = p /\ Holds(u, p)')
    BY DEF AllocationsOwned
  <2>4. CASE p = q
    <3>1. Holds(t, p) /\ p \in live  BY <2>3, <2>4 DEF AllocationsOwned
    <3>2. \A k \in Chunk : chunks'[k] = p <=> k = c
      BY <3>1, <2>2, <2>4 DEF AllocationsOwned
    <3>3. \A u \in Thread : ~Holds(u, p)'  BY <3>1, <2>3 DEF AllocationsOwned
    <3>. QED  BY <3>1, <3>2, <3>3, <2>1, <2>2
  <2>5. CASE p # q
    <3>1. \A k \in Chunk : chunks'[k] = p <=> chunks[k] = p  BY <2>1, <2>2, <2>5
    <3>2. \A u \in Thread : Holds(u, p)' <=> Holds(u, p)  BY <2>3, <2>5
    <3>. QED  BY <3>1, <3>2, <2>2 DEF AllocationsOwned
  <2>. QED  BY <2>4, <2>5
<1>4. ASSUME NEW t \in Thread, LoseRace(t)  PROVE AllocationsOwned'
  <2>. DEFINE q == th[t].new
  <2>1. live' = live \ {q} /\ chunks' = chunks /\ At(t, "chunk_swap")
    BY <1>4 DEF LoseRace
  <2>2. \A p \in Ptr : /\ \A u \in Thread \ {t} : Holds(u, p)' <=> Holds(u, p)
                       /\ ~Holds(t, p)' /\ (Holds(t, p) <=> p = q)
    BY <1>4, <2>1, ProceedMoves DEF LoseRace, Holds, At
  <2>. HIDE DEF q
  <2>. SUFFICES ASSUME NEW p \in Ptr
                PROVE  /\ p \in live' <=> \/ \E k \in Chunk : chunks'[k] = p
                                          \/ \E u \in Thread : Holds(u, p)'
                       /\ \A k, m \in Chunk : chunks'[k] = p /\ chunks'[m] = p => k = m
                       /\ \A u, v \in Thread : Holds(u, p)' /\ Holds(v, p)' => u = v
                       /\ \A k \in Chunk, u \in Thread : ~(chunks'[k] = p /\ Holds(u, p)')
    BY DEF AllocationsOwned
  <2>3. CASE p = q
    <3>1. Holds(t, p)  BY <2>2, <2>3
    <3>2. \A k \in Chunk : chunks[k] # p  BY <3>1 DEF AllocationsOwned
    <3>3. \A u \in Thread : ~Holds(u, p)'  BY <3>1, <2>2 DEF AllocationsOwned
    <3>. QED  BY <3>2, <3>3, <2>1, <2>3
  <2>4. CASE p # q
    <3>1. \A u \in Thread : Holds(u, p)' <=> Holds(u, p)  BY <2>2, <2>4
    <3>2. p \in live' <=> p \in live  BY <2>1, <2>4
    <3>. QED  BY <3>1, <3>2, <2>1 DEF AllocationsOwned
  <2>. QED  BY <2>3, <2>4
<1>5. CASE Drop
  <2>1. /\ \A k \in Chunk : chunks'[k] = Null
        /\ live' = live \ {chunks[k] : k \in Chunk}
        /\ \A u \in Thread, p \in Ptr : ~Holds(u, p) /\ ~Holds(u, p)'
    BY <1>5 DEF Drop, Holds, At
  <2>2. \A p \in Ptr : p \notin live'  BY <2>1 DEF AllocationsOwned
  <2>3. \A p \in Ptr : \A k \in Chunk : chunks'[k] # p  BY <2>1
  <2>4. \A p \in Ptr : \A u \in Thread : ~Holds(u, p)'  BY <2>1
  <2>. QED  BY <2>2, <2>3, <2>4 DEF AllocationsOwned
<1>6. CASE UNCHANGED vars
  BY <1>6 DEF vars, AllocationsOwned, Holds, At
<1>. QED  BY <1>1, <1>2, <1>3, <1>4, <1>5, <1>6, Actions

----------------------------------------------------------------------------
(* Readiness *)

\* A chunk that is there stays, until the vector is dropped.
LEMMA ChunksStay ==
  ASSUME VecTypeOK, [Next]_vars, NEW k \in Chunk, chunks[k] # Null, ~dropped'
  PROVE  chunks'[k] = chunks[k]
<1>1. ASSUME NEW t \in Thread, InstallChunk(t)  PROVE chunks'[k] = chunks[k]
  BY <1>1 DEF InstallChunk, VecTypeOK
<1>2. ASSUME NEW t \in Thread, Quiet(t)  PROVE chunks'[k] = chunks[k]
  BY <1>2 DEF Quiet, BeginPush, BeginReserve, BeginGet, BeginCapacity, FindChunk, MissChunk,
     AllocateNull, AllocatePanics, EndGet, ReadCapacity, EndCapacity
<1>3. ASSUME NEW t \in Thread, Allocate(t) \/ LoseRace(t)  PROVE chunks'[k] = chunks[k]
  BY <1>3 DEF Allocate, LoseRace
<1>. QED  BY <1>1, <1>2, <1>3, Actions DEF Drop, vars

LEMMA LocalsStep ==
  ASSUME VecTypeOK, LocalsSound, [Next]_vars
  PROVE  LocalsSound'
<1>. USE Sizes
<1>. DEFINE Sound(r) == /\ r.op = "push" => /\ r.chunk = ChunkOf(r.idx) /\ r.last = ChunkOf(r.idx)
                                         /\ r.pc # "cap_read"
                        /\ r.pc # "chunk_swap" => r.new = Null
                        /\ ~failed' /\ r.pc = "chunk_swap" => r.new # Null
<1>0. \A t \in Thread : th[t] \in ThreadState /\ Sound(th[t])
  BY FailedStays DEF VecTypeOK, LocalsSound, Pushing, At
<1>00. Sound(Idle)  BY DEF Idle
<1>000. (\A t \in Thread : Sound(th'[t])) => LocalsSound'
  BY DEF LocalsSound, Pushing, At
<1>. DEFINE Moved(t, r) == th'[t] = r /\ \A u \in Thread \ {t} : th'[u] = th[u]
<1>1. ASSUME NEW t \in Thread, NEW r, Become(t, r)  PROVE Moved(t, r)
  BY <1>1 DEF Become, VecTypeOK
<1>2. ASSUME NEW t \in Thread, NEW r, Moved(t, r), Sound(r)  PROVE LocalsSound'
  <2>1. \A u \in Thread : Sound(th'[u])  BY <1>2, <1>0
  <2>. QED  BY <2>1, <1>000
<1>3. ASSUME NEW t \in Thread, Proceed(t)  PROVE LocalsSound'
  <2>1. CASE th[t].chunk < th[t].last
    <3>. DEFINE r == [th[t] EXCEPT !.pc = "chunk_load", !.chunk = @ + 1, !.new = Null]
    <3>1. Become(t, r)  BY <1>3, <2>1 DEF Proceed
    <3>2. th[t].op # "push"
      <4>1. th[t].chunk \in Nat  BY <1>0 DEF ThreadState
      <4>. QED  BY <4>1, <2>1, <1>0
    <3>3. Sound(r)  BY <1>0, <3>2 DEF ThreadState
    <3>. HIDE DEF r, Sound, Moved
    <3>. QED  BY <3>1, <3>3, <1>1, <1>2
  <2>2. CASE ~(th[t].chunk < th[t].last)
    <3>1. Become(t, Idle)  BY <1>3, <2>2 DEF Proceed, Return
    <3>. HIDE DEF Sound, Moved
    <3>. QED  BY <3>1, <1>00, <1>1, <1>2
  <2>. QED  BY <2>1, <2>2
<1>4. ASSUME NEW t \in Thread, Quiet(t)  PROVE LocalsSound'
  <2>. SUFFICES ASSUME ~Proceed(t)  PROVE \E r : Become(t, r) /\ Sound(r)
    BY <1>1, <1>2, <1>3
  <2>1. CASE BeginPush(t)
    <3>. DEFINE r == [Idle EXCEPT !.pc = "chunk_load", !.op = "push", !.idx = len,
                                  !.chunk = ChunkOf(len), !.last = ChunkOf(len)]
    <3>1. Become(t, r)  BY <2>1 DEF BeginPush
    <3>2. Sound(r)  BY DEF Idle
    <3>. HIDE DEF r, Sound
    <3>. QED  BY <3>1, <3>2
  <2>2. ASSUME NEW n \in Amounts, BeginReserve(t, n)  PROVE \E r : Become(t, r) /\ Sound(r)
    <3>. DEFINE r == [Idle EXCEPT !.pc = "chunk_load", !.op = "reserve",
                                  !.last = ChunkOf((len + n) - 1), !.target = len + n]
    <3>1. Become(t, r)  BY <2>2 DEF BeginReserve
    <3>2. Sound(r)  BY DEF Idle
    <3>. HIDE DEF r, Sound
    <3>. QED  BY <3>1, <3>2
  <2>3. ASSUME NEW i \in Index, BeginGet(t, i)  PROVE \E r : Become(t, r) /\ Sound(r)
    <3>. DEFINE r == [Idle EXCEPT !.pc = "wait", !.op = "get", !.idx = i, !.chunk = ChunkOf(i)]
    <3>1. Become(t, r)  BY <2>3 DEF BeginGet
    <3>2. Sound(r)  BY DEF Idle
    <3>. HIDE DEF r, Sound
    <3>. QED  BY <3>1, <3>2
  <2>4. CASE BeginCapacity(t)
    <3>. DEFINE r == [Idle EXCEPT !.pc = "cap_read", !.op = "capacity", !.target = promised]
    <3>1. Become(t, r)  BY <2>4 DEF BeginCapacity
    <3>2. Sound(r)  BY DEF Idle
    <3>. HIDE DEF r, Sound
    <3>. QED  BY <3>1, <3>2
  <2>5. CASE MissChunk(t)
    BY <2>5, <1>0 DEF MissChunk, ThreadState, At
  <2>6. CASE AllocateNull(t)
    BY <2>6, <1>0 DEF AllocateNull, ThreadState, At
  <2>7. CASE AllocatePanics(t) \/ EndGet(t) \/ EndCapacity(t)
    BY <2>7, <1>00 DEF AllocatePanics, EndGet, EndCapacity, Return
  <2>8. CASE ReadCapacity(t)
    <3>1. At(t, "cap_read") /\ th[t].op # "push" /\ th[t].new = Null
      BY <1>0, <2>8 DEF ReadCapacity, At
    <3>2. CASE chunks[Here(t)] = Null
      <4>. DEFINE r == [th[t] EXCEPT !.pc = "cap_return"]
      <4>1. Become(t, r)  BY <2>8, <3>2 DEF ReadCapacity
      <4>2. Sound(r)  BY <1>0, <3>1 DEF ThreadState
      <4>. HIDE DEF r, Sound
      <4>. QED  BY <4>1, <4>2
    <3>3. CASE chunks[Here(t)] # Null
      <4>. DEFINE k == IF Here(t) + 1 \in Chunk THEN th[t].chunk + 1 ELSE 0
                  pc == IF Here(t) + 1 \in Chunk THEN "cap_read" ELSE "cap_return"
                  r == [th[t] EXCEPT !.total = @ + ChunkSize(Here(t)),
                                     !.chunk = k, !.pc = pc]
      <4>1. pc # "chunk_swap"  OBVIOUS
      <4>2. Become(t, r)  BY <2>8, <3>3 DEF ReadCapacity
      <4>. HIDE DEF k, pc
      <4>3. Sound(r)  BY <1>0, <3>1, <4>1 DEF ThreadState
      <4>. HIDE DEF r, Sound
      <4>. QED  BY <4>2, <4>3
    <3>. QED  BY <3>2, <3>3
  <2>. HIDE DEF Sound, Moved
  <2>. QED  BY <1>4, <2>1, <2>2, <2>3, <2>4, <2>5, <2>6, <2>7, <2>8 DEF Quiet, FindChunk
<1>5. ASSUME NEW t \in Thread, Allocate(t)  PROVE LocalsSound'
  <2>1. PICK p \in Ptr \ live :
          Become(t, [th[t] EXCEPT !.pc = "chunk_swap", !.new = p])
    BY <1>5 DEF Allocate
  <2>2. Sound([th[t] EXCEPT !.pc = "chunk_swap", !.new = p])  BY <1>0 DEF ThreadState
  <2>. QED  BY <2>1, <2>2, <1>1, <1>2
<1>6. ASSUME NEW t \in Thread, InstallChunk(t) \/ LoseRace(t)  PROVE LocalsSound'
  BY <1>3, <1>6 DEF InstallChunk, LoseRace
<1>7. CASE Drop \/ UNCHANGED vars
  BY <1>7 DEF Drop, vars, history, LocalsSound, Pushing, At
<1>. QED  BY <1>4, <1>5, <1>6, <1>7, Actions

\* What a push returns, and what it takes.
LEMMA PushMoves ==
  ASSUME VecTypeOK, LocalsSound, [Next]_vars
  PROVE  \/ pushed' = pushed
         \/ \E t \in Thread : /\ FindChunk(t) \/ InstallChunk(t) \/ LoseRace(t)
                              /\ Pushing(t) /\ pushed' = pushed \cup {th[t].idx}
<1>1. ASSUME NEW t \in Thread, FindChunk(t) \/ InstallChunk(t) \/ LoseRace(t)
      PROVE  \/ pushed' = pushed
             \/ Pushing(t) /\ pushed' = pushed \cup {th[t].idx}
  <2>1. Proceed(t)  BY <1>1 DEF FindChunk, InstallChunk, LoseRace
  <2>2. \/ pushed' = pushed
        \/ pushed' = IF Pushing(t) THEN pushed \cup {th[t].idx} ELSE pushed
    BY <2>1, ProceedMoves
  <2>. QED  BY <2>2 DEF Pushing
<1>2. ASSUME NEW t \in Thread, Quiet(t), ~FindChunk(t)  PROVE pushed' = pushed
  BY <1>2 DEF Quiet, BeginPush, BeginReserve, BeginGet, BeginCapacity, MissChunk,
     AllocateNull, AllocatePanics, EndGet, ReadCapacity, EndCapacity, history
<1>3. ASSUME NEW t \in Thread, Allocate(t)  PROVE pushed' = pushed
  BY <1>3 DEF Allocate, history
<1>. QED  BY <1>1, <1>2, <1>3, Actions DEF Drop, vars, history

LEMMA ReadyStep ==
  ASSUME VecTypeOK, LocalsSound, PushedReady, [Next]_vars
  PROVE  PushedReady'
<1>. USE Sizes
<1>. SUFFICES ASSUME ~failed', ~dropped', NEW i \in pushed'
              PROVE  chunks'[ChunkOf(i)] # Null
  BY DEF PushedReady
<1>1. ~dropped
  <2>1. ASSUME NEW t \in Thread, Quiet(t)  PROVE dropped' = dropped
    BY <2>1, QuietMoves
  <2>2. ASSUME NEW t \in Thread, Allocate(t) \/ InstallChunk(t) \/ LoseRace(t)
        PROVE  dropped' = dropped
    BY <2>2 DEF Allocate, InstallChunk, LoseRace
  <2>. QED  BY <2>1, <2>2, Actions DEF Drop, vars
<1>2. CASE i \in pushed
  <2>1. ChunkOf(i) \in Chunk /\ chunks[ChunkOf(i)] # Null
    BY <1>1, <1>2, FailedStays DEF PushedReady, VecTypeOK
  <2>. QED  BY <2>1, ChunksStay
<1>3. CASE i \notin pushed
  <2>1. PICK t \in Thread : /\ FindChunk(t) \/ InstallChunk(t) \/ LoseRace(t)
                            /\ Pushing(t) /\ i = th[t].idx
    BY <1>3, PushMoves
  <2>2. Here(t) = ChunkOf(i) /\ ChunkOf(i) \in Chunk
    BY <2>1 DEF LocalsSound, Here, VecTypeOK, ThreadState
  <2>3. CASE FindChunk(t) \/ LoseRace(t)
    BY <2>2, <2>3 DEF FindChunk, LoseRace
  <2>4. CASE InstallChunk(t)
    <3>1. th[t].new # Null  BY <2>4, FailedStays DEF InstallChunk, LocalsSound
    <3>. QED  BY <2>2, <2>4, <3>1 DEF InstallChunk, VecTypeOK
  <2>. QED  BY <2>1, <2>3, <2>4
<1>. QED  BY <1>2, <1>3

----------------------------------------------------------------------------
(* The invariant *)

LEMMA HandedStep ==
  ASSUME VecTypeOK, HandedInOrder, [Next]_vars
  PROVE  HandedInOrder'
<1>. USE Sizes
<1>. SUFFICES ASSUME MaxLen < LenMod, handed = 0 .. len - 1  PROVE handed' = 0 .. len' - 1
  BY DEF HandedInOrder
<1>1. ASSUME NEW t \in Thread, BeginPush(t)  PROVE handed' = 0 .. len' - 1
  <2>1. len \in Nat /\ len + 1 < LenMod
    BY <1>1 DEF BeginPush, VecTypeOK
  <2>2. len' = len + 1  BY <1>1, <2>1 DEF BeginPush
  <2>3. handed' = handed \cup {len}  BY <1>1 DEF BeginPush
  <2>. QED  BY <2>1, <2>2, <2>3
<1>2. ASSUME NEW t \in Thread, Quiet(t), ~BeginPush(t)  PROVE handed' = handed /\ len' = len
  BY <1>2 DEF Quiet, BeginReserve, BeginGet, BeginCapacity, FindChunk, Proceed, MissChunk,
     AllocateNull, AllocatePanics, EndGet, ReadCapacity, EndCapacity, history
<1>3. ASSUME NEW t \in Thread, Allocate(t) \/ InstallChunk(t) \/ LoseRace(t)
      PROVE  handed' = handed /\ len' = len
  BY <1>3 DEF Allocate, InstallChunk, LoseRace, Proceed, history
<1>. QED  BY <1>1, <1>2, <1>3, Actions DEF Drop, vars, history

\* Once the vector is dropped no action of a thread is enabled.
LEMMA DroppedStep ==
  ASSUME DroppedIdle, [Next]_vars
  PROVE  DroppedIdle'
<1>1. CASE dropped
  <2>1. ASSUME NEW t \in Thread  PROVE ~Quiet(t)
    BY <1>1 DEF DroppedIdle, At, Quiet, BeginPush, BeginReserve, BeginGet, BeginCapacity,
       FindChunk, MissChunk, AllocateNull, AllocatePanics, EndGet, ReadCapacity, EndCapacity
  <2>2. ASSUME NEW t \in Thread  PROVE ~(Allocate(t) \/ InstallChunk(t) \/ LoseRace(t))
    BY <1>1 DEF DroppedIdle, At, Allocate, InstallChunk, LoseRace
  <2>. QED  BY <1>1, <2>1, <2>2, Actions DEF Drop, vars, DroppedIdle, At
<1>2. CASE ~dropped
  <2>1. ASSUME NEW t \in Thread, Quiet(t)  PROVE dropped' = dropped
    BY <2>1 DEF Quiet, BeginPush, BeginReserve, BeginGet, BeginCapacity, FindChunk,
       MissChunk, AllocateNull, AllocatePanics, EndGet, ReadCapacity, EndCapacity
  <2>2. ASSUME NEW t \in Thread, Allocate(t) \/ InstallChunk(t) \/ LoseRace(t)
        PROVE  dropped' = dropped
    BY <2>2 DEF Allocate, InstallChunk, LoseRace
  <2>. QED  BY <1>2, <2>1, <2>2, Actions DEF Drop, vars, DroppedIdle, At
<1>. QED  BY <1>1, <1>2

LEMMA InitInv == Init => IInv
<1>. SUFFICES ASSUME Init  PROVE IInv
  OBVIOUS
<1>1. VecTypeOK
  <2>1. len \in Index /\ promised \in 0 .. LenMod  BY Sizes DEF Init
  <2>2. th \in [Thread -> ThreadState]  BY IdleType DEF Init
  <2>3. chunks \in [Chunk -> Ptr \cup {Null}]  BY DEF Init
  <2>. QED  BY <2>1, <2>2, <2>3 DEF Init, VecTypeOK
<1>2. AllocationsOwned  BY Sizes DEF Init, AllocationsOwned, Holds, At, Idle
<1>3. LocalsSound  BY DEF Init, LocalsSound, Pushing, At, Idle
<1>4. PushedReady /\ HandedInOrder /\ DroppedIdle
  BY DEF Init, PushedReady, HandedInOrder, DroppedIdle
<1>. QED  BY <1>1, <1>2, <1>3, <1>4 DEF IInv

LEMMA StepInv == IInv /\ [Next]_vars => IInv'
BY TypeStep, OwnedStep, LocalsStep, ReadyStep, HandedStep, DroppedStep DEF IInv

\* The words, locals and indices of the vector have their types, whatever fails
\* and however often len wraps; no call leaves the array of chunk pointers.
THEOREM Types == Spec => []VecTypeOK
<1>1. IInv => VecTypeOK  BY DEF IInv
<1>. QED  BY <1>1, InitInv, StepInv, PTL DEF Spec

\* Every allocation has exactly one owner, a chunk pointer or a thread that
\* races for one, until it is freed: no leak, no double free (vec.rs:296-312).
THEOREM Allocations == Spec => []AllocationsOwned
<1>1. IInv => AllocationsOwned  BY DEF IInv
<1>. QED  BY <1>1, InitInv, StepInv, PTL DEF Spec

\* As long as no allocation fails, the chunk of a returned index is there
\* (vec.rs:97-99): only indices of pushes in progress are waited for.
THEOREM Ready == Spec => []PushedReady
<1>1. IInv => PushedReady  BY DEF IInv
<1>. QED  BY <1>1, InitInv, StepInv, PTL DEF Spec

----------------------------------------------------------------------------
(* AtomicVec implements CellArray *)

\* What the refinement needs of the chunks c: distinct chunks are at distinct
\* addresses.
Apart(c) ==
  /\ c \in [Chunk -> Ptr \cup {Null}]
  /\ \A k, m \in Chunk : c[k] # Null /\ c[k] = c[m] => k = m

PlaceIn(c, i) == IF c[ChunkOf(i)] = Null THEN Null ELSE <<c[ChunkOf(i)], OffsetOf(i)>>

LEMMA Placed ==
  ASSUME NEW c, Apart(c)
  PROVE  /\ [i \in Index |-> PlaceIn(c, i)] \in [Index -> Cell \cup {Null}]
         /\ \A i, j \in Index : i # j /\ PlaceIn(c, i) # Null => PlaceIn(c, i) # PlaceIn(c, j)
<1>1. ASSUME NEW i \in Index  PROVE PlaceIn(c, i) \in Cell \cup {Null}
  <2>1. ChunkOf(i) \in Chunk /\ OffsetOf(i) \in Index  BY Sizes
  <2>2. c[ChunkOf(i)] \in Ptr \cup {Null}  BY <2>1 DEF Apart
  <2>. QED  BY <2>1, <2>2 DEF PlaceIn, Cell
<1>2. ASSUME NEW i \in Index, NEW j \in Index, i # j, PlaceIn(c, i) # Null,
             PlaceIn(c, i) = PlaceIn(c, j)
      PROVE  FALSE
  <2>1. ChunkOf(i) \in Chunk /\ ChunkOf(j) \in Chunk  BY Sizes
  <2>2. c[ChunkOf(i)] # Null /\ PlaceIn(c, i) = <<c[ChunkOf(i)], OffsetOf(i)>>
    BY <1>2 DEF PlaceIn
  <2>3. c[ChunkOf(j)] # Null /\ PlaceIn(c, j) = <<c[ChunkOf(j)], OffsetOf(j)>>
    BY <1>2 DEF PlaceIn
  <2>4. c[ChunkOf(i)] = c[ChunkOf(j)] /\ OffsetOf(i) = OffsetOf(j)
    <3>1. <<c[ChunkOf(i)], OffsetOf(i)>> = <<c[ChunkOf(j)], OffsetOf(j)>>
      BY <1>2, <2>2, <2>3
    <3>. QED  BY <3>1, Zenon
  <2>5. ChunkOf(i) = ChunkOf(j)  BY <2>1, <2>2, <2>4 DEF Apart
  <2>6. Start(ChunkOf(i)) \in Nat /\ i \in Nat /\ j \in Nat
    BY <2>1, Sizes, AtomicVecAssumption
  <2>. QED  BY <1>2, <2>4, <2>5, <2>6 DEF OffsetOf
<1>. QED  BY <1>1, <1>2

LEMMA ApartInv == VecTypeOK /\ AllocationsOwned => Apart(chunks)
BY DEF VecTypeOK, AllocationsOwned, Apart

LEMMA ArrayStep ==
  ASSUME MaxLen < LenMod, IInv, IInv', [Next]_vars
  PROVE  [Array!Next]_(Array!vars)
<1>. USE Sizes
<1>. DEFINE place == [i \in Index |-> Place(i)]
<1>1. place = [i \in Index |-> PlaceIn(chunks, i)]
      /\ place' = [i \in Index |-> PlaceIn(chunks', i)]
  BY DEF Place, PlaceIn
<1>2. chunks' = chunks => place' = place  BY <1>1
<1>3. ASSUME NEW t \in Thread, BeginPush(t)  PROVE Array!HandOut
  <2>1. len \in Index \ handed  BY <1>3 DEF IInv, VecTypeOK, HandedInOrder, Index
  <2>2. /\ ~dropped /\ handed' = handed \cup {len} /\ chunks' = chunks /\ dropped' = dropped
    BY <1>3 DEF BeginPush
  <2>. QED  BY <2>1, <2>2, <1>2 DEF Array!HandOut
<1>4. ASSUME NEW t \in Thread, Quiet(t), ~BeginPush(t)  PROVE UNCHANGED Array!vars
  <2>1. handed' = handed /\ chunks' = chunks /\ dropped' = dropped
    BY <1>4 DEF Quiet, BeginReserve, BeginGet, BeginCapacity, FindChunk, Proceed, MissChunk,
       AllocateNull, AllocatePanics, EndGet, ReadCapacity, EndCapacity, history
  <2>. QED  BY <2>1, <1>2 DEF Array!vars
<1>5. ASSUME NEW t \in Thread, Allocate(t) \/ LoseRace(t)  PROVE UNCHANGED Array!vars
  <2>1. handed' = handed /\ chunks' = chunks /\ dropped' = dropped
    BY <1>5 DEF Allocate, LoseRace, Proceed, history
  <2>. QED  BY <2>1, <1>2 DEF Array!vars
<1>6. ASSUME NEW t \in Thread, InstallChunk(t)  PROVE Array!Settle
  <2>1. handed' = handed /\ dropped' = dropped
    BY <1>6 DEF InstallChunk, Proceed, history
  <2>2. ~dropped  BY <1>6 DEF IInv, DroppedIdle, InstallChunk, At
  <2>3. Apart(chunks') /\ Apart(chunks)  BY ApartInv DEF IInv, VecTypeOK, AllocationsOwned, Apart
  <2>4. place' \in [Index -> Cell \cup {Null}] /\ Array!Distinct(place')
    BY <1>1, <2>3, Placed DEF Array!Distinct
  <2>5. ASSUME NEW i \in Index, place[i] # Null  PROVE place'[i] = place[i]
    <3>1. ChunkOf(i) \in Chunk /\ chunks[ChunkOf(i)] # Null  BY <1>1, <2>5 DEF PlaceIn
    <3>2. chunks'[ChunkOf(i)] = chunks[ChunkOf(i)]
      BY <3>1, <2>1, <2>2, ChunksStay DEF IInv
    <3>. QED  BY <1>1, <3>2 DEF PlaceIn
  <2>. QED  BY <2>1, <2>2, <2>4, <2>5 DEF Array!Settle
<1>7. CASE Drop
  <2>1. /\ ~dropped /\ dropped' = TRUE /\ handed' = handed
        /\ \A k \in Chunk : chunks'[k] = Null
    BY <1>7 DEF Drop, history
  <2>2. place' = [i \in Index |-> Null]  BY <1>1, <2>1 DEF PlaceIn
  <2>. QED  BY <2>1, <2>2 DEF Array!Vanish, Array!Next
<1>8. CASE UNCHANGED vars
  BY <1>2, <1>8 DEF vars, Array!vars
<1>. QED  BY <1>3, <1>4, <1>5, <1>6, <1>7, <1>8, Actions DEF Array!Next

LEMMA ArrayInit == Init => Array!Init
<1>. SUFFICES ASSUME Init  PROVE Array!Init
  OBVIOUS
<1>1. \A i \in Index : Place(i) = Null  BY Sizes DEF Init, Place
<1>. QED  BY <1>1 DEF Init, Array!Init

\* Short of 2^32 pushes the vector is an array that grows in place: every push
\* gets a new index, and what an index leads to neither moves nor is shared,
\* however the races for chunks end and whatever allocations fail.
THEOREM Implements == ASSUME MaxLen < LenMod PROVE Spec => ImplementsCellArray
<1>1. IInv /\ [Next]_vars => [Array!Next]_(Array!vars)  BY StepInv, ArrayStep
<1>. QED  BY <1>1, ArrayInit, InitInv, StepInv, PTL DEF Spec, ImplementsCellArray, Array!Spec

----------------------------------------------------------------------------
(* The capacity: what a finished reserve has promised is counted, although  *)
(* capacity reads the chunks one by one while others race for them.         *)

\* What CapacityCounted says of a thread whose state is r, of the chunks c.
CoveredIn(c, n) == n > 0 => \A k \in Chunk : k <= ChunkOf(n - 1) => c[k] # Null

Counted(c, r) ==
  /\ r.pc \in {"chunk_load", "alloc", "chunk_swap"} /\ r.target > 0 =>
       /\ r.last = ChunkOf(r.target - 1)
       /\ \A k \in Chunk : k < r.chunk => c[k] # Null
  /\ r.pc = "cap_read" =>
       /\ CoveredIn(c, r.target) /\ r.total = Start(r.chunk)
       /\ \A k \in Chunk : k < r.chunk => Start(k) + ChunkSize(k) <= r.total
  /\ r.pc = "cap_return" => r.total >= r.target

LEMMA CountedThreads ==
  CapacityCounted <=>
    (~failed => /\ ~dropped => CoveredIn(chunks, promised)
                /\ \A t \in Thread : Counted(chunks, th[t]))
BY DEF CapacityCounted, Covered, CoveredIn, Counted, At

LEMMA CountedIdle == \A c : Counted(c, Idle)
BY DEF Counted, Idle

\* More chunks take nothing from what a thread has seen.
LEMMA CountedGrows ==
  ASSUME NEW c, NEW d, \A k \in Chunk : c[k] # Null => d[k] # Null
  PROVE  /\ \A r : Counted(c, r) => Counted(d, r)
         /\ \A n : CoveredIn(c, n) => CoveredIn(d, n)
BY DEF Counted, CoveredIn

\* The chunk is there: a reserve that ends has seen all it promises.
LEMMA CountedProceed ==
  ASSUME VecTypeOK, NEW t \in Thread, Proceed(t), NEW c, Counted(c, th[t]),
         th[t].pc \in {"chunk_load", "chunk_swap"}, c[Here(t)] # Null, CoveredIn(c, promised)
  PROVE  Counted(c, th'[t]) /\ CoveredIn(c, promised')
<1>. USE Sizes
<1>0. th[t] \in ThreadState  BY DEF VecTypeOK
<1>0a. /\ th[t].chunk \in Nat /\ th[t].last \in Nat /\ th[t].target \in Nat
       /\ th[t].chunk \in Chunk /\ \A k \in Chunk : k \in Nat
  BY <1>0, AtomicVecAssumption DEF ThreadState, Chunk
<1>1. CASE th[t].chunk < th[t].last
  <2>. DEFINE r == [th[t] EXCEPT !.pc = "chunk_load", !.chunk = @ + 1, !.new = Null]
  <2>1. Become(t, r) /\ promised' = promised  BY <1>1 DEF Proceed, history
  <2>2. /\ r.pc = "chunk_load" /\ r.target = th[t].target /\ r.last = th[t].last
        /\ r.chunk = th[t].chunk + 1
    BY <1>0 DEF ThreadState
  <2>. HIDE DEF r
  <2>3. th'[t] = r  BY <2>1 DEF Become, VecTypeOK
  <2>4. ASSUME r.target > 0
        PROVE  r.last = ChunkOf(r.target - 1) /\ \A k \in Chunk : k < r.chunk => c[k] # Null
    <3>1. /\ th[t].last = ChunkOf(th[t].target - 1)
          /\ \A k \in Chunk : k < th[t].chunk => c[k] # Null
      BY <2>2, <2>4 DEF Counted
    <3>2. \A k \in Chunk : k < r.chunk => k < th[t].chunk \/ k = th[t].chunk
      BY <1>0a, <2>2
    <3>. QED  BY <2>2, <3>1, <3>2 DEF Here
  <2>. QED  BY <2>1, <2>2, <2>3, <2>4 DEF Counted
<1>2. CASE ~(th[t].chunk < th[t].last)
  <2>1. /\ Become(t, Idle)
        /\ promised' = promised \/ promised' = th[t].target
    BY <1>2, Zenon DEF Proceed, Return
  <2>2. th'[t] = Idle  BY <2>1 DEF Become, VecTypeOK
  <2>3. CoveredIn(c, th[t].target)
    <3>. SUFFICES ASSUME th[t].target > 0, NEW k \in Chunk, k <= ChunkOf(th[t].target - 1)
                  PROVE  c[k] # Null
      BY DEF CoveredIn
    <3>1. /\ th[t].last = ChunkOf(th[t].target - 1)
          /\ \A m \in Chunk : m < th[t].chunk => c[m] # Null
      BY DEF Counted
    <3>2. k <= th[t].last  BY <3>1
    <3>3. /\ k \in Nat /\ th[t].last \in Nat /\ th[t].chunk \in Nat
          /\ ~(th[t].chunk < th[t].last)
      BY <1>0a, <1>2
    <3>4. k < th[t].chunk \/ k = th[t].chunk  BY <3>2, <3>3
    <3>. QED  BY <3>1, <3>4 DEF Here
  <2>. QED  BY <2>1, <2>2, <2>3, CountedIdle
<1>. QED  BY <1>1, <1>2

\* A capacity looks at the next chunk.
LEMMA CountedRead ==
  ASSUME Contiguous, VecTypeOK, NEW t \in Thread, ReadCapacity(t), Counted(chunks, th[t])
  PROVE  Counted(chunks, th'[t])
<1>. USE Sizes
<1>. DEFINE h == th[t].chunk
            s == Start(h) + ChunkSize(h)
<1>0. th[t] \in ThreadState  BY DEF VecTypeOK
<1>1. /\ h \in Chunk /\ h \in Nat /\ th[t].target \in 0 .. LenMod /\ th[t].total \in Nat
      /\ \A k \in Chunk : k \in Nat
  BY <1>0, AtomicVecAssumption DEF ThreadState, Chunk
<1>2. \A k \in Chunk : Start(k) \in Nat /\ ChunkSize(k) \in Nat  BY AtomicVecAssumption
<1>3. /\ CoveredIn(chunks, th[t].target) /\ th[t].total = Start(h)
      /\ \A k \in Chunk : k < h => Start(k) + ChunkSize(k) <= th[t].total
  BY DEF ReadCapacity, At, Counted
<1>4. \A i \in Index : i < Start(ChunkOf(i)) + ChunkSize(ChunkOf(i))  BY DEF Contiguous
\* A number that is past every chunk a target needs is past the target.
<1>5. ASSUME NEW n \in Nat, th[t].target > 0 =>
                              Start(ChunkOf(th[t].target - 1)) +
                                ChunkSize(ChunkOf(th[t].target - 1)) <= n
      PROVE  n >= th[t].target
  <2>. DEFINE i == th[t].target - 1
  <2>1. CASE th[t].target > 0
    <3>1. i \in Index  BY <1>1, <2>1 DEF Index
    <3>. DEFINE e == Start(ChunkOf(i)) + ChunkSize(ChunkOf(i))
    <3>2. i < e /\ e <= n  BY <1>4, <1>5, <2>1, <3>1
    <3>3. e \in Nat
      <4>1. ChunkOf(i) \in Chunk  BY <3>1
      <4>2. Start(ChunkOf(i)) \in Nat /\ ChunkSize(ChunkOf(i)) \in Nat  BY <1>2, <4>1
      <4>. QED  BY <4>2
    <3>. HIDE DEF e
    <3>. QED  BY <1>1, <3>2, <3>3
  <2>2. CASE ~(th[t].target > 0)
    BY <1>1, <2>2
  <2>. QED  BY <2>1, <2>2
<1>6. CASE chunks[h] = Null
  <2>1. th'[t] = [th[t] EXCEPT !.pc = "cap_return"]
    BY <1>6 DEF ReadCapacity, Here, Become, VecTypeOK
  <2>2. /\ th'[t].pc = "cap_return" /\ th'[t].total = th[t].total
        /\ th'[t].target = th[t].target
    BY <1>0, <2>1 DEF ThreadState
  <2>3. ASSUME th[t].target > 0
        PROVE  Start(ChunkOf(th[t].target - 1)) + ChunkSize(ChunkOf(th[t].target - 1))
                 <= th[t].total
    <3>. DEFINE m == ChunkOf(th[t].target - 1)
    <3>1. th[t].target - 1 \in Index  BY <1>1, <2>3 DEF Index
    <3>2. m \in Chunk /\ m \in Nat  BY <1>1, <3>1
    <3>3. ~(h <= m) /\ h \in Nat  BY <1>1, <1>3, <1>6, <2>3 DEF CoveredIn
    <3>. HIDE DEF m, h
    <3>4. m < h  BY <3>2, <3>3
    <3>5. Start(m) + ChunkSize(m) <= th[t].total  BY <1>3, <3>2, <3>4
    <3>. QED  BY <3>5 DEF m
  <2>4. th[t].total >= th[t].target  BY <1>1, <1>5, <2>3
  <2>. QED  BY <2>2, <2>4 DEF Counted
<1>7. CASE chunks[h] # Null
  <2>. DEFINE more == h + 1 \in Chunk
              next == IF more THEN h + 1 ELSE 0
              pc == IF more THEN "cap_read" ELSE "cap_return"
              r == [th[t] EXCEPT !.total = @ + ChunkSize(h), !.chunk = next, !.pc = pc]
  <2>1. th'[t] = r  BY <1>7 DEF ReadCapacity, Here, Become, VecTypeOK
  <2>2. /\ th'[t].pc = pc /\ th'[t].chunk = next /\ th'[t].target = th[t].target
        /\ th'[t].total = th[t].total + ChunkSize(h)
    <3>. HIDE DEF next, pc
    <3>. QED  BY <1>0, <2>1 DEF ThreadState
  <2>. HIDE DEF r
  <2>3. th'[t].total = s /\ s \in Nat  BY <1>1, <1>2, <1>3, <2>2
  <2>4. \A k \in Chunk : k <= h => Start(k) + ChunkSize(k) <= s
    <3>. SUFFICES ASSUME NEW k \in Chunk, k <= h  PROVE Start(k) + ChunkSize(k) <= s
      OBVIOUS
    <3>1. CASE k = h
      BY <3>1, <1>1, <1>2
    <3>2. CASE k # h
      <4>1. k < h
        <5>1. k \in Nat /\ h \in Nat /\ k <= h  BY <1>1
        <5>. HIDE DEF h
        <5>. QED  BY <3>2, <5>1
      <4>2. Start(k) + ChunkSize(k) <= Start(h)  BY <1>3, <4>1
      <4>3. /\ Start(k) \in Nat /\ ChunkSize(k) \in Nat
            /\ Start(h) \in Nat /\ ChunkSize(h) \in Nat
        BY <1>1, <1>2
      <4>. QED  BY <4>2, <4>3
    <3>. QED  BY <3>1, <3>2
  <2>5. CASE more
    <3>1. Start(h + 1) = s  BY <1>1, <2>5 DEF Contiguous
    <3>2. \A k \in Chunk : k < h + 1 => k <= h  BY <1>1
    <3>3. th'[t].pc = "cap_read" /\ th'[t].chunk = h + 1  BY <2>2, <2>5
    <3>. HIDE DEF h, s
    <3>. QED  BY <1>3, <2>2, <2>3, <2>4, <3>1, <3>2, <3>3 DEF Counted
  <2>6. CASE ~more
    <3>1. \A k \in Chunk : k <= h
      <4>1. NumChunks \in Nat /\ h <= NumChunks - 1 /\ ~(h + 1 <= NumChunks - 1)
        BY <1>1, <2>6, AtomicVecAssumption DEF Chunk
      <4>. QED  BY <1>1, <4>1 DEF Chunk
    <3>2. th[t].target > 0 => ChunkOf(th[t].target - 1) \in Chunk
      <4>1. th[t].target > 0 => th[t].target - 1 \in Index  BY <1>1 DEF Index
      <4>. QED  BY <4>1
    <3>3. s >= th[t].target  BY <1>5, <2>3, <2>4, <3>1, <3>2
    <3>4. th'[t].pc = "cap_return"  BY <2>2, <2>6
    <3>. HIDE DEF h, s
    <3>. QED  BY <2>2, <2>3, <3>3, <3>4 DEF Counted
  <2>. QED  BY <2>5, <2>6
<1>. QED  BY <1>6, <1>7

LEMMA CountedStep ==
  ASSUME Contiguous, IInv, CapacityCounted, [Next]_vars
  PROVE  CapacityCounted'
<1>. USE Sizes
<1>. SUFFICES ASSUME ~failed'
              PROVE  /\ ~dropped' => CoveredIn(chunks', promised')
                     /\ \A u \in Thread : Counted(chunks', th'[u])
  <2>. CapacityCounted' <=>
         (~failed' => /\ ~dropped' => CoveredIn(chunks', promised')
                      /\ \A t \in Thread : Counted(chunks', th'[t]))
    BY DEF CapacityCounted, Covered, CoveredIn, Counted, At
  <2>. QED  OBVIOUS
<1>0. VecTypeOK /\ LocalsSound /\ DroppedIdle  BY DEF IInv
<1>1. /\ ~failed
      /\ ~dropped => CoveredIn(chunks, promised)
      /\ \A u \in Thread : Counted(chunks, th[u]) /\ th[u] \in ThreadState
  BY <1>0, FailedStays, CountedThreads DEF VecTypeOK
<1>2. CASE Drop
  BY <1>2, CountedIdle DEF Drop, At, Counted
<1>3. CASE UNCHANGED vars
  BY <1>1, <1>3 DEF vars, history
<1>4. ASSUME NEW t \in Thread, chunks' = chunks, promised' = promised, dropped' = dropped,
             \A u \in Thread \ {t} : th'[u] = th[u], Counted(chunks, th'[t])
      PROVE  /\ ~dropped' => CoveredIn(chunks', promised')
             /\ \A u \in Thread : Counted(chunks', th'[u])
  BY <1>1, <1>4
<1>5. ASSUME NEW t \in Thread, Proceed(t), dropped' = dropped, ~At(t, "idle"),
             \A k \in Chunk : chunks[k] # Null => chunks'[k] # Null,
             th[t].pc \in {"chunk_load", "chunk_swap"}, chunks'[Here(t)] # Null
      PROVE  /\ ~dropped' => CoveredIn(chunks', promised')
             /\ \A u \in Thread : Counted(chunks', th'[u])
  <2>1. /\ \A u \in Thread : Counted(chunks', th[u])
        /\ CoveredIn(chunks, promised) => CoveredIn(chunks', promised)
    BY <1>1, <1>5, CountedGrows
  <2>2. ~dropped  BY <1>0, <1>5 DEF DroppedIdle
  <2>3. CoveredIn(chunks', promised)  BY <1>1, <2>1, <2>2
  <2>4. Counted(chunks', th'[t]) /\ CoveredIn(chunks', promised')
    BY <1>0, <1>5, <2>1, <2>3, CountedProceed
  <2>5. \A u \in Thread \ {t} : th'[u] = th[u]  BY <1>0, <1>5, ProceedMoves
  <2>. QED  BY <2>1, <2>4, <2>5
<1>. DEFINE Mine == /\ ~dropped' => CoveredIn(chunks', promised')
                    /\ \A u \in Thread : Counted(chunks', th'[u])
<1>. HIDE DEF Mine
<1>6. ASSUME NEW t \in Thread, FindChunk(t) \/ InstallChunk(t) \/ LoseRace(t)
      PROVE  Mine
  <2>1. Proceed(t) /\ dropped' = dropped /\ th[t].pc \in {"chunk_load", "chunk_swap"}
    BY <1>6 DEF FindChunk, InstallChunk, LoseRace, At
  <2>2. ~At(t, "idle")  BY <2>1 DEF At
  <2>3. chunks'[Here(t)] # Null
    <3>1. Here(t) \in Chunk  BY <1>1 DEF Here, ThreadState
    <3>2. CASE InstallChunk(t)
      BY <3>1, <3>2, <1>0, <1>1 DEF InstallChunk, LocalsSound, VecTypeOK
    <3>3. CASE FindChunk(t) \/ LoseRace(t)
      BY <3>3 DEF FindChunk, LoseRace
    <3>. QED  BY <1>6, <3>2, <3>3
  <2>4. ~dropped' /\ [Next]_vars  BY <1>0, <2>1, <2>2 DEF DroppedIdle
  <2>5. \A k \in Chunk : chunks[k] # Null => chunks'[k] # Null
    BY <1>0, <2>4, ChunksStay
  <2>. QED  BY <1>5, <2>1, <2>2, <2>3, <2>5 DEF Mine
<1>7. ASSUME NEW t \in Thread, Allocate(t)  PROVE Mine
  <2>1. /\ chunks' = chunks /\ promised' = promised /\ dropped' = dropped
        /\ \A u \in Thread \ {t} : th'[u] = th[u]
    BY <1>0, <1>7, AllocateMoves DEF Allocate, history
  <2>2. PICK p \in Ptr \ live :
          th'[t] = [th[t] EXCEPT !.pc = "chunk_swap", !.new = p] /\ At(t, "alloc")
    BY <1>0, <1>7, AllocateMoves
  <2>3. /\ th'[t].pc = "chunk_swap" /\ th'[t].target = th[t].target
        /\ th'[t].last = th[t].last /\ th'[t].chunk = th[t].chunk
    BY <1>1, <2>2 DEF ThreadState
  <2>4. Counted(chunks, th'[t])  BY <1>1, <2>2, <2>3 DEF Counted, At
  <2>. QED  BY <1>4, <2>1, <2>4 DEF Mine
<1>8. ASSUME NEW t \in Thread, Quiet(t), ~FindChunk(t)  PROVE Mine
  <2>. DEFINE Booked == Counted(chunks, th'[t])
  <2>1. /\ chunks' = chunks /\ dropped' = dropped /\ \A u \in Thread \ {t} : th'[u] = th[u]
    BY <1>0, <1>8, QuietMoves
  <2>2. promised' = promised
    BY <1>8 DEF Quiet, BeginPush, BeginReserve, BeginGet, BeginCapacity, MissChunk,
       AllocateNull, AllocatePanics, EndGet, ReadCapacity, EndCapacity, history
  <2>3. ASSUME BeginPush(t)  PROVE Booked
    <3>1. th'[t] = [Idle EXCEPT !.pc = "chunk_load", !.op = "push", !.idx = len,
                                !.chunk = ChunkOf(len), !.last = ChunkOf(len)]
      BY <1>0, <2>3 DEF BeginPush, Become, VecTypeOK
    <3>2. th'[t].pc = "chunk_load" /\ th'[t].target = 0  BY <3>1 DEF Idle
    <3>. QED  BY <3>2 DEF Counted
  <2>4. ASSUME NEW n \in Amounts, BeginReserve(t, n)  PROVE Booked
    <3>1. th'[t] = [Idle EXCEPT !.pc = "chunk_load", !.op = "reserve",
                                !.last = ChunkOf((len + n) - 1), !.target = len + n]
      BY <1>0, <2>4 DEF BeginReserve, Become, VecTypeOK
    <3>2. /\ th'[t].pc = "chunk_load" /\ th'[t].target = len + n /\ th'[t].chunk = 0
          /\ th'[t].last = ChunkOf((len + n) - 1)
      BY <3>1 DEF Idle
    <3>3. \A k \in Chunk : ~(k < 0)  OBVIOUS
    <3>. QED  BY <3>2, <3>3 DEF Counted
  <2>5. ASSUME NEW i \in Index, BeginGet(t, i)  PROVE Booked
    <3>1. th'[t] = [Idle EXCEPT !.pc = "wait", !.op = "get", !.idx = i, !.chunk = ChunkOf(i)]
      BY <1>0, <2>5 DEF BeginGet, Become, VecTypeOK
    <3>2. th'[t].pc = "wait"  BY <3>1 DEF Idle
    <3>. QED  BY <3>2 DEF Counted
  <2>6. ASSUME BeginCapacity(t)  PROVE Booked
    <3>1. th'[t] = [Idle EXCEPT !.pc = "cap_read", !.op = "capacity", !.target = promised]
      BY <1>0, <2>6 DEF BeginCapacity, Become, VecTypeOK
    <3>2. /\ th'[t].pc = "cap_read" /\ th'[t].target = promised /\ th'[t].chunk = 0
          /\ th'[t].total = 0
      BY <3>1 DEF Idle
    <3>3. \A k \in Chunk : ~(k < 0)  OBVIOUS
    <3>4. CoveredIn(chunks, promised) /\ Start(0) = 0
      BY <1>1, <2>6 DEF BeginCapacity, Contiguous
    <3>. QED  BY <3>2, <3>3, <3>4 DEF Counted
  <2>7. ASSUME MissChunk(t)  PROVE Booked
    <3>1. th'[t] = [th[t] EXCEPT !.pc = "alloc"] /\ At(t, "chunk_load")
      BY <1>0, <2>7 DEF MissChunk, Become, VecTypeOK
    <3>2. /\ th'[t].pc = "alloc" /\ th'[t].target = th[t].target
          /\ th'[t].last = th[t].last /\ th'[t].chunk = th[t].chunk
      BY <1>1, <3>1 DEF ThreadState
    <3>. QED  BY <1>1, <3>1, <3>2 DEF Counted, At
  <2>8. ~AllocateNull(t) /\ ~AllocatePanics(t)
    BY DEF AllocateNull, AllocatePanics
  <2>9. ASSUME EndGet(t) \/ EndCapacity(t)  PROVE Booked
    <3>1. th'[t] = Idle  BY <1>0, <2>9 DEF EndGet, EndCapacity, Return, Become, VecTypeOK
    <3>. QED  BY <3>1, CountedIdle
  <2>10. ASSUME ReadCapacity(t)  PROVE Booked
    BY <1>0, <1>1, <2>10, CountedRead
  <2>11. Booked
    BY <1>8, <2>3, <2>4, <2>5, <2>6, <2>7, <2>8, <2>9, <2>10 DEF Quiet
  <2>. QED  BY <1>4, <2>1, <2>2, <2>11 DEF Mine
<1>. QED  BY <1>2, <1>3, <1>6, <1>7, <1>8, Actions DEF Mine

LEMMA CountedInit ==
  ASSUME Init
  PROVE  CapacityCounted
<1>1. promised = 0 /\ \A t \in Thread : th[t] = Idle  BY DEF Init
<1>2. CoveredIn(chunks, promised)  BY <1>1 DEF CoveredIn
<1>. QED  BY <1>1, <1>2, CountedIdle, CountedThreads

\* Where the chunks lie one after the other, a capacity covers every reserve
\* that ended before it was asked for, whoever raced for the chunks and however
\* many calls of reserve and push there are ("chunks are allocated in order",
\* vec.rs:206; "with_capacity(n).capacity() >= n is guaranteed", lib.rs:763).
THEOREM Promised == ASSUME Contiguous PROVE Spec => []PromiseKept
<1>1. Init => IInv /\ CapacityCounted  BY InitInv, CountedInit
<1>2. IInv /\ CapacityCounted /\ [Next]_vars => (IInv /\ CapacityCounted)'
  BY StepInv, CountedStep
<1>3. IInv /\ CapacityCounted => PromiseKept  BY DEF CapacityCounted, PromiseKept
<1>. QED  BY <1>1, <1>2, <1>3, PTL DEF Spec

\* The source's chunks, of 32 elements and up and for indices of 32 bits, lie
\* one after the other.
LEMMA SourceContiguous ==
  ASSUME FirstChunk = 32, LenMod = 2^32
  PROVE  Contiguous
<1>0. 2^32 = 4294967296  BY SMT
<1>1. \A i \in Index : i \in Nat /\ i <= 4294967295  BY SMT, <1>0 DEF Index
<1>2. ASSUME NEW i \in Index  PROVE i < Start(ChunkOf(i)) + ChunkSize(ChunkOf(i))
  <2>1. i \in Nat /\ i <= 4294967295  BY SMT, <1>1
  <2>2. /\ ChunkOf(i) \in Chunk /\ OffsetOf(i) < ChunkSize(ChunkOf(i))
        /\ i = Start(ChunkOf(i)) + OffsetOf(i)
    BY SMT, <2>1, Located, AtomicVecAssumption
  <2>3. /\ Start(ChunkOf(i)) \in Nat /\ ChunkSize(ChunkOf(i)) \in Nat
        /\ OffsetOf(i) \in Index
    BY SMT, <2>2, AtomicVecAssumption
  <2>4. \A j \in Index : j \in Int  BY SMT, Sizes
  <2>. QED  BY SMT, <2>2, <2>3, <2>4
<1>3. NumChunks <= 15
  <2>1. LenMod - 1 = 4294967295  BY SMT, <1>0
  <2>2. ChunkOf(4294967295) \in 0 .. 14  BY SMT, Located
  <2>. QED  BY SMT, <2>1, <2>2 DEF NumChunks
<1>4. \A k \in Chunk : k + 1 \in Chunk => k \in 0 .. 13
  BY SMT, <1>3, AtomicVecAssumption DEF Chunk
<1>5. Start(0) = 0 /\ \A k \in 0 .. 13 : Start(k + 1) = Start(k) + ChunkSize(k)
  BY SMT, Starts
<1>. QED  BY SMT, <1>2, <1>4, <1>5 DEF Contiguous

\* The vector of the source keeps its promises.
THEOREM PromisedSource ==
  ASSUME FirstChunk = 32, LenMod = 2^32
  PROVE  Spec => []PromiseKept
BY Promised, SourceContiguous
=============================================================================
