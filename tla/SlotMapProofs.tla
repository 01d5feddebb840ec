--------------------------- MODULE SlotMapProofs ---------------------------
(***************************************************************************)
(* AtomicSlotMap keeps its words consistent for any number of threads,     *)
(* guards, values and slots: proof of Core as long as the tag of free_head *)
(* has not wrapped around.                                                 *)
(***************************************************************************)
EXTENDS SlotMapInvariants, FiniteSetTheorems, SequenceTheorems, TLAPS

----------------------------------------------------------------------------
(* Arithmetic and cardinality *)

LEMMA OneMore ==
  ASSUME NEW S, IsFiniteSet(S), NEW T, NEW x, S \ {x} = T \ {x}
  PROVE  /\ IsFiniteSet(T) /\ Cardinality(S) \in Nat /\ Cardinality(T) \in Nat
         /\ Cardinality(T) = Cardinality(S) - (IF x \in S THEN 1 ELSE 0)
                                            + (IF x \in T THEN 1 ELSE 0)
<1>. DEFINE R == S \ {x}
<1>1. IsFiniteSet(R) /\ Cardinality(S) \in Nat /\ Cardinality(R) \in Nat
  BY FS_RemoveElement, FS_CardinalityType
<1>2. Cardinality(S) = Cardinality(R) + (IF x \in S THEN 1 ELSE 0)
  <2>1. CASE x \in S  BY <2>1, <1>1, FS_RemoveElement
  <2>2. CASE x \notin S
    <3>1. R = S  BY <2>2
    <3>. QED  BY <3>1, <2>2, <1>1
  <2>. QED  BY <2>1, <2>2
<1>3. IsFiniteSet(T) /\ Cardinality(T) = Cardinality(R) + (IF x \in T THEN 1 ELSE 0)
  <2>1. CASE x \in T
    <3>1. T = R \cup {x} /\ x \notin R  BY <2>1
    <3>. HIDE DEF R
    <3>. QED  BY <3>1, <2>1, <1>1, FS_AddElement
  <2>2. CASE x \notin T
    <3>1. T = R  BY <2>2
    <3>. QED  BY <3>1, <2>2, <1>1
  <2>. QED  BY <2>1, <2>2
<1>. HIDE DEF R
<1>. QED  BY <1>1, <1>2, <1>3

LEMMA Members ==
  ASSUME NEW S, IsFiniteSet(S), NEW x \in S
  PROVE  /\ Cardinality(S) \in Nat /\ Cardinality(S) >= 1
         /\ \A y \in S : y # x => Cardinality(S) >= 2
<1>1. Cardinality(S) \in Nat /\ IsFiniteSet(S \ {x}) /\ Cardinality(S \ {x}) \in Nat
      /\ Cardinality(S \ {x}) = Cardinality(S) - 1
  BY FS_RemoveElement, FS_CardinalityType
<1>2. ASSUME NEW y \in S, y # x  PROVE Cardinality(S) >= 2
  <2>1. Cardinality(S \ {x}) # 0  BY <1>1, <1>2, FS_EmptySet
  <2>. QED  BY <2>1, <1>1
<1>. QED  BY <1>1, <1>2

\* The successor of an odd version is an even one, also where it wraps.
LEMMA Unoccupy ==
  ASSUME NEW v \in Version, v % 2 = 1
  PROVE  (v + 1) % VersionMod \in Version /\ ((v + 1) % VersionMod) % 2 = 0
<1>1. VersionMod \in Nat \ {0} /\ VersionMod % 2 = 0  BY SlotMapAssumption
<1>2. CASE v + 1 = VersionMod
  <2>1. (v + 1) % VersionMod = 0  BY <1>1, <1>2
  <2>. QED  BY <2>1, <1>1 DEF Version
<1>3. CASE v + 1 < VersionMod
  <2>1. (v + 1) % VersionMod = v + 1  BY <1>1, <1>3 DEF Version
  <2>. QED  BY <2>1, <1>1, <1>3 DEF Version
<1>. QED  BY <1>1, <1>2, <1>3 DEF Version

LEMMA Occupy ==
  ASSUME NEW v \in Version
  PROVE  /\ v % 2 = 0 => v + 1 \in Version /\ (v + 1) % 2 = 1
         /\ v % 2 # 0 => v % 2 = 1
BY SlotMapAssumption DEF Version

LEMMA SmallVersions == 0 \in Version /\ 1 \in Version
<1>1. VersionMod \in Nat \ {0} /\ VersionMod % 2 = 0  BY SlotMapAssumption
<1>. QED  BY <1>1 DEF Version

LEMMA CountRange ==
  ASSUME NEW n \in Int
  PROVE  n % CountMod \in 0 .. CountMod - 1
BY SlotMapAssumption

----------------------------------------------------------------------------
(* References *)

\* What a step of thread t does to the references counted for threads.
LEMMA ThreadRefs ==
  ASSUME NEW t \in Thread, \A u \in Thread \ {t} : th'[u] = th[u], NEW s \in Slot
  PROVE  /\ Cardinality(RefThreads(s)) \in Nat
         /\ Cardinality(RefThreads(s))' =
              Cardinality(RefThreads(s))
                - (IF th[t].pc \in RefPC /\ th[t].idx = s THEN 1 ELSE 0)
                + (IF th'[t].pc \in RefPC /\ th'[t].idx = s THEN 1 ELSE 0)
<1>1. IsFiniteSet(Thread)  BY SlotMapAssumption
<1>2. IsFiniteSet(RefThreads(s))  BY <1>1, FS_Subset DEF RefThreads
<1>3. RefThreads(s) \ {t} = RefThreads(s)' \ {t}  BY DEF RefThreads
<1>4. /\ t \in RefThreads(s) <=> th[t].pc \in RefPC /\ th[t].idx = s
      /\ t \in RefThreads(s)' <=> th'[t].pc \in RefPC /\ th'[t].idx = s
  BY DEF RefThreads
<1>. DEFINE R == RefThreads(s)  Rn == RefThreads(s)'
<1>5. Cardinality(R) \in Nat /\
      Cardinality(Rn) = Cardinality(R) - (IF t \in R THEN 1 ELSE 0)
                                       + (IF t \in Rn THEN 1 ELSE 0)
  <2>. IsFiniteSet(R) /\ R \ {t} = Rn \ {t}  BY <1>2, <1>3
  <2>. HIDE DEF R, Rn
  <2>. QED  BY OneMore
<1>. QED  BY <1>4, <1>5

\* What a step that changes guard g alone does to those counted for guards.
LEMMA GuardRefs ==
  ASSUME NEW g \in Guard, \A h \in Guard \ {g} : guard'[h] = guard[h], NEW s \in Slot
  PROVE  /\ Cardinality(RefGuards(s)) \in Nat
         /\ Cardinality(RefGuards(s))' =
              Cardinality(RefGuards(s))
                - (IF guard[g] # None /\ guard[g].idx = s THEN 1 ELSE 0)
                + (IF guard'[g] # None /\ guard'[g].idx = s THEN 1 ELSE 0)
<1>1. IsFiniteSet(Guard)  BY SlotMapAssumption
<1>2. IsFiniteSet(RefGuards(s))  BY <1>1, FS_Subset DEF RefGuards
<1>3. RefGuards(s) \ {g} = RefGuards(s)' \ {g}  BY DEF RefGuards
<1>4. /\ g \in RefGuards(s) <=> guard[g] # None /\ guard[g].idx = s
      /\ g \in RefGuards(s)' <=> guard'[g] # None /\ guard'[g].idx = s
  BY DEF RefGuards
<1>. DEFINE R == RefGuards(s)  Rn == RefGuards(s)'
<1>5. Cardinality(R) \in Nat /\
      Cardinality(Rn) = Cardinality(R) - (IF g \in R THEN 1 ELSE 0)
                                       + (IF g \in Rn THEN 1 ELSE 0)
  <2>. IsFiniteSet(R) /\ R \ {g} = Rn \ {g}  BY <1>2, <1>3
  <2>. HIDE DEF R, Rn
  <2>. QED  BY OneMore
<1>. QED  BY <1>4, <1>5

\* Of the map (o), the guards G and the threads T that a count n counts, any
\* one makes it one, and any two make it two.
LEMMA Counted ==
  ASSUME NEW T, NEW G, IsFiniteSet(T), IsFiniteSet(G), NEW o \in {0, 1}, NEW n,
         n = o + Cardinality(G) + Cardinality(T)
  PROVE  /\ n \in Nat
         /\ \A t \in T : n >= 1
         /\ \A g \in G : n >= 1
         /\ o = 1 => n >= 1
         /\ n <= 1 =>
              /\ \A t, u \in T : t = u
              /\ T # {} => o = 0 /\ G = {}
              /\ G # {} => o = 0
<1>1. Cardinality(T) \in Nat /\ Cardinality(G) \in Nat  BY FS_CardinalityType
<1>2. /\ \A t \in T : Cardinality(T) >= 1 /\ \A u \in T : u # t => Cardinality(T) >= 2
      /\ \A g \in G : Cardinality(G) >= 1
  BY Members
<1>. QED  BY <1>1, <1>2

\* A reference that is held is counted; two of them are counted twice.
LEMMA Referenced ==
  ASSUME RefCountExact, NEW s \in Slot
  PROVE  /\ ref_count[s] \in Nat
         /\ \A t \in RefThreads(s) : ref_count[s] >= 1
         /\ \A g \in RefGuards(s) : ref_count[s] >= 1
         /\ Occupied(s) => ref_count[s] >= 1
         /\ ref_count[s] <= 1 =>
              /\ \A t, u \in RefThreads(s) : t = u
              /\ RefThreads(s) # {} => ~Occupied(s) /\ RefGuards(s) = {}
              /\ RefGuards(s) # {} => ~Occupied(s)
<1>1. IsFiniteSet(RefThreads(s)) /\ IsFiniteSet(RefGuards(s))
  BY SlotMapAssumption, FS_Subset DEF RefThreads, RefGuards
<1>2. MapRef(s) \in {0, 1} /\ (MapRef(s) = 1 <=> Occupied(s))  BY DEF MapRef
<1>3. ref_count[s] = MapRef(s) + Cardinality(RefGuards(s)) + Cardinality(RefThreads(s))
  BY DEF RefCountExact
<1>4. /\ ref_count[s] \in Nat
      /\ \A t \in RefThreads(s) : ref_count[s] >= 1
      /\ \A g \in RefGuards(s) : ref_count[s] >= 1
      /\ MapRef(s) = 1 => ref_count[s] >= 1
      /\ ref_count[s] <= 1 =>
           /\ \A t, u \in RefThreads(s) : t = u
           /\ RefThreads(s) # {} => MapRef(s) = 0 /\ RefGuards(s) = {}
           /\ RefGuards(s) # {} => MapRef(s) = 0
  BY <1>1, <1>2, <1>3, Counted
<1>. QED  BY <1>2, <1>4 DEF Occupied

----------------------------------------------------------------------------
(* Types *)

LEMMA Becomes ==
  ASSUME th \in [Thread -> ThreadState], NEW t \in Thread, NEW r \in ThreadState,
         Become(t, r)
  PROVE  /\ th' \in [Thread -> ThreadState]
         /\ th'[t] = r
         /\ \A u \in Thread \ {t} : th'[u] = th[u]
BY DEF Become

LEMMA IdleType == Idle \in ThreadState
BY SlotMapAssumption DEF Idle, ThreadState, PC, Slot, Version, FreeHead

\* A call leaves the locals of its thread well typed.
LEMMA CallLocals ==
  ASSUME Core, NEW t \in Thread, Call(t)
  PROVE  th' \in [Thread -> ThreadState]
<1>1. /\ th \in [Thread -> ThreadState] /\ th[t] \in ThreadState
      /\ free_head \in FreeHead /\ ref_count \in [Slot -> Nat]
      /\ guard \in [Guard -> Key \cup {None}]
  BY DEF Core, TypeOK
<1>. USE DEF ThreadState, PC
<1>2. ASSUME NEW v \in Value, BeginInsert(t, v)  PROVE th' \in [Thread -> ThreadState]
  <2>1. [th[t] EXCEPT !.pc = PopTarget(free_head), !.op = "insert",
                      !.val = v, !.head = free_head] \in ThreadState
    BY <1>1 DEF PopTarget
  <2>. QED  BY <1>1, <1>2, <2>1, Becomes DEF BeginInsert
<1>3. ASSUME NEW k \in Key, NEW g \in Guard, BeginGet(t, k, g)
      PROVE  th' \in [Thread -> ThreadState]
  <2>1. [th[t] EXCEPT !.pc = "acquire", !.op = "get", !.idx = k.idx,
                      !.ver = k.ver, !.rc = ref_count[k.idx], !.out = g] \in ThreadState
    BY <1>1 DEF Key
  <2>. QED  BY <1>1, <1>3, <2>1, Becomes DEF BeginGet
<1>4. ASSUME NEW k \in Key, BeginRemove(t, k)  PROVE th' \in [Thread -> ThreadState]
  <2>1. [th[t] EXCEPT !.pc = "rem_swap", !.op = "remove",
                      !.idx = k.idx, !.ver = k.ver] \in ThreadState
    BY <1>1 DEF Key
  <2>. QED  BY <1>1, <1>4, <2>1, Becomes DEF BeginRemove
<1>5. ASSUME NEW g \in Guard, DropGuard(t, g)  PROVE th' \in [Thread -> ThreadState]
  <2>1. guard[g].idx \in Slot  BY <1>1, <1>5 DEF DropGuard, Key
  <2>2. [th[t] EXCEPT !.pc = "drop_value", !.op = "drop",
                      !.idx = guard[g].idx, !.out = g] \in ThreadState
    BY <1>1, <2>1
  <2>. QED  BY <1>1, <1>5, <2>2, Becomes DEF DropGuard
<1>. QED  BY <1>2, <1>3, <1>4, <1>5 DEF Call

\* And so does every step of a call.
LEMMA StepLocals ==
  ASSUME Core, NEW t \in Thread, Step(t)
  PROVE  th' \in [Thread -> ThreadState]
<1>1. /\ th \in [Thread -> ThreadState] /\ th[t] \in ThreadState
      /\ free_head \in FreeHead /\ ref_count \in [Slot -> Nat]
      /\ version \in [Slot -> Version] /\ next_free \in [Slot -> Slot \cup {SENTINEL}]
      /\ len \in 0 .. MaxSlots
  BY DEF Core, TypeOK
<1>2. Idle \in ThreadState  BY IdleType
<1>3. \A p \in PC : [th[t] EXCEPT !.pc = p] \in ThreadState  BY <1>1 DEF ThreadState
<1>4. CASE Return(t)  BY <1>1, <1>2, <1>4, Becomes DEF Return
<1>5. ASSUME NEW p \in PC, Become(t, [th[t] EXCEPT !.pc = p])
      PROVE  th' \in [Thread -> ThreadState]
  BY <1>1, <1>3, <1>5, Becomes
<1>6. CASE PopStep(t)
  <2>1. CASE PopReadNext(t)
    <3>1. th[t].head.idx \in Slot
      BY <1>1, <2>1 DEF PopReadNext, At, Core, ReadsCurrent, ThreadState, FreeHead
    <3>2. [th[t] EXCEPT !.next = next_free[th[t].head.idx], !.pc = "pop_swap"]
            \in ThreadState
      BY <1>1, <3>1 DEF ThreadState, PC
    <3>. QED  BY <1>1, <2>1, <3>2, Becomes DEF PopReadNext
  <2>2. CASE PopSwap(t)
    <3>1. th[t].head.idx \in Slot
      BY <1>1, <2>2 DEF PopSwap, At, Core, ReadsCurrent, ThreadState, FreeHead
    <3>2. [th[t] EXCEPT !.pc = "load_version", !.idx = th[t].head.idx,
                        !.head = Idle.head, !.next = SENTINEL] \in ThreadState
      BY <1>1, <1>2, <3>1 DEF ThreadState, PC
    <3>. QED  BY <1>1, <2>2, <3>2, Becomes DEF PopSwap
  <2>3. CASE PopRetry(t)
    <3>1. [th[t] EXCEPT !.pc = PopTarget(free_head), !.head = free_head,
                        !.next = SENTINEL] \in ThreadState
      BY <1>1 DEF ThreadState, PC, PopTarget
    <3>. QED  BY <1>1, <2>3, <3>1, Becomes DEF PopRetry
  <2>. QED  BY <1>6, <2>1, <2>2, <2>3 DEF PopStep
<1>7. CASE PushZeroed(t)
  <2>1. [th[t] EXCEPT !.pc = "ensure_chunk", !.idx = len, !.ver = 1,
                      !.head = Idle.head] \in ThreadState
    <3>1. len \in Slot
      <4>1. MaxSlots \in Nat  BY SlotMapAssumption
      <4>. QED  BY <1>1, <1>7, <4>1 DEF PushZeroed, Slot
    <3>. QED  BY <1>1, <1>2, <3>1, SmallVersions DEF ThreadState, PC
  <2>. QED  BY <1>1, <1>7, <2>1, Becomes DEF PushZeroed
<1>8. CASE LoadVersion(t)
  <2>. DEFINE cur == version[th[t].idx]
              occupied_version == IF cur % 2 = 0 THEN cur + 1 ELSE cur
  <2>1. cur \in Version  BY <1>1 DEF ThreadState
  <2>2. occupied_version \in Version  BY <2>1, Occupy
  <2>3. [th[t] EXCEPT !.pc = "call", !.ver = occupied_version] \in ThreadState
    <3>. HIDE DEF occupied_version
    <3>. QED  BY <1>1, <2>2 DEF ThreadState, PC
  <2>. QED  BY <1>1, <1>8, <2>3, Becomes DEF LoadVersion
<1>9. CASE EnsureChunk(t) \/ WriteValue(t) \/ StoreRef(t)
  BY <1>5, <1>9 DEF EnsureChunk, WriteValue, StoreRef, PC
<1>10. CASE CallErr(t)
  <2>1. [th[t] EXCEPT !.pc = "push_load", !.val = None, !.ver = 0] \in ThreadState
    BY <1>1, SmallVersions DEF ThreadState, PC
  <2>. QED  BY <1>1, <1>10, <2>1, Becomes DEF CallErr
<1>11. CASE StoreVersion(t)
  <2>1. [Idle EXCEPT !.pc = "count_up", !.op = "insert"] \in ThreadState
    BY <1>2 DEF ThreadState, PC
  <2>. QED  BY <1>1, <1>11, <2>1, Becomes DEF StoreVersion
<1>12. CASE CallPanics(t) \/ CountUp(t) \/ CheckVersion(t) \/ RemoveFails(t)
            \/ CountDown(t) \/ DropValuePanics(t)
  BY <1>4, <1>12 DEF CallPanics, CountUp, CheckVersion, RemoveFails, CountDown,
                     DropValuePanics
<1>13. CASE AcquireSwap(t)
  <2>1. [th[t] EXCEPT !.pc = "check", !.rc = 0] \in ThreadState
    BY <1>1 DEF ThreadState, PC
  <2>. QED  BY <1>1, <1>13, <2>1, Becomes DEF AcquireSwap
<1>14. CASE AcquireRetry(t)
  <2>1. [th[t] EXCEPT !.rc = ref_count[th[t].idx]] \in ThreadState
    BY <1>1 DEF ThreadState
  <2>. QED  BY <1>1, <1>4, <1>14, <2>1, Becomes DEF AcquireRetry
<1>15. CASE CheckFails(t)
  <2>1. [th[t] EXCEPT !.pc = "undo", !.ver = 0, !.out = None] \in ThreadState
    BY <1>1, SmallVersions DEF ThreadState, PC
  <2>. QED  BY <1>1, <1>15, <2>1, Becomes DEF CheckFails
<1>16. CASE UndoAcquire(t)
  BY <1>4, <1>5, <1>16 DEF UndoAcquire, PC
<1>17. CASE RemoveSwap(t)
  <2>1. [th[t] EXCEPT !.pc = "rem_dec", !.ver = 0] \in ThreadState
    BY <1>1, SmallVersions DEF ThreadState, PC
  <2>. QED  BY <1>1, <1>17, <2>1, Becomes DEF RemoveSwap
<1>18. CASE RemoveDec(t) \/ DropValue(t) \/ PushStoreNext(t)
  BY <1>5, <1>18 DEF RemoveDec, DropValue, PushStoreNext, PC
<1>19. CASE PushLoad(t) \/ PushRetry(t)
  <2>1. [th[t] EXCEPT !.pc = "push_next", !.head = free_head] \in ThreadState
    BY <1>1 DEF ThreadState, PC
  <2>. QED  BY <1>1, <1>19, <2>1, Becomes DEF PushLoad, PushRetry
<1>20. CASE PushSwap(t)
  <2>1. [Idle EXCEPT !.pc = "count_down", !.op = "remove"] \in ThreadState
    BY <1>2 DEF ThreadState, PC
  <2>. QED  BY <1>1, <1>2, <1>20, <2>1, Becomes DEF PushSwap
<1>. QED
  BY <1>6, <1>7, <1>8, <1>9, <1>10, <1>11, <1>12, <1>13, <1>14, <1>15, <1>16,
     <1>17, <1>18, <1>19, <1>20
  DEF Step, InsertStep, GetStep, RemoveStep, PushStep, DropStep

\* What TypeOK says of the shared words and of the history.
SharedTypes ==
  /\ len \in 0 .. MaxSlots
  /\ chunks \subseteq {ChunkOf(s) : s \in Slot}
  /\ free_head \in FreeHead
  /\ num_elems \in 0 .. CountMod - 1
  /\ next_free \in [Slot -> Slot \cup {SENTINEL}]
  /\ ref_count \in [Slot -> Nat]
  /\ version \in [Slot -> Version]
  /\ data \in [Slot -> Value \cup {None}]
  /\ guard \in [Guard -> Key \cup {None}]
  /\ life \in {"open", "closed", "freed"}
  /\ stack \in Seq(Slot)
  /\ keyOf \in [Value -> Key \cup {None}]
  /\ drops \in [Value -> Nat]
  /\ leaked \subseteq Slot /\ stranded \subseteq Guard /\ uncounted \in Nat

LEMMA StepTypes ==
  ASSUME Core, NEW t \in Thread, Call(t) \/ Step(t)
  PROVE  SharedTypes'
<1>1. SharedTypes /\ th[t] \in ThreadState
  BY DEF Core, TypeOK, SharedTypes
<1>2. /\ th[t].idx \in Slot /\ th[t].ver \in Version
      /\ th[t].val \in Value \cup {None} /\ th[t].head \in FreeHead
      /\ th[t].head.idx \in Slot \cup {SENTINEL} /\ th[t].next \in Slot \cup {SENTINEL}
  BY <1>1 DEF ThreadState, FreeHead
<1>. USE DEF vecVars, slotVars, mapVars, history, lossVars
\* Most steps write none of the shared words.
<1>3. CASE UNCHANGED <<vecVars, slotVars, mapVars, history>>
  BY <1>1, <1>3 DEF SharedTypes
<1>4. ASSUME NEW g \in Guard, DropGuard(t, g)  PROVE SharedTypes'
  <2>1. guard[g].idx \in Slot /\ g \in RefGuards(guard[g].idx)
    BY <1>1, <1>4 DEF SharedTypes, DropGuard, Key, RefGuards
  <2>2. ref_count[guard[g].idx] \in Nat /\ ref_count[guard[g].idx] >= 1
    BY <2>1, Referenced DEF Core
  <2>3. ref_count' \in [Slot -> Nat]
    BY <1>1, <1>4, <2>1, <2>2 DEF SharedTypes, DropGuard, DecRefCount
  <2>4. guard' \in [Guard -> Key \cup {None}]
    BY <1>1, <1>4 DEF SharedTypes, DropGuard
  <2>. QED  BY <1>1, <1>4, <2>3, <2>4 DEF SharedTypes, DropGuard
<1>5. CASE PopSwap(t)
  <2>1. free_head' \in FreeHead  BY <1>1, <1>2, <1>5 DEF SharedTypes, PopSwap, FreeHead
  <2>2. stack' \in Seq(Slot)
    <3>1. stack \in Seq(Slot) /\ Len(stack) \in Nat  BY <1>1 DEF SharedTypes
    <3>. QED  BY <1>5, <3>1 DEF PopSwap
  <2>. QED  BY <1>1, <1>5, <2>1, <2>2 DEF SharedTypes, PopSwap
<1>6. CASE PushSwap(t)
  <2>1. free_head' \in FreeHead  BY <1>1, <1>2, <1>6 DEF SharedTypes, PushSwap, FreeHead
  <2>2. stack' \in Seq(Slot)  BY <1>1, <1>2, <1>6 DEF SharedTypes, PushSwap
  <2>. QED  BY <1>1, <1>6, <2>1, <2>2 DEF SharedTypes, PushSwap
<1>7. CASE PushZeroed(t)
  <2>1. len' \in 0 .. MaxSlots
    BY <1>1, <1>7, SlotMapAssumption DEF SharedTypes, PushZeroed
  <2>. QED  BY <1>1, <1>7, <2>1 DEF SharedTypes, PushZeroed
<1>8. CASE EnsureChunk(t)
  <2>1. chunks' \subseteq {ChunkOf(s) : s \in Slot}
    BY <1>1, <1>2, <1>8 DEF SharedTypes, EnsureChunk
  <2>. QED  BY <1>1, <1>8, <2>1 DEF SharedTypes, EnsureChunk
<1>9. CASE WriteValue(t)
  BY <1>1, <1>2, <1>9 DEF SharedTypes, WriteValue
<1>10. CASE CallErr(t) \/ CallPanics(t) \/ DropValue(t) \/ DropValuePanics(t)
  <2>1. drops' \in [Value -> Nat]
    BY <1>1, <1>10 DEF SharedTypes, CallErr, CallPanics, DropValue, DropValuePanics, Destroy
  <2>2. leaked' \subseteq Slot
    BY <1>1, <1>2, <1>10 DEF SharedTypes, CallErr, CallPanics, DropValue, DropValuePanics
  <2>3. uncounted' \in Nat
    BY <1>1, <1>10 DEF SharedTypes, CallErr, CallPanics, DropValue, DropValuePanics
  <2>. QED
    BY <1>1, <1>10, <2>1, <2>2, <2>3
    DEF SharedTypes, CallErr, CallPanics, DropValue, DropValuePanics
<1>11. CASE StoreRef(t) \/ AcquireSwap(t)
  <2>1. ref_count' \in [Slot -> Nat]
    <3>1. ref_count \in [Slot -> Nat] /\ th[t].idx \in Slot  BY <1>1, <1>2 DEF SharedTypes
    <3>2. CASE StoreRef(t)  BY <3>1, <3>2 DEF StoreRef
    <3>3. CASE AcquireSwap(t)  BY <3>1, <3>3 DEF AcquireSwap
    <3>. QED  BY <1>11, <3>2, <3>3
  <2>. QED  BY <1>1, <1>11, <2>1 DEF SharedTypes, StoreRef, AcquireSwap
<1>12. CASE StoreVersion(t)
  <2>1. [idx |-> th[t].idx, ver |-> th[t].ver] \in Key
    BY <1>2, <1>12 DEF Key, Core, LocalsSound, StoreVersion, At
  <2>2. version' \in [Slot -> Version] /\ keyOf' \in [Value -> Key \cup {None}]
    BY <1>1, <1>2, <1>12, <2>1 DEF SharedTypes, StoreVersion
  <2>. QED  BY <1>1, <1>12, <2>2 DEF SharedTypes, StoreVersion
<1>13. CASE CountUp(t) \/ CountDown(t)
  <2>1. num_elems' \in 0 .. CountMod - 1
    <3>1. num_elems \in Int  BY <1>1 DEF SharedTypes
    <3>. QED  BY <1>13, <3>1, CountRange DEF CountUp, CountDown
  <2>. QED  BY <1>1, <1>13, <2>1 DEF SharedTypes, CountUp, CountDown
<1>14. CASE CheckVersion(t)
  <2>1. [idx |-> th[t].idx, ver |-> th[t].ver] \in Key
    BY <1>2, <1>14 DEF Key, Core, LocalsSound, CheckVersion, At
  <2>2. guard' \in [Guard -> Key \cup {None}]
    BY <1>1, <1>14, <2>1 DEF SharedTypes, CheckVersion
  <2>. QED  BY <1>1, <1>14, <2>2 DEF SharedTypes, CheckVersion
<1>15. CASE UndoAcquire(t) \/ RemoveDec(t)
  <2>1. t \in RefThreads(th[t].idx)
    BY <1>15 DEF UndoAcquire, RemoveDec, RefThreads, RefPC, At
  <2>2. ref_count[th[t].idx] \in Nat /\ ref_count[th[t].idx] >= 1
    BY <1>2, <2>1, Referenced DEF Core
  <2>3. ref_count' \in [Slot -> Nat]
    BY <1>1, <1>2, <1>15, <2>2 DEF SharedTypes, UndoAcquire, RemoveDec, DecRefCount
  <2>. QED  BY <1>1, <1>15, <2>3 DEF SharedTypes, UndoAcquire, RemoveDec
<1>16. CASE RemoveSwap(t)
  <2>1. (th[t].ver + 1) % VersionMod \in Version
    BY <1>2, <1>16, Unoccupy DEF Core, LocalsSound, RemoveSwap, At
  <2>2. version' \in [Slot -> Version]
    BY <1>1, <1>2, <1>16, <2>1 DEF SharedTypes, RemoveSwap
  <2>. QED  BY <1>1, <1>16, <2>2 DEF SharedTypes, RemoveSwap
<1>17. CASE PushStoreNext(t)
  <2>1. next_free' \in [Slot -> Slot \cup {SENTINEL}]
    BY <1>1, <1>2, <1>17 DEF SharedTypes, PushStoreNext
  <2>. QED  BY <1>1, <1>17, <2>1 DEF SharedTypes, PushStoreNext
<1>. QED
  BY <1>3, <1>4, <1>5, <1>6, <1>7, <1>8, <1>9, <1>10, <1>11, <1>12, <1>13, <1>14,
     <1>15, <1>16, <1>17
  DEF Call, Step, InsertStep, PopStep, GetStep, RemoveStep, PushStep, DropStep,
      BeginInsert, BeginGet, BeginRemove, PopReadNext, PopRetry, LoadVersion,
      AcquireRetry, CheckFails, RemoveFails, PushLoad, PushRetry

LEMMA TypeStep ==
  ASSUME Core, NEW t \in Thread, Call(t) \/ Step(t)
  PROVE  TypeOK'
BY CallLocals, StepLocals, StepTypes DEF TypeOK, SharedTypes

\* Whatever thread t does, the others stay where they are.
LEMMA Others ==
  ASSUME Core, NEW t \in Thread, Call(t) \/ Step(t)
  PROVE  \A u \in Thread \ {t} : th'[u] = th[u]
<1>1. th \in [Thread -> ThreadState]  BY DEF Core, TypeOK
<1>2. ASSUME NEW r, Become(t, r)  PROVE \A u \in Thread \ {t} : th'[u] = th[u]
  BY <1>1, <1>2 DEF Become
<1>3. \E r : Become(t, r)
  <2>1. CASE Call(t)
    BY <2>1 DEF Call, BeginInsert, BeginGet, BeginRemove, DropGuard
  <2>2. CASE InsertStep(t)
    BY <2>2 DEF InsertStep, PopStep, PopReadNext, PopSwap, PopRetry, PushZeroed,
                EnsureChunk, LoadVersion, WriteValue, CallErr, CallPanics, StoreRef,
                StoreVersion, CountUp, Return
  <2>3. CASE GetStep(t)
    BY <2>3 DEF GetStep, AcquireSwap, AcquireRetry, CheckVersion, CheckFails,
                UndoAcquire, Return
  <2>4. CASE RemoveStep(t) \/ PushStep(t) \/ DropStep(t)
    BY <2>4 DEF RemoveStep, PushStep, DropStep, RemoveSwap, RemoveFails, RemoveDec,
                CountDown, PushLoad, PushStoreNext, PushSwap, PushRetry, DropValue,
                DropValuePanics, Return
  <2>. QED  BY <2>1, <2>2, <2>3, <2>4 DEF Step
<1>. QED  BY <1>2, <1>3

----------------------------------------------------------------------------
(* Locals *)

\* What LocalsSound says of one thread.
LocalSound(t) ==
  /\ th[t].pc \in {"ensure_chunk", "call", "store_ref", "store_version",
                   "acquire", "check", "rem_swap"} => th[t].ver % 2 = 1
  /\ th[t].pc = "acquire" => th[t].rc >= 1

LEMMA LocalStep ==
  ASSUME Core, NEW t \in Thread, Call(t) \/ Step(t)
  PROVE  LocalSound(t)'
<1>1. /\ th \in [Thread -> ThreadState] /\ th[t] \in ThreadState /\ LocalSound(t)
      /\ ref_count \in [Slot -> Nat] /\ version \in [Slot -> Version]
      /\ th[t].idx \in Slot
  BY DEF Core, TypeOK, LocalsSound, LocalSound, ThreadState
<1>2. ASSUME NEW r, Become(t, r)  PROVE th'[t] = r
  BY <1>1, <1>2 DEF Become
<1>3. CASE Call(t)
  <2>1. ASSUME NEW v \in Value, BeginInsert(t, v)  PROVE LocalSound(t)'
    <3>1. th'[t].pc = PopTarget(free_head)
      BY <1>1, <1>2, <2>1 DEF BeginInsert, ThreadState
    <3>. QED  BY <3>1 DEF LocalSound, PopTarget
  <2>2. ASSUME NEW k \in Key, NEW g \in Guard, BeginGet(t, k, g)  PROVE LocalSound(t)'
    <3>1. k.ver % 2 = 1 /\ ref_count[k.idx] >= 1
      BY <1>1, <2>2 DEF Key, BeginGet, Acquirable
    <3>. QED  BY <1>1, <1>2, <2>2, <3>1 DEF BeginGet, LocalSound, ThreadState
  <2>3. ASSUME NEW k \in Key, BeginRemove(t, k)  PROVE LocalSound(t)'
    <3>1. k.ver % 2 = 1  BY DEF Key
    <3>. QED  BY <1>1, <1>2, <2>3, <3>1 DEF BeginRemove, LocalSound, ThreadState
  <2>4. ASSUME NEW g \in Guard, DropGuard(t, g)  PROVE LocalSound(t)'
    BY <1>1, <1>2, <2>4 DEF DropGuard, LocalSound, ThreadState, At
  <2>. QED  BY <1>3, <2>1, <2>2, <2>3, <2>4 DEF Call
<1>4. CASE LoadVersion(t)
  <2>. DEFINE cur == version[th[t].idx]
              occupied_version == IF cur % 2 = 0 THEN cur + 1 ELSE cur
  <2>1. occupied_version % 2 = 1  BY <1>1, Occupy
  <2>2. th'[t] = [th[t] EXCEPT !.pc = "call", !.ver = occupied_version]
    BY <1>2, <1>4 DEF LoadVersion
  <2>. HIDE DEF occupied_version
  <2>. QED  BY <1>1, <2>1, <2>2 DEF LocalSound, ThreadState
<1>5. CASE AcquireRetry(t)
  <2>1. CASE Acquirable(ref_count[th[t].idx])
    BY <1>1, <1>2, <1>5, <2>1 DEF AcquireRetry, Acquirable, LocalSound, ThreadState
  <2>2. CASE ~Acquirable(ref_count[th[t].idx])
    BY <1>2, <1>5, <2>2 DEF AcquireRetry, Return, Idle, LocalSound
  <2>. QED  BY <2>1, <2>2
<1>6. CASE PopStep(t)
  <2>1. CASE PopReadNext(t)
    BY <1>1, <1>2, <2>1 DEF PopReadNext, LocalSound, ThreadState
  <2>2. CASE PopSwap(t)
    BY <1>1, <1>2, <2>2 DEF PopSwap, LocalSound, ThreadState
  <2>3. CASE PopRetry(t)
    BY <1>1, <1>2, <2>3 DEF PopRetry, PopTarget, LocalSound, ThreadState
  <2>. QED  BY <1>6, <2>1, <2>2, <2>3 DEF PopStep
<1>7. CASE PushZeroed(t) \/ EnsureChunk(t) \/ WriteValue(t) \/ StoreRef(t)
  <2>1. CASE PushZeroed(t)
    <3>1. th'[t].pc = "ensure_chunk" /\ th'[t].ver = 1
      BY <1>1, <1>2, <2>1 DEF PushZeroed, ThreadState
    <3>. QED  BY <3>1 DEF LocalSound
  <2>2. CASE EnsureChunk(t)
    BY <1>1, <1>2, <2>2 DEF EnsureChunk, At, LocalSound, ThreadState
  <2>3. CASE WriteValue(t)
    BY <1>1, <1>2, <2>3 DEF WriteValue, At, LocalSound, ThreadState
  <2>4. CASE StoreRef(t)
    BY <1>1, <1>2, <2>4 DEF StoreRef, At, LocalSound, ThreadState
  <2>. QED  BY <1>7, <2>1, <2>2, <2>3, <2>4
<1>8. CASE CallErr(t) \/ RemoveSwap(t) \/ RemoveDec(t) \/ DropValue(t)
           \/ PushLoad(t) \/ PushStoreNext(t) \/ PushRetry(t) \/ CheckFails(t)
  <2>1. \E r : r.pc \notin {"ensure_chunk", "call", "store_ref", "store_version",
                            "acquire", "check", "rem_swap"} /\ Become(t, r)
    <3>1. CASE CallErr(t)  BY <1>1, <3>1 DEF CallErr, ThreadState
    <3>2. CASE RemoveSwap(t)  BY <1>1, <3>2 DEF RemoveSwap, ThreadState
    <3>3. CASE RemoveDec(t)  BY <1>1, <3>3 DEF RemoveDec, ThreadState
    <3>4. CASE DropValue(t)  BY <1>1, <3>4 DEF DropValue, ThreadState
    <3>5. CASE PushLoad(t)  BY <1>1, <3>5 DEF PushLoad, ThreadState
    <3>6. CASE PushStoreNext(t)  BY <1>1, <3>6 DEF PushStoreNext, ThreadState
    <3>7. CASE PushRetry(t)  BY <1>1, <3>7 DEF PushRetry, ThreadState
    <3>8. CASE CheckFails(t)  BY <1>1, <3>8 DEF CheckFails, ThreadState
    <3>. QED  BY <1>8, <3>1, <3>2, <3>3, <3>4, <3>5, <3>6, <3>7, <3>8
  <2>. QED  BY <1>2, <2>1 DEF LocalSound
<1>9. CASE CallPanics(t) \/ CountUp(t) \/ CheckVersion(t) \/ RemoveFails(t)
           \/ CountDown(t) \/ DropValuePanics(t)
  <2>1. Return(t)
    BY <1>9 DEF CallPanics, CountUp, CheckVersion, RemoveFails, CountDown, DropValuePanics
  <2>. QED  BY <1>2, <2>1 DEF Return, Idle, LocalSound
<1>12. CASE StoreVersion(t)
  BY <1>2, <1>12 DEF StoreVersion, Idle, LocalSound
<1>13. CASE PushSwap(t)
  <2>1. th'[t] = IF th[t].op = "remove"
                 THEN [Idle EXCEPT !.pc = "count_down", !.op = "remove"] ELSE Idle
    BY <1>2, <1>13 DEF PushSwap
  <2>2. th'[t].pc \in {"count_down", "idle"}  BY <2>1 DEF Idle
  <2>. QED  BY <2>2 DEF LocalSound
<1>10. CASE AcquireSwap(t)
  BY <1>1, <1>2, <1>10 DEF AcquireSwap, At, LocalSound, ThreadState
<1>11. CASE UndoAcquire(t)
  BY <1>1, <1>2, <1>11 DEF UndoAcquire, Return, Idle, LocalSound, ThreadState
<1>. QED
  BY <1>3, <1>4, <1>5, <1>6, <1>7, <1>8, <1>9, <1>10, <1>11, <1>12, <1>13
  DEF Step, InsertStep, GetStep, RemoveStep, PushStep, DropStep

----------------------------------------------------------------------------
(* Where a step takes its thread *)

\* The step begins at one place and ends at another, about the same slot.
Goes(t, from, to) == th[t].pc = from /\ th'[t].pc = to /\ th'[t].idx = th[t].idx

LEMMA InsertMoves ==
  ASSUME Core, NEW t \in Thread
  PROVE  /\ PopReadNext(t) => /\ Goes(t, "pop_next", "pop_swap")
                              /\ th'[t].head = th[t].head
                              /\ th'[t].next = next_free[th[t].head.idx]
         /\ PopSwap(t) => /\ th[t].pc = "pop_swap" /\ th'[t].pc = "load_version"
                          /\ th'[t].idx = th[t].head.idx
         /\ PopRetry(t) => /\ Goes(t, "pop_swap", PopTarget(free_head))
                           /\ th'[t].head = free_head
         /\ PushZeroed(t) => /\ th[t].pc = "push_zeroed" /\ th'[t].pc = "ensure_chunk"
                             /\ th'[t].idx = len
         /\ EnsureChunk(t) => Goes(t, "ensure_chunk", "call")
         /\ LoadVersion(t) => Goes(t, "load_version", "call")
         /\ WriteValue(t) => Goes(t, "call", "store_ref")
         /\ CallErr(t) => Goes(t, "call", "push_load")
         /\ CallPanics(t) => th[t].pc = "call" /\ th'[t].pc = "idle"
         /\ StoreRef(t) => Goes(t, "store_ref", "store_version")
         /\ StoreVersion(t) => th[t].pc = "store_version" /\ th'[t].pc = "count_up"
         /\ CountUp(t) => th[t].pc = "count_up" /\ th'[t].pc = "idle"
<1>1. th \in [Thread -> ThreadState] /\ th[t] \in ThreadState  BY DEF Core, TypeOK
<1>2. ASSUME NEW r, Become(t, r)  PROVE th'[t] = r
  BY <1>1, <1>2 DEF Become
<1>. USE <1>1, <1>2 DEF Goes, At, Return, Idle, ThreadState
<1>3. PopReadNext(t) => /\ Goes(t, "pop_next", "pop_swap")
                        /\ th'[t].head = th[t].head
                        /\ th'[t].next = next_free[th[t].head.idx]
  BY DEF PopReadNext
<1>4. PopSwap(t) => /\ th[t].pc = "pop_swap" /\ th'[t].pc = "load_version"
                    /\ th'[t].idx = th[t].head.idx
  BY DEF PopSwap
<1>5. PopRetry(t) => Goes(t, "pop_swap", PopTarget(free_head)) /\ th'[t].head = free_head
  BY DEF PopRetry
<1>6. PushZeroed(t) => /\ th[t].pc = "push_zeroed" /\ th'[t].pc = "ensure_chunk"
                       /\ th'[t].idx = len
  BY DEF PushZeroed
<1>7. EnsureChunk(t) => Goes(t, "ensure_chunk", "call")
  BY DEF EnsureChunk
<1>8. LoadVersion(t) => Goes(t, "load_version", "call")
  BY DEF LoadVersion
<1>9. WriteValue(t) => Goes(t, "call", "store_ref")
  BY DEF WriteValue
<1>10. CallErr(t) => Goes(t, "call", "push_load")
  BY DEF CallErr
<1>11. CallPanics(t) => th[t].pc = "call" /\ th'[t].pc = "idle"
  BY DEF CallPanics
<1>12. StoreRef(t) => Goes(t, "store_ref", "store_version")
  BY DEF StoreRef
<1>13. StoreVersion(t) => th[t].pc = "store_version" /\ th'[t].pc = "count_up"
  BY DEF StoreVersion
<1>14. CountUp(t) => th[t].pc = "count_up" /\ th'[t].pc = "idle"
  BY DEF CountUp
<1>. QED
  BY <1>3, <1>4, <1>5, <1>6, <1>7, <1>8, <1>9, <1>10, <1>11, <1>12, <1>13, <1>14

LEMMA OtherMoves ==
  ASSUME Core, NEW t \in Thread
  PROVE  /\ AcquireSwap(t) => Goes(t, "acquire", "check")
         /\ AcquireRetry(t) => th[t].pc = "acquire" /\ th'[t].pc \in {"acquire", "idle"}
         /\ CheckVersion(t) => th[t].pc = "check" /\ th'[t].pc = "idle"
         /\ CheckFails(t) => Goes(t, "check", "undo")
         /\ UndoAcquire(t) => IF LastRef(th[t].idx) THEN Goes(t, "undo", "drop_value")
                              ELSE th[t].pc = "undo" /\ th'[t].pc = "idle"
         /\ RemoveSwap(t) => Goes(t, "rem_swap", "rem_dec")
         /\ RemoveFails(t) => th[t].pc = "rem_swap" /\ th'[t].pc = "idle"
         /\ RemoveDec(t) => IF LastRef(th[t].idx) THEN Goes(t, "rem_dec", "drop_value")
                            ELSE Goes(t, "rem_dec", "count_down")
         /\ CountDown(t) => th[t].pc = "count_down" /\ th'[t].pc = "idle"
         /\ DropValue(t) => Goes(t, "drop_value", "push_load")
         /\ DropValuePanics(t) => th[t].pc = "drop_value" /\ th'[t].pc = "idle"
         /\ PushLoad(t) => Goes(t, "push_load", "push_next") /\ th'[t].head = free_head
         /\ PushStoreNext(t) => /\ Goes(t, "push_next", "push_swap")
                                /\ th'[t].head = th[t].head
         /\ PushSwap(t) => th[t].pc = "push_swap" /\ th'[t].pc \in {"count_down", "idle"}
         /\ PushRetry(t) => Goes(t, "push_swap", "push_next") /\ th'[t].head = free_head
<1>1. th \in [Thread -> ThreadState] /\ th[t] \in ThreadState  BY DEF Core, TypeOK
<1>2. ASSUME NEW r, Become(t, r)  PROVE th'[t] = r
  BY <1>1, <1>2 DEF Become
<1>. USE <1>1, <1>2 DEF Goes, At, Return, Idle, ThreadState
<1>3. AcquireSwap(t) => Goes(t, "acquire", "check")
  BY DEF AcquireSwap
<1>4. AcquireRetry(t) => th[t].pc = "acquire" /\ th'[t].pc \in {"acquire", "idle"}
  BY DEF AcquireRetry
<1>5. CheckVersion(t) => th[t].pc = "check" /\ th'[t].pc = "idle"
  BY DEF CheckVersion
<1>6. CheckFails(t) => Goes(t, "check", "undo")
  BY DEF CheckFails
<1>7. UndoAcquire(t) => IF LastRef(th[t].idx) THEN Goes(t, "undo", "drop_value")
                        ELSE th[t].pc = "undo" /\ th'[t].pc = "idle"
  BY DEF UndoAcquire
<1>8. RemoveSwap(t) => Goes(t, "rem_swap", "rem_dec")
  BY DEF RemoveSwap
<1>9. RemoveFails(t) => th[t].pc = "rem_swap" /\ th'[t].pc = "idle"
  BY DEF RemoveFails
<1>10. RemoveDec(t) => IF LastRef(th[t].idx) THEN Goes(t, "rem_dec", "drop_value")
                       ELSE Goes(t, "rem_dec", "count_down")
  BY DEF RemoveDec
<1>11. CountDown(t) => th[t].pc = "count_down" /\ th'[t].pc = "idle"
  BY DEF CountDown
<1>12. DropValue(t) => Goes(t, "drop_value", "push_load")
  BY DEF DropValue
<1>13. DropValuePanics(t) => th[t].pc = "drop_value" /\ th'[t].pc = "idle"
  BY DEF DropValuePanics
<1>14. PushLoad(t) => Goes(t, "push_load", "push_next") /\ th'[t].head = free_head
  BY DEF PushLoad
<1>15. PushStoreNext(t) => Goes(t, "push_next", "push_swap") /\ th'[t].head = th[t].head
  BY DEF PushStoreNext
<1>16. PushSwap(t) => th[t].pc = "push_swap" /\ th'[t].pc \in {"count_down", "idle"}
  <2>1. PushSwap(t) => /\ th[t].pc = "push_swap"
                       /\ th'[t] = IF th[t].op = "remove"
                                   THEN [Idle EXCEPT !.pc = "count_down", !.op = "remove"]
                                   ELSE Idle
    BY DEF PushSwap
  <2>2. /\ [Idle EXCEPT !.pc = "count_down", !.op = "remove"].pc = "count_down"
        /\ Idle.pc = "idle"
    OBVIOUS
  <2>3. CASE th[t].op = "remove"  BY <2>1, <2>2, <2>3
  <2>4. CASE th[t].op # "remove"  BY <2>1, <2>2, <2>4
  <2>. QED  BY <2>3, <2>4
<1>17. PushRetry(t) => Goes(t, "push_swap", "push_next") /\ th'[t].head = free_head
  BY DEF PushRetry
<1>. QED
  BY <1>3, <1>4, <1>5, <1>6, <1>7, <1>8, <1>9, <1>10, <1>11, <1>12, <1>13, <1>14,
     <1>15, <1>16, <1>17

LEMMA CallMoves ==
  ASSUME Core, NEW t \in Thread
  PROVE  /\ \A v \in Value : BeginInsert(t, v) =>
              Goes(t, "idle", PopTarget(free_head)) /\ th'[t].head = free_head
         /\ \A k \in Key, g \in Guard : BeginGet(t, k, g) =>
              th[t].pc = "idle" /\ th'[t].pc = "acquire"
         /\ \A k \in Key : BeginRemove(t, k) => th[t].pc = "idle" /\ th'[t].pc = "rem_swap"
         /\ \A g \in Guard : DropGuard(t, g) =>
              IF LastRef(guard[g].idx)
              THEN /\ th[t].pc = "idle" /\ th'[t].pc = "drop_value"
                   /\ th'[t].idx = guard[g].idx
              ELSE Goes(t, "idle", "idle")
<1>1. th \in [Thread -> ThreadState] /\ th[t] \in ThreadState  BY DEF Core, TypeOK
<1>2. ASSUME NEW r, Become(t, r)  PROVE th'[t] = r
  BY <1>1, <1>2 DEF Become
<1>. USE <1>1, <1>2 DEF Goes, At, ThreadState
<1>3. ASSUME NEW v \in Value, BeginInsert(t, v)
      PROVE  Goes(t, "idle", PopTarget(free_head)) /\ th'[t].head = free_head
  BY <1>3 DEF BeginInsert
<1>4. ASSUME NEW k \in Key, NEW g \in Guard, BeginGet(t, k, g)
      PROVE  th[t].pc = "idle" /\ th'[t].pc = "acquire"
  BY <1>4 DEF BeginGet
<1>5. ASSUME NEW k \in Key, BeginRemove(t, k)
      PROVE  th[t].pc = "idle" /\ th'[t].pc = "rem_swap"
  BY <1>5 DEF BeginRemove
<1>6. ASSUME NEW g \in Guard, DropGuard(t, g), LastRef(guard[g].idx)
      PROVE  /\ th[t].pc = "idle" /\ th'[t].pc = "drop_value"
             /\ th'[t].idx = guard[g].idx
  BY <1>6 DEF DropGuard
<1>7. ASSUME NEW g \in Guard, DropGuard(t, g), ~LastRef(guard[g].idx)
      PROVE  Goes(t, "idle", "idle")
  BY <1>7 DEF DropGuard
<1>. QED  BY <1>3, <1>4, <1>5, <1>6, <1>7

----------------------------------------------------------------------------
(* The exactness of the reference counts *)

LEMMA RefStep ==
  ASSUME Core, NEW t \in Thread, Call(t) \/ Step(t)
  PROVE  RefCountExact'
<1>1. /\ th \in [Thread -> ThreadState] /\ th[t] \in ThreadState /\ th[t].idx \in Slot
      /\ ref_count \in [Slot -> Nat] /\ version \in [Slot -> Version]
      /\ guard \in [Guard -> Key \cup {None}]
  BY DEF Core, TypeOK, ThreadState
<1>. SUFFICES ASSUME NEW s \in Slot
              PROVE  ref_count'[s] = MapRef(s)' + Cardinality(RefGuards(s))'
                                               + Cardinality(RefThreads(s))'
  BY DEF RefCountExact
<1>. DEFINE Counts(pc, idx) == IF pc \in RefPC /\ idx = s THEN 1 ELSE 0
            cg == Cardinality(RefGuards(s))
            ct == Cardinality(RefThreads(s))
<1>. SUFFICES ref_count'[s] = MapRef(s)' + cg' + ct'  OBVIOUS
<1>2. /\ ct \in Nat
      /\ ct' = ct - Counts(th[t].pc, th[t].idx) + Counts(th'[t].pc, th'[t].idx)
  BY ThreadRefs, Others
<1>3. cg \in Nat
  BY SlotMapAssumption, FS_Subset, FS_CardinalityType DEF RefGuards
<1>4. ref_count[s] = MapRef(s) + cg + ct  BY DEF Core, RefCountExact
<1>5. guard' = guard => cg' = cg  BY DEF RefGuards
<1>6. version' = version => MapRef(s)' = MapRef(s)  BY DEF MapRef, Occupied
<1>7. MapRef(s) \in Nat  BY DEF MapRef
<1>. HIDE DEF cg, ct
\* Steps that touch neither a count, a version nor a guard, and whose thread
\* holds the same reference before and after.
<1>8. ASSUME UNCHANGED <<ref_count, version, guard>>,
             Counts(th[t].pc, th[t].idx) = Counts(th'[t].pc, th'[t].idx)
      PROVE  ref_count'[s] = MapRef(s)' + cg' + ct'
  BY <1>2, <1>3, <1>4, <1>5, <1>6, <1>7, <1>8
<1>. USE DEF vecVars, slotVars, mapVars, history, lossVars
<1>10. CASE PopStep(t) \/ PushZeroed(t) \/ EnsureChunk(t) \/ LoadVersion(t)
            \/ WriteValue(t) \/ CallErr(t) \/ CallPanics(t) \/ CountUp(t)
  <2>1. UNCHANGED <<ref_count, version, guard>>
    BY <1>10 DEF PopStep, PopReadNext, PopSwap, PopRetry, PushZeroed, EnsureChunk,
                 LoadVersion, WriteValue, CallErr, CallPanics, CountUp
  <2>2. th[t].pc \notin RefPC /\ th'[t].pc \notin RefPC
    BY <1>10, InsertMoves DEF PopStep, Goes, PopTarget, RefPC
  <2>. QED  BY <1>8, <2>1, <2>2
<1>11. CASE StoreRef(t)
  <2>1. Goes(t, "store_ref", "store_version")  BY <1>11, InsertMoves
  <2>2. ref_count[th[t].idx] = 0
    BY <1>1, <2>1 DEF Goes, Core, ExclusiveOwner, Owns, OwnerPC
  <2>3. /\ version' = version /\ guard' = guard
        /\ ref_count' = [ref_count EXCEPT ![th[t].idx] = 1]
    BY <1>11 DEF StoreRef
  <2>. QED  BY <1>1, <1>2, <1>3, <1>4, <1>5, <1>6, <1>7, <2>1, <2>2, <2>3 DEF Goes, RefPC
<1>12. CASE StoreVersion(t)
  <2>1. th[t].pc = "store_version" /\ th'[t].pc = "count_up"  BY <1>12, InsertMoves
  <2>2. ~Occupied(th[t].idx)
    BY <1>1, <2>1 DEF Core, ExclusiveOwner, Owns, OwnerPC
  <2>3. th[t].ver % 2 = 1  BY <2>1 DEF Core, LocalsSound
  <2>4. /\ ref_count' = ref_count /\ guard' = guard
        /\ version' = [version EXCEPT ![th[t].idx] = th[t].ver]
    BY <1>12 DEF StoreVersion
  <2>5. MapRef(s)' = MapRef(s) + (IF th[t].idx = s THEN 1 ELSE 0)
    BY <1>1, <2>2, <2>3, <2>4 DEF MapRef, Occupied
  <2>. QED  BY <1>2, <1>3, <1>4, <1>5, <1>7, <2>1, <2>4, <2>5 DEF RefPC
<1>13. CASE AcquireSwap(t)
  <2>1. Goes(t, "acquire", "check")  BY <1>13, OtherMoves
  <2>2. /\ version' = version /\ guard' = guard
        /\ ref_count' = [ref_count EXCEPT ![th[t].idx] = ref_count[th[t].idx] + 1]
    BY <1>13 DEF AcquireSwap
  <2>. QED  BY <1>1, <1>2, <1>3, <1>4, <1>5, <1>6, <1>7, <2>1, <2>2 DEF Goes, RefPC
<1>14. CASE AcquireRetry(t)
  <2>1. th[t].pc = "acquire" /\ th'[t].pc \in {"acquire", "idle"}  BY <1>14, OtherMoves
  <2>2. UNCHANGED <<ref_count, version, guard>>  BY <1>14 DEF AcquireRetry
  <2>. QED  BY <1>8, <2>1, <2>2 DEF RefPC
<1>15. CASE CheckVersion(t)
  <2>1. th[t].pc = "check" /\ th'[t].pc = "idle"  BY <1>15, OtherMoves
  <2>. DEFINE g == th[t].out  k == [idx |-> th[t].idx, ver |-> th[t].ver]
  <2>2. g \in Guard /\ guard[g] = None
    BY <1>1, <2>1 DEF Core, GuardsReserved, ThreadState
  <2>3. k \in Key
    BY <1>1, <2>1 DEF Core, LocalsSound, Key, ThreadState
  <2>4. ref_count' = ref_count /\ version' = version /\ guard' = [guard EXCEPT ![g] = k]
    BY <1>15 DEF CheckVersion
  <2>5. k.idx = th[t].idx /\ k # None  BY <2>3, SlotMapAssumption
  <2>. HIDE DEF g, k
  <2>6. cg' = cg + (IF th[t].idx = s THEN 1 ELSE 0)
    <3>1. guard'[g] = k /\ \A h \in Guard \ {g} : guard'[h] = guard[h]
      BY <1>1, <2>2, <2>4
    <3>. QED  BY <3>1, <2>2, <2>5, GuardRefs, <1>3 DEF cg
  <2>. QED  BY <1>2, <1>3, <1>4, <1>6, <1>7, <2>1, <2>4, <2>6 DEF RefPC
<1>16. CASE CheckFails(t)
  <2>1. Goes(t, "check", "undo")  BY <1>16, OtherMoves
  <2>2. UNCHANGED <<ref_count, version, guard>>  BY <1>16 DEF CheckFails
  <2>. QED  BY <1>8, <2>1, <2>2 DEF Goes, RefPC
<1>17. CASE UndoAcquire(t) \/ RemoveDec(t)
  <2>1. /\ th[t].pc \in {"undo", "rem_dec"}
        /\ th'[t].pc \in {"drop_value", "count_down", "idle"}
    BY <1>17, OtherMoves DEF Goes
  <2>2. /\ version' = version /\ guard' = guard
        /\ ref_count' = [ref_count EXCEPT ![th[t].idx] = ref_count[th[t].idx] - 1]
    BY <1>17 DEF UndoAcquire, RemoveDec, DecRefCount
  <2>. QED  BY <1>1, <1>2, <1>3, <1>4, <1>5, <1>6, <1>7, <2>1, <2>2 DEF RefPC
<1>18. CASE RemoveSwap(t)
  <2>1. Goes(t, "rem_swap", "rem_dec")  BY <1>18, OtherMoves
  <2>2. /\ ref_count' = ref_count /\ guard' = guard /\ version[th[t].idx] % 2 = 1
        /\ version' = [version EXCEPT ![th[t].idx] = (version[th[t].idx] + 1) % VersionMod]
    BY <1>18, <2>1 DEF RemoveSwap, Goes, Core, LocalsSound
  <2>3. ((version[th[t].idx] + 1) % VersionMod) % 2 = 0  BY <1>1, <2>2, Unoccupy
  <2>4. MapRef(s)' = MapRef(s) - (IF th[t].idx = s THEN 1 ELSE 0)
    BY <1>1, <2>2, <2>3 DEF MapRef, Occupied
  <2>. QED  BY <1>2, <1>3, <1>4, <1>5, <1>7, <2>1, <2>2, <2>4 DEF Goes, RefPC
<1>19. CASE RemoveFails(t) \/ CountDown(t) \/ DropStep(t) \/ PushStep(t)
  <2>1. UNCHANGED <<ref_count, version, guard>>
    BY <1>19 DEF RemoveFails, CountDown, DropStep, DropValue, DropValuePanics, PushStep,
                 PushLoad, PushStoreNext, PushSwap, PushRetry
  <2>2. th[t].pc \notin RefPC /\ th'[t].pc \notin RefPC
    BY <1>19, OtherMoves DEF DropStep, PushStep, Goes, RefPC
  <2>. QED  BY <1>8, <2>1, <2>2
<1>20. ASSUME NEW g \in Guard, DropGuard(t, g)
       PROVE  ref_count'[s] = MapRef(s)' + cg' + ct'
  <2>1. th[t].pc = "idle" /\ th'[t].pc \in {"drop_value", "idle"}
    BY <1>20, CallMoves DEF Goes
  <2>2. /\ version' = version /\ guard' = [guard EXCEPT ![g] = None]
        /\ ref_count' = [ref_count EXCEPT ![guard[g].idx] = ref_count[guard[g].idx] - 1]
        /\ guard[g] # None
    BY <1>20 DEF DropGuard, DecRefCount
  <2>3. cg' = cg - (IF guard[g].idx = s THEN 1 ELSE 0)
    <3>1. guard'[g] = None /\ \A h \in Guard \ {g} : guard'[h] = guard[h]
      BY <1>1, <2>2
    <3>. QED  BY <3>1, <2>2, GuardRefs, <1>3 DEF cg
  <2>4. guard[g].idx \in Slot  BY <1>1, <2>2 DEF Key
  <2>. QED  BY <1>1, <1>2, <1>3, <1>4, <1>6, <1>7, <2>1, <2>2, <2>3, <2>4 DEF RefPC
<1>21. CASE (\E v \in Value : BeginInsert(t, v))
            \/ (\E k \in Key, g \in Guard : BeginGet(t, k, g))
            \/ (\E k \in Key : BeginRemove(t, k))
  <2>1. UNCHANGED <<ref_count, version, guard>>
    BY <1>21 DEF BeginInsert, BeginGet, BeginRemove
  <2>2. th[t].pc \notin RefPC /\ th'[t].pc \notin RefPC
    BY <1>21, CallMoves DEF Goes, PopTarget, RefPC
  <2>. QED  BY <1>8, <2>1, <2>2
<1>. QED
  BY <1>10, <1>11, <1>12, <1>13, <1>14, <1>15, <1>16, <1>17, <1>18, <1>19, <1>20, <1>21
  DEF Call, Step, InsertStep, GetStep, RemoveStep

----------------------------------------------------------------------------
(* Guards in hand *)

\* No step of a call takes another guard in hand.
LEMMA OutMoves ==
  ASSUME Core, NEW t \in Thread, Step(t)
  PROVE  /\ th'[t].out \in {th[t].out, None}
         /\ th'[t].pc \in {"acquire", "check"} =>
              th[t].pc \in {"acquire", "check"} /\ th'[t].out = th[t].out
<1>1. th \in [Thread -> ThreadState] /\ th[t] \in ThreadState  BY DEF Core, TypeOK
<1>2. ASSUME NEW r, Become(t, r)  PROVE th'[t] = r
  BY <1>1, <1>2 DEF Become
<1>3. \A p : [th[t] EXCEPT !.pc = p].out = th[t].out  BY <1>1 DEF ThreadState
<1>4. Idle.out = None /\ Idle.pc = "idle"  BY DEF Idle
<1>. USE <1>1, <1>2, <1>3, <1>4
<1>5. CASE PopStep(t)
  <2>1. CASE PopReadNext(t)
    <3>1. th'[t].out = th[t].out  BY <2>1 DEF PopReadNext, ThreadState
    <3>. QED  BY <3>1, <2>1, InsertMoves DEF Goes
  <2>2. CASE PopSwap(t)
    <3>1. th'[t].out = th[t].out  BY <2>2 DEF PopSwap, ThreadState
    <3>. QED  BY <3>1, <2>2, InsertMoves
  <2>3. CASE PopRetry(t)
    <3>1. th'[t].out = th[t].out  BY <2>3 DEF PopRetry, ThreadState
    <3>. QED  BY <3>1, <2>3, InsertMoves DEF Goes, PopTarget
  <2>. QED  BY <1>5, <2>1, <2>2, <2>3 DEF PopStep
<1>6. CASE PushZeroed(t) \/ LoadVersion(t) \/ CallErr(t)
  <2>1. th'[t].out = th[t].out
    <3>1. CASE PushZeroed(t)  BY <3>1 DEF PushZeroed, ThreadState
    <3>2. CASE LoadVersion(t)  BY <3>2 DEF LoadVersion, ThreadState
    <3>3. CASE CallErr(t)  BY <3>3 DEF CallErr, ThreadState
    <3>. QED  BY <1>6, <3>1, <3>2, <3>3
  <2>. QED  BY <2>1, <1>6, InsertMoves DEF Goes
<1>7. CASE EnsureChunk(t) \/ WriteValue(t) \/ StoreRef(t)
  <2>1. th'[t].out = th[t].out  BY <1>7 DEF EnsureChunk, WriteValue, StoreRef
  <2>. QED  BY <2>1, <1>7, InsertMoves DEF Goes
<1>8. CASE CallPanics(t) \/ CountUp(t)
  <2>1. th'[t].out = None  BY <1>8 DEF CallPanics, CountUp, Return
  <2>. QED  BY <2>1, <1>8, InsertMoves
<1>9. CASE StoreVersion(t)
  <2>1. th'[t].out = None  BY <1>9 DEF StoreVersion, Idle
  <2>. QED  BY <2>1, <1>9, InsertMoves
<1>10. CASE AcquireSwap(t)
  <2>1. th'[t].out = th[t].out  BY <1>10 DEF AcquireSwap, ThreadState
  <2>. QED  BY <2>1, <1>10, OtherMoves DEF Goes
<1>11. CASE AcquireRetry(t)
  <2>1. CASE Acquirable(ref_count[th[t].idx])
    <3>1. th'[t].out = th[t].out  BY <1>11, <2>1 DEF AcquireRetry, ThreadState
    <3>. QED  BY <3>1, <1>11, OtherMoves
  <2>2. CASE ~Acquirable(ref_count[th[t].idx])
    BY <1>11, <2>2 DEF AcquireRetry, Return
  <2>. QED  BY <2>1, <2>2
<1>12. CASE CheckVersion(t) \/ RemoveFails(t) \/ CountDown(t) \/ DropValuePanics(t)
  <2>1. th'[t] = Idle
    BY <1>12 DEF CheckVersion, RemoveFails, CountDown, DropValuePanics, Return
  <2>. QED  BY <2>1
<1>13. CASE CheckFails(t)
  <2>1. th'[t].out = None  BY <1>13 DEF CheckFails, ThreadState
  <2>. QED  BY <2>1, <1>13, OtherMoves DEF Goes
<1>14. CASE UndoAcquire(t)
  <2>1. th'[t].out \in {th[t].out, None}  BY <1>14 DEF UndoAcquire, Return
  <2>. QED  BY <2>1, <1>14, OtherMoves DEF Goes
<1>15. CASE RemoveSwap(t) \/ PushLoad(t) \/ PushRetry(t)
  <2>1. th'[t].out = th[t].out
    <3>1. CASE RemoveSwap(t)  BY <3>1 DEF RemoveSwap, ThreadState
    <3>2. CASE PushLoad(t)  BY <3>2 DEF PushLoad, ThreadState
    <3>3. CASE PushRetry(t)  BY <3>3 DEF PushRetry, ThreadState
    <3>. QED  BY <1>15, <3>1, <3>2, <3>3
  <2>. QED  BY <2>1, <1>15, OtherMoves DEF Goes
<1>16. CASE RemoveDec(t) \/ DropValue(t) \/ PushStoreNext(t)
  <2>1. th'[t].out = th[t].out  BY <1>16 DEF RemoveDec, DropValue, PushStoreNext
  <2>. QED  BY <2>1, <1>16, OtherMoves DEF Goes
<1>17. CASE PushSwap(t)
  <2>1. th'[t] = IF th[t].op = "remove"
                 THEN [Idle EXCEPT !.pc = "count_down", !.op = "remove"] ELSE Idle
    BY <1>17 DEF PushSwap
  <2>2. [Idle EXCEPT !.pc = "count_down", !.op = "remove"].out = None  BY DEF Idle
  <2>3. th'[t].out = None
    <3>1. CASE th[t].op = "remove"  BY <2>1, <2>2, <3>1
    <3>2. CASE th[t].op # "remove"  BY <2>1, <3>2
    <3>. QED  BY <3>1, <3>2
  <2>. QED  BY <2>3, <1>17, OtherMoves
<1>. QED
  BY <1>5, <1>6, <1>7, <1>8, <1>9, <1>10, <1>11, <1>12, <1>13, <1>14, <1>15, <1>16,
     <1>17
  DEF Step, InsertStep, GetStep, RemoveStep, PushStep, DropStep

LEMMA ReservedStep ==
  ASSUME Core, NEW t \in Thread, Call(t) \/ Step(t)
  PROVE  GuardsReserved'
<1>1. /\ th \in [Thread -> ThreadState] /\ th[t] \in ThreadState /\ GuardsReserved
      /\ guard \in [Guard -> Key \cup {None}]
  BY DEF Core, TypeOK
<1>2. \A u \in Thread \ {t} : th'[u] = th[u]  BY Others
<1>3. ASSUME NEW r, Become(t, r)  PROVE th'[t] = r
  BY <1>1, <1>3 DEF Become
<1>. USE DEF vecVars, slotVars, mapVars, history, lossVars
<1>4. CASE Step(t) /\ guard' = guard
  BY <1>1, <1>2, <1>4, OutMoves DEF GuardsReserved
<1>5. CASE CheckVersion(t)
  <2>1. th'[t].out = None /\ th'[t].pc = "idle"
    BY <1>3, <1>5 DEF CheckVersion, Return, Idle
  <2>2. \A h \in Guard : h # th[t].out => guard'[h] = guard[h]
    BY <1>1, <1>5 DEF CheckVersion
  <2>3. \A u \in Thread \ {t} : th[u].out # None => th[u].out # th[t].out /\ th[u].out \in Guard
    BY <1>1 DEF GuardsReserved, ThreadState
  <2>. QED  BY <1>1, <1>2, <2>1, <2>2, <2>3 DEF GuardsReserved
<1>6. ASSUME NEW v \in Value, BeginInsert(t, v)  PROVE GuardsReserved'
  <2>1. th'[t].out = th[t].out  BY <1>1, <1>3, <1>6 DEF BeginInsert, ThreadState
  <2>2. th'[t].pc \notin {"acquire", "check"}
    BY <1>6, CallMoves DEF Goes, PopTarget
  <2>3. guard' = guard  BY <1>6 DEF BeginInsert
  <2>. QED  BY <1>1, <1>2, <2>1, <2>2, <2>3 DEF GuardsReserved
<1>7. ASSUME NEW k \in Key, NEW g \in Guard, BeginGet(t, k, g)  PROVE GuardsReserved'
  <2>1. th'[t].out = g  BY <1>1, <1>3, <1>7 DEF BeginGet, ThreadState
  <2>2. guard' = guard /\ Unused(g)  BY <1>7 DEF BeginGet
  <2>. QED  BY <1>1, <1>2, <2>1, <2>2, SlotMapAssumption DEF GuardsReserved, Unused
<1>8. ASSUME NEW k \in Key, BeginRemove(t, k)  PROVE GuardsReserved'
  <2>1. th'[t].out = th[t].out  BY <1>1, <1>3, <1>8 DEF BeginRemove, ThreadState
  <2>2. th'[t].pc \notin {"acquire", "check"}  BY <1>8, CallMoves
  <2>3. guard' = guard  BY <1>8 DEF BeginRemove
  <2>. QED  BY <1>1, <1>2, <2>1, <2>2, <2>3 DEF GuardsReserved
<1>9. ASSUME NEW g \in Guard, DropGuard(t, g)  PROVE GuardsReserved'
  <2>1. th'[t].out \in {g, th[t].out}
    <3>1. CASE LastRef(guard[g].idx)  BY <1>1, <1>3, <1>9, <3>1 DEF DropGuard, ThreadState
    <3>2. CASE ~LastRef(guard[g].idx)  BY <1>1, <1>3, <1>9, <3>2 DEF DropGuard
    <3>. QED  BY <3>1, <3>2
  <2>2. th'[t].pc \notin {"acquire", "check"}  BY <1>9, CallMoves DEF Goes
  <2>3. guard[g] # None /\ guard' = [guard EXCEPT ![g] = None]  BY <1>9 DEF DropGuard
  <2>4. guard'[g] = None /\ \A h \in Guard : guard[h] = None => guard'[h] = None
    BY <1>1, <2>3
  <2>5. \A u \in Thread : th[u].out # g  BY <1>1, <2>3, SlotMapAssumption DEF GuardsReserved
  <2>6. \A u \in Thread : th[u].out \in Guard \cup {None}  BY <1>1 DEF ThreadState
  <2>. QED  BY <1>1, <1>2, <2>1, <2>2, <2>4, <2>5, <2>6 DEF GuardsReserved
<1>10. Step(t) => CheckVersion(t) \/ guard' = guard
  BY DEF Step, InsertStep, PopStep, GetStep, RemoveStep, PushStep, DropStep, PopReadNext,
         PopSwap, PopRetry, PushZeroed, EnsureChunk, LoadVersion, WriteValue, CallErr,
         CallPanics, StoreRef, StoreVersion, CountUp, AcquireSwap, AcquireRetry,
         CheckFails, UndoAcquire, RemoveSwap, RemoveFails, RemoveDec, CountDown,
         DropValue, DropValuePanics, PushLoad, PushStoreNext, PushSwap, PushRetry
<1>. QED  BY <1>4, <1>5, <1>6, <1>7, <1>8, <1>9, <1>10 DEF Call

----------------------------------------------------------------------------
(* Ownership *)

\* Whoever takes the last reference of a slot away is alone with it.
LEMMA LastReference ==
  ASSUME Core, NEW s \in Slot, ref_count[s] = 1,
         \/ RefGuards(s) # {}
         \/ \E t \in RefThreads(s) : th[t].pc # "store_version"
  PROVE  /\ s < len /\ ~Occupied(s) /\ ~OnFreeList(s)
         /\ \A u \in Thread : ~Owns(u, s)
<1>1. /\ \A t, u \in RefThreads(s) : t = u
      /\ RefThreads(s) # {} => ~Occupied(s) /\ RefGuards(s) = {}
      /\ RefGuards(s) # {} => ~Occupied(s)
  BY Referenced DEF Core
<1>2. s < len  BY SlotMapAssumption DEF Core, LocalsSound, TypeOK, Slot
<1>3. ~OnFreeList(s)  BY DEF Core, FreeListSound, OnFreeList
<1>4. ASSUME NEW u \in Thread, Owns(u, s)  PROVE FALSE
  <2>1. th[u].pc = "store_version"  BY <1>4 DEF Core, ExclusiveOwner
  <2>2. u \in RefThreads(s)  BY <1>4, <2>1 DEF Owns, RefThreads, RefPC
  <2>. QED  BY <1>1, <2>1, <2>2
<1>5. ~Occupied(s)  BY <1>1
<1>. QED  BY <1>2, <1>3, <1>4, <1>5

\* An exchange that succeeds found the head it had read, tag and index.
LEMMA SameHead ==
  ASSUME Core, NoTagWrap, NEW t \in Thread, th[t].pc \in {"pop_swap", "push_swap"},
         SameWord(free_head, th[t].head)
  PROVE  th[t].head = free_head
<1>1. /\ th[t] \in ThreadState /\ free_head \in FreeHead /\ th[t].head \in FreeHead
  BY DEF Core, TypeOK, ThreadState
<1>2. /\ th[t].head.tag <= free_head.tag
      /\ th[t].head.tag = free_head.tag => th[t].head.idx = free_head.idx
  BY DEF Core, ReadsCurrent
<1>3. th[t].head.tag = free_head.tag
  <2>1. \A n \in Nat : n < TagMod => n % TagMod = n  BY SlotMapAssumption
  <2>2. /\ th[t].head.tag \in Nat /\ free_head.tag \in Nat /\ TagMod \in Nat
    BY <1>1, SlotMapAssumption DEF FreeHead
  <2>3. th[t].head.tag < TagMod /\ free_head.tag < TagMod
    BY <1>2, <2>2 DEF NoTagWrap
  <2>. QED  BY <2>1, <2>2, <2>3 DEF SameWord
<1>. QED  BY <1>1, <1>2, <1>3 DEF FreeHead

\* What a pop exchanges is the top of the free list, and its successor.
LEMMA PopIsTop ==
  ASSUME Core, NoTagWrap, NEW t \in Thread, PopSwap(t)
  PROVE  /\ th[t].head = free_head
         /\ th[t].head.idx \in Slot
         /\ th[t].next = next_free[th[t].head.idx]
         /\ Len(stack) \in Nat /\ Len(stack) >= 1
         /\ th[t].head.idx = stack[Len(stack)]
<1>1. /\ th[t] \in ThreadState /\ free_head \in FreeHead /\ th[t].head \in FreeHead
      /\ stack \in Seq(Slot) /\ th[t].pc = "pop_swap"
  BY DEF Core, TypeOK, ThreadState, PopSwap, At
<1>2. /\ th[t].head.idx # SENTINEL
      /\ th[t].head.tag = free_head.tag => th[t].next = next_free[th[t].head.idx]
  BY <1>1 DEF Core, ReadsCurrent
<1>4. th[t].head = free_head  BY <1>1, SameHead DEF PopSwap
<1>5. th[t].head.idx \in Slot  BY <1>1, <1>2 DEF FreeHead
<1>6. stack # <<>> /\ free_head.idx = stack[Len(stack)]
  BY <1>2, <1>4 DEF Core, FreeListSound
<1>7. Len(stack) \in Nat /\ Len(stack) >= 1  BY <1>1, <1>6
<1>. QED  BY <1>2, <1>4, <1>5, <1>6, <1>7

\* What stays on the list when its top is popped.
LEMMA Popped ==
  ASSUME Core, Len(stack) >= 1, stack' = SubSeq(stack, 1, Len(stack) - 1)
  PROVE  /\ stack' \in Seq(Slot) /\ Len(stack') = Len(stack) - 1
         /\ \A i \in 1 .. Len(stack) - 1 : stack'[i] = stack[i]
         /\ \A s \in Slot : OnFreeList(s)' <=> OnFreeList(s) /\ s # stack[Len(stack)]
<1>1. stack \in Seq(Slot) /\ Len(stack) \in Nat  BY DEF Core, TypeOK
<1>2. /\ stack' \in Seq(Slot) /\ Len(stack') = Len(stack) - 1
      /\ \A i \in 1 .. Len(stack) - 1 : stack'[i] = stack[i]
  <2>. DEFINE n == Len(stack) - 1
  <2>1. n \in 0 .. Len(stack)  BY <1>1
  <2>. HIDE DEF n
  <2>2. \A i \in 1 .. n : stack[i] \in Slot  BY <1>1, <2>1
  <2>3. /\ SubSeq(stack, 1, n) \in Seq(Slot)
        /\ Len(SubSeq(stack, 1, n)) = IF 1 <= n THEN n - 1 + 1 ELSE 0
        /\ \A i \in 1 .. n - 1 + 1 : SubSeq(stack, 1, n)[i] = stack[1 + i - 1]
    BY <2>1, <2>2, SubSeqProperties
  <2>4. /\ Len(SubSeq(stack, 1, n)) = n
        /\ \A i \in 1 .. n : SubSeq(stack, 1, n)[i] = stack[i]
    BY <1>1, <2>1, <2>3
  <2>5. stack' = SubSeq(stack, 1, n)  BY DEF n
  <2>. QED  BY <2>3, <2>4, <2>5 DEF n
<1>3. \A i, j \in 1 .. Len(stack) : stack[i] = stack[j] => i = j
  BY DEF Core, FreeListSound
<1>4. \A s \in Slot : OnFreeList(s)' <=> OnFreeList(s) /\ s # stack[Len(stack)]
  BY <1>1, <1>2, <1>3 DEF OnFreeList
<1>. QED  BY <1>2, <1>4

\* What is on the list when a slot is pushed.
LEMMA Pushed ==
  ASSUME Core, NEW p \in Slot, stack' = Append(stack, p)
  PROVE  /\ Len(stack') = Len(stack) + 1 /\ stack'[Len(stack) + 1] = p
         /\ \A i \in 1 .. Len(stack) : stack'[i] = stack[i]
         /\ \A s \in Slot : OnFreeList(s)' <=> OnFreeList(s) \/ s = p
<1>1. stack \in Seq(Slot) /\ Len(stack) \in Nat  BY DEF Core, TypeOK
<1>2. /\ Len(stack') = Len(stack) + 1 /\ stack'[Len(stack) + 1] = p
      /\ \A i \in 1 .. Len(stack) : stack'[i] = stack[i]
  BY <1>1
<1>. QED  BY <1>1, <1>2 DEF OnFreeList

\* The steps that write neither a count, a version, the length nor the list, and
\* make no thread an owner.
QuietStep(t) ==
  /\ UNCHANGED <<ref_count, version, len, stack>>
  /\ th'[t].pc \in OwnerPC => /\ th[t].pc \in OwnerPC \ {"store_version"}
                             /\ th'[t].idx = th[t].idx

LEMMA Quiet ==
  ASSUME Core, NEW t \in Thread,
         \/ \E v \in Value : BeginInsert(t, v)
         \/ \E k \in Key, g \in Guard : BeginGet(t, k, g)
         \/ \E k \in Key : BeginRemove(t, k)
         \/ PopReadNext(t) \/ PopRetry(t) \/ EnsureChunk(t) \/ LoadVersion(t)
         \/ WriteValue(t) \/ CallErr(t) \/ CallPanics(t) \/ CountUp(t)
         \/ AcquireRetry(t) \/ CheckVersion(t) \/ CheckFails(t)
         \/ RemoveFails(t) \/ CountDown(t) \/ DropStep(t)
         \/ PushLoad(t) \/ PushStoreNext(t) \/ PushRetry(t)
  PROVE  QuietStep(t)
<1>. USE DEF vecVars, slotVars, mapVars, history, lossVars
<1>1. CASE \/ \E v \in Value : BeginInsert(t, v)
           \/ \E k \in Key, g \in Guard : BeginGet(t, k, g)
           \/ \E k \in Key : BeginRemove(t, k)
  <2>1. UNCHANGED <<ref_count, version, len, stack>>
    BY <1>1 DEF BeginInsert, BeginGet, BeginRemove
  <2>2. th'[t].pc \notin OwnerPC  BY <1>1, CallMoves DEF Goes, PopTarget, OwnerPC
  <2>. QED  BY <2>1, <2>2 DEF QuietStep
<1>2. CASE PopReadNext(t) \/ PopRetry(t) \/ EnsureChunk(t) \/ LoadVersion(t)
           \/ WriteValue(t) \/ CallErr(t) \/ CallPanics(t) \/ CountUp(t)
  <2>1. UNCHANGED <<ref_count, version, len, stack>>
    BY <1>2 DEF PopReadNext, PopRetry, EnsureChunk, LoadVersion, WriteValue, CallErr,
                CallPanics, CountUp
  <2>2. th'[t].pc \in OwnerPC => /\ th[t].pc \in OwnerPC \ {"store_version"}
                                /\ th'[t].idx = th[t].idx
    BY <1>2, InsertMoves DEF Goes, PopTarget, OwnerPC
  <2>. QED  BY <2>1, <2>2 DEF QuietStep
<1>3. CASE AcquireRetry(t) \/ CheckVersion(t) \/ CheckFails(t)
           \/ RemoveFails(t) \/ CountDown(t) \/ DropStep(t)
           \/ PushLoad(t) \/ PushStoreNext(t) \/ PushRetry(t)
  <2>1. UNCHANGED <<ref_count, version, len, stack>>
    BY <1>3 DEF AcquireRetry, CheckVersion, CheckFails, RemoveFails, CountDown, DropStep,
                DropValue, DropValuePanics, PushLoad, PushStoreNext, PushRetry
  <2>2. th'[t].pc \in OwnerPC => /\ th[t].pc \in OwnerPC \ {"store_version"}
                                /\ th'[t].idx = th[t].idx
    BY <1>3, OtherMoves DEF Goes, DropStep, OwnerPC
  <2>. QED  BY <2>1, <2>2 DEF QuietStep
<1>. QED  BY <1>1, <1>2, <1>3

\* A slot whose count or version a step writes is below len and not on the list,
\* and it is owned by the thread itself or referenced.
LEMMA OwnerStep ==
  ASSUME Core, NoTagWrap, NEW t \in Thread, Call(t) \/ Step(t)
  PROVE  ExclusiveOwner'
<1>1. /\ th \in [Thread -> ThreadState] /\ th[t] \in ThreadState /\ th[t].idx \in Slot
      /\ ref_count \in [Slot -> Nat] /\ version \in [Slot -> Version]
      /\ guard \in [Guard -> Key \cup {None}] /\ len \in Nat
      /\ ExclusiveOwner
  BY SlotMapAssumption DEF Core, TypeOK, ThreadState
<1>2. \A u \in Thread \ {t} : th'[u] = th[u]  BY Others
<1>3. \A u \in Thread \ {t}, s \in Slot : Owns(u, s)' <=> Owns(u, s)
  BY <1>2 DEF Owns
<1>4. CASE QuietStep(t)
  <2>1. \A s \in Slot : Owns(t, s)' => Owns(t, s) /\ th[t].pc # "store_version"
    BY <1>4 DEF QuietStep, Owns
  <2>2. \A s \in Slot : Occupied(s)' = Occupied(s) /\ OnFreeList(s)' = OnFreeList(s)
    BY <1>4 DEF QuietStep, Occupied, OnFreeList
  <2>. QED  BY <1>1, <1>2, <1>3, <1>4, <2>1, <2>2 DEF QuietStep, ExclusiveOwner
<1>. USE DEF vecVars, slotVars, mapVars, history, lossVars
<1>5. CASE PopSwap(t)
  <2>. DEFINE p == th[t].head.idx
  <2>1. p \in Slot /\ Len(stack) >= 1 /\ Len(stack) \in Nat /\ p = stack[Len(stack)]
    BY <1>5, PopIsTop
  <2>2. th[t].pc = "pop_swap" /\ th'[t].pc = "load_version" /\ th'[t].idx = p
    BY <1>5, InsertMoves
  <2>3. UNCHANGED <<ref_count, version, len>>  BY <1>5 DEF PopSwap
  <2>4. \A s \in Slot : OnFreeList(s)' <=> OnFreeList(s) /\ s # p
    BY <1>5, <2>1, Popped DEF PopSwap
  <2>5. OnFreeList(p) /\ p < len /\ ~Occupied(p) /\ ref_count[p] = 0
    BY <2>1 DEF Core, FreeListSound, OnFreeList
  <2>6. \A u \in Thread : ~Owns(u, p)  BY <1>1, <2>1, <2>5 DEF ExclusiveOwner
  <2>7. \A s \in Slot : Owns(t, s)' <=> s = p  BY <2>1, <2>2 DEF Owns, OwnerPC
  <2>8. \A s \in Slot : Occupied(s)' = Occupied(s)  BY <2>3 DEF Occupied
  <2>. HIDE DEF p
  <2>. QED
    BY <1>1, <1>2, <1>3, <2>1, <2>2, <2>3, <2>4, <2>5, <2>6, <2>7, <2>8 DEF ExclusiveOwner
<1>6. CASE PushZeroed(t)
  <2>1. th[t].pc = "push_zeroed" /\ th'[t].pc = "ensure_chunk" /\ th'[t].idx = len
    BY <1>6, InsertMoves
  <2>2. UNCHANGED <<ref_count, version, stack>> /\ len' = len + 1 /\ len \in Slot
    BY <1>1, <1>6, SlotMapAssumption DEF PushZeroed, Slot
  <2>3. version[len] = 0 /\ ref_count[len] = 0
    BY <1>1, <2>2 DEF Core, LocalsSound
  <2>4. ~OnFreeList(len) /\ \A u \in Thread : ~Owns(u, len)
    BY <1>1, <2>2 DEF Core, FreeListSound, OnFreeList, ExclusiveOwner
  <2>5. \A s \in Slot : Owns(t, s)' <=> s = len  BY <2>1, <2>2 DEF Owns, OwnerPC
  <2>6. \A s \in Slot : Occupied(s)' = Occupied(s) /\ OnFreeList(s)' = OnFreeList(s)
    BY <2>2 DEF Occupied, OnFreeList
  <2>7. ~Occupied(len)  BY <2>3 DEF Occupied
  <2>. QED
    BY <1>1, <1>2, <1>3, <2>1, <2>2, <2>3, <2>4, <2>5, <2>6, <2>7 DEF ExclusiveOwner, Slot
<1>7. CASE StoreRef(t)
  <2>1. Goes(t, "store_ref", "store_version")  BY <1>7, InsertMoves
  <2>2. /\ UNCHANGED <<version, len, stack>>
        /\ ref_count' = [ref_count EXCEPT ![th[t].idx] = 1]
    BY <1>7 DEF StoreRef
  <2>3. \A s \in Slot : Owns(t, s)' <=> Owns(t, s)  BY <2>1 DEF Goes, Owns, OwnerPC
  <2>4. \A s \in Slot : Occupied(s)' = Occupied(s) /\ OnFreeList(s)' = OnFreeList(s)
    BY <2>2 DEF Occupied, OnFreeList
  <2>5. \A u \in Thread \ {t} : ~Owns(u, th[t].idx)
    BY <1>1, <2>1 DEF ExclusiveOwner, Goes, Owns, OwnerPC
  <2>6. \A s \in Slot : s # th[t].idx => ref_count'[s] = ref_count[s]  BY <1>1, <2>2
  <2>7. th'[t].pc = "store_version" /\ \A s \in Slot : Owns(t, s) => s = th[t].idx
    BY <2>1 DEF Goes, Owns
  <2>. QED  BY <1>1, <1>2, <1>3, <2>2, <2>3, <2>4, <2>5, <2>6, <2>7 DEF ExclusiveOwner
<1>8. CASE StoreVersion(t)
  <2>1. th[t].pc = "store_version" /\ th'[t].pc = "count_up"  BY <1>8, InsertMoves
  <2>2. /\ UNCHANGED <<ref_count, len, stack>>
        /\ version' = [version EXCEPT ![th[t].idx] = th[t].ver]
    BY <1>8 DEF StoreVersion
  <2>3. \A s \in Slot : ~Owns(t, s)'  BY <2>1 DEF Owns, OwnerPC
  <2>4. \A s \in Slot : OnFreeList(s)' = OnFreeList(s)  BY <2>2 DEF OnFreeList
  <2>5. \A u \in Thread \ {t} : ~Owns(u, th[t].idx)
    BY <1>1, <2>1 DEF ExclusiveOwner, Owns, OwnerPC
  <2>6. \A s \in Slot : s # th[t].idx => Occupied(s)' = Occupied(s)
    BY <1>1, <2>2 DEF Occupied
  <2>. QED  BY <1>1, <1>2, <1>3, <2>2, <2>3, <2>4, <2>5, <2>6 DEF ExclusiveOwner
<1>9. CASE AcquireSwap(t)
  <2>1. Goes(t, "acquire", "check")  BY <1>9, OtherMoves
  <2>2. /\ UNCHANGED <<version, len, stack>>
        /\ ref_count' = [ref_count EXCEPT ![th[t].idx] = ref_count[th[t].idx] + 1]
        /\ ref_count[th[t].idx] >= 1
    BY <1>9, <2>1 DEF AcquireSwap, Goes, Core, LocalsSound
  <2>3. \A s \in Slot : ~Owns(t, s)'  BY <2>1 DEF Goes, Owns, OwnerPC
  <2>4. \A s \in Slot : Occupied(s)' = Occupied(s) /\ OnFreeList(s)' = OnFreeList(s)
    BY <2>2 DEF Occupied, OnFreeList
  <2>5. \A s \in Slot : ref_count[s] = 0 => ref_count'[s] = 0  BY <1>1, <2>2
  <2>. QED  BY <1>1, <1>2, <1>3, <2>2, <2>3, <2>4, <2>5 DEF ExclusiveOwner
<1>10. CASE UndoAcquire(t) \/ RemoveDec(t)
  <2>1. /\ th[t].pc \in {"undo", "rem_dec"}
        /\ LastRef(th[t].idx) => th'[t].pc = "drop_value" /\ th'[t].idx = th[t].idx
        /\ ~LastRef(th[t].idx) => th'[t].pc \in {"idle", "count_down"}
    BY <1>10, OtherMoves DEF Goes
  <2>2. /\ UNCHANGED <<version, len, stack>>
        /\ ref_count' = [ref_count EXCEPT ![th[t].idx] = ref_count[th[t].idx] - 1]
    BY <1>10 DEF UndoAcquire, RemoveDec, DecRefCount
  <2>3. \A s \in Slot : Occupied(s)' = Occupied(s) /\ OnFreeList(s)' = OnFreeList(s)
    BY <2>2 DEF Occupied, OnFreeList
  <2>4. t \in RefThreads(th[t].idx)  BY <2>1 DEF RefThreads, RefPC
  <2>5. ref_count[th[t].idx] \in Nat /\ ref_count[th[t].idx] >= 1
    BY <1>1, <2>4, Referenced DEF Core
  <2>6. \A s \in Slot : ref_count[s] = 0 => ref_count'[s] = 0  BY <1>1, <2>2, <2>5
  <2>7. CASE LastRef(th[t].idx)
    <3>1. /\ th[t].idx < len /\ ~Occupied(th[t].idx) /\ ~OnFreeList(th[t].idx)
          /\ \A u \in Thread : ~Owns(u, th[t].idx)
      BY <1>1, <2>1, <2>4, <2>7, LastReference DEF LastRef
    <3>2. ref_count'[th[t].idx] = 0  BY <1>1, <2>2, <2>7 DEF LastRef
    <3>3. \A s \in Slot : Owns(t, s)' <=> s = th[t].idx
      BY <1>1, <2>1, <2>7 DEF Owns, OwnerPC
    <3>. QED  BY <1>1, <1>2, <1>3, <2>2, <2>3, <2>6, <3>1, <3>2, <3>3 DEF ExclusiveOwner
  <2>8. CASE ~LastRef(th[t].idx)
    <3>1. \A s \in Slot : ~Owns(t, s)'  BY <2>1, <2>8 DEF Owns, OwnerPC
    <3>. QED  BY <1>1, <1>2, <1>3, <2>2, <2>3, <2>6, <3>1 DEF ExclusiveOwner
  <2>. QED  BY <2>7, <2>8
<1>11. ASSUME NEW g \in Guard, DropGuard(t, g)  PROVE ExclusiveOwner'
  <2>. DEFINE d == guard[g].idx
  <2>1. d \in Slot /\ g \in RefGuards(d)
    BY <1>1, <1>11 DEF DropGuard, Key, RefGuards
  <2>2. /\ LastRef(d) => th'[t].pc = "drop_value" /\ th'[t].idx = d
        /\ ~LastRef(d) => th'[t].pc = "idle"
    BY <1>11, CallMoves DEF Goes
  <2>3. /\ UNCHANGED <<version, len, stack>>
        /\ ref_count' = [ref_count EXCEPT ![d] = ref_count[d] - 1]
    BY <1>11 DEF DropGuard, DecRefCount
  <2>. HIDE DEF d
  <2>4. \A s \in Slot : Occupied(s)' = Occupied(s) /\ OnFreeList(s)' = OnFreeList(s)
    BY <2>3 DEF Occupied, OnFreeList
  <2>5. ref_count[d] \in Nat /\ ref_count[d] >= 1  BY <2>1, Referenced DEF Core
  <2>6. \A s \in Slot : ref_count[s] = 0 => ref_count'[s] = 0  BY <1>1, <2>1, <2>3, <2>5
  <2>7. CASE LastRef(d)
    <3>1. /\ d < len /\ ~Occupied(d) /\ ~OnFreeList(d)
          /\ \A u \in Thread : ~Owns(u, d)
      BY <2>1, <2>7, LastReference DEF LastRef
    <3>2. ref_count'[d] = 0  BY <1>1, <2>1, <2>3, <2>7 DEF LastRef
    <3>3. \A s \in Slot : Owns(t, s)' <=> s = d  BY <2>1, <2>2, <2>7 DEF Owns, OwnerPC
    <3>4. th'[t].pc # "store_version"  BY <2>2, <2>7
    <3>. QED
      BY <1>1, <1>2, <1>3, <2>1, <2>3, <2>4, <2>6, <3>1, <3>2, <3>3, <3>4 DEF ExclusiveOwner
  <2>8. CASE ~LastRef(d)
    <3>1. \A s \in Slot : ~Owns(t, s)'  BY <2>2, <2>8 DEF Owns, OwnerPC
    <3>. QED  BY <1>1, <1>2, <1>3, <2>3, <2>4, <2>6, <3>1 DEF ExclusiveOwner
  <2>. QED  BY <2>7, <2>8
<1>12. CASE RemoveSwap(t)
  <2>1. Goes(t, "rem_swap", "rem_dec")  BY <1>12, OtherMoves
  <2>2. /\ UNCHANGED <<ref_count, len, stack>> /\ Occupied(th[t].idx)
        /\ version' = [version EXCEPT ![th[t].idx] = (version[th[t].idx] + 1) % VersionMod]
    BY <1>12, <2>1 DEF RemoveSwap, Occupied, Goes, Core, LocalsSound
  <2>3. \A s \in Slot : ~Owns(t, s)'  BY <2>1 DEF Goes, Owns, OwnerPC
  <2>4. \A s \in Slot : OnFreeList(s)' = OnFreeList(s)  BY <2>2 DEF OnFreeList
  <2>5. \A s \in Slot : s # th[t].idx => Occupied(s)' = Occupied(s)
    BY <1>1, <2>2 DEF Occupied
  <2>6. \A u \in Thread : ~Owns(u, th[t].idx)  BY <1>1, <2>2 DEF ExclusiveOwner
  <2>. QED  BY <1>1, <1>2, <1>3, <2>2, <2>3, <2>4, <2>5, <2>6 DEF ExclusiveOwner
<1>13. CASE PushSwap(t)
  <2>1. th[t].pc = "push_swap" /\ th'[t].pc \in {"count_down", "idle"}
    BY <1>13, OtherMoves
  <2>2. UNCHANGED <<ref_count, version, len>> /\ stack' = Append(stack, th[t].idx)
    BY <1>13 DEF PushSwap
  <2>3. \A s \in Slot : ~Owns(t, s)'  BY <2>1 DEF Owns, OwnerPC
  <2>4. \A s \in Slot : OnFreeList(s)' <=> OnFreeList(s) \/ s = th[t].idx
    BY <1>1, <2>2, Pushed
  <2>5. \A s \in Slot : Occupied(s)' = Occupied(s)  BY <2>2 DEF Occupied
  <2>6. \A u \in Thread \ {t} : ~Owns(u, th[t].idx)
    BY <1>1, <2>1 DEF ExclusiveOwner, Owns, OwnerPC
  <2>. QED  BY <1>1, <1>2, <1>3, <2>2, <2>3, <2>4, <2>5, <2>6 DEF ExclusiveOwner
<1>. QED
  BY <1>4, <1>5, <1>6, <1>7, <1>8, <1>9, <1>10, <1>11, <1>12, <1>13, Quiet
  DEF Call, Step, InsertStep, PopStep, GetStep, RemoveStep, PushStep

----------------------------------------------------------------------------
(* The free list *)

\* A step writes the count, the version or the link only of a slot that is
\* pushed and not on the list.
LEMMA WritesOffList ==
  ASSUME Core, NEW t \in Thread, Call(t) \/ Step(t)
  PROVE  \E w \in Slot :
           \A s \in Slot :
             \/ ref_count'[s] = ref_count[s] /\ version'[s] = version[s]
                /\ next_free'[s] = next_free[s]
             \/ s = w /\ s < len /\ ~OnFreeList(s)
<1>1. /\ th[t] \in ThreadState /\ th[t].idx \in Slot /\ len \in Nat
      /\ ref_count \in [Slot -> Nat] /\ version \in [Slot -> Version]
      /\ next_free \in [Slot -> Slot \cup {SENTINEL}]
      /\ guard \in [Guard -> Key \cup {None}]
  BY SlotMapAssumption DEF Core, TypeOK, ThreadState
\* A slot that is owned, referenced or occupied is such a slot.
<1>2. ASSUME NEW s \in Slot,
             (\E u \in Thread : Owns(u, s)) \/ ref_count[s] >= 1 \/ Occupied(s)
      PROVE  s < len /\ ~OnFreeList(s)
  <2>1. CASE \E u \in Thread : Owns(u, s)  BY <2>1 DEF Core, ExclusiveOwner
  <2>2. CASE ref_count[s] >= 1 \/ Occupied(s)
    <3>1. s < len  BY <1>1, <2>2 DEF Core, LocalsSound, Occupied, Slot
    <3>2. ~OnFreeList(s)  BY <1>1, <2>2 DEF Core, FreeListSound, OnFreeList
    <3>. QED  BY <3>1, <3>2
  <2>. QED  BY <1>2, <2>1, <2>2
<1>. USE DEF vecVars, slotVars, mapVars, history, lossVars
<1>3. CASE UNCHANGED <<ref_count, version, next_free>>
  BY <1>1, <1>3
<1>4. CASE StoreRef(t) \/ StoreVersion(t) \/ PushStoreNext(t)
  <2>1. Owns(t, th[t].idx)
    BY <1>4, InsertMoves, OtherMoves DEF Goes, Owns, OwnerPC
  <2>2. \A s \in Slot : s # th[t].idx =>
          /\ ref_count'[s] = ref_count[s] /\ version'[s] = version[s]
          /\ next_free'[s] = next_free[s]
    BY <1>1, <1>4 DEF StoreRef, StoreVersion, PushStoreNext
  <2>. QED  BY <1>1, <1>2, <2>1, <2>2
<1>5. CASE AcquireSwap(t) \/ UndoAcquire(t) \/ RemoveDec(t) \/ RemoveSwap(t)
  <2>1. ref_count[th[t].idx] >= 1 \/ Occupied(th[t].idx)
    <3>1. CASE AcquireSwap(t)
      BY <3>1, OtherMoves DEF AcquireSwap, Goes, Core, LocalsSound
    <3>2. CASE UndoAcquire(t) \/ RemoveDec(t)
      <4>1. th[t].pc \in {"undo", "rem_dec"}  BY <3>2, OtherMoves DEF Goes
      <4>2. t \in RefThreads(th[t].idx)  BY <4>1 DEF RefThreads, RefPC
      <4>. QED  BY <1>1, <4>2, Referenced DEF Core
    <3>3. CASE RemoveSwap(t)
      BY <3>3, OtherMoves DEF RemoveSwap, Goes, Occupied, Core, LocalsSound
    <3>. QED  BY <1>5, <3>1, <3>2, <3>3
  <2>2. \A s \in Slot : s # th[t].idx =>
          /\ ref_count'[s] = ref_count[s] /\ version'[s] = version[s]
          /\ next_free'[s] = next_free[s]
    BY <1>1, <1>5 DEF AcquireSwap, UndoAcquire, RemoveDec, RemoveSwap, DecRefCount
  <2>. QED  BY <1>1, <1>2, <2>1, <2>2
<1>6. ASSUME NEW g \in Guard, DropGuard(t, g)
      PROVE  \E w \in Slot :
               \A s \in Slot :
                 \/ ref_count'[s] = ref_count[s] /\ version'[s] = version[s]
                    /\ next_free'[s] = next_free[s]
                 \/ s = w /\ s < len /\ ~OnFreeList(s)
  <2>. DEFINE d == guard[g].idx
  <2>1. d \in Slot /\ g \in RefGuards(d)
    BY <1>1, <1>6 DEF DropGuard, Key, RefGuards
  <2>2. ref_count[d] >= 1  BY <2>1, Referenced DEF Core
  <2>3. \A s \in Slot : s # d =>
          /\ ref_count'[s] = ref_count[s] /\ version'[s] = version[s]
          /\ next_free'[s] = next_free[s]
    BY <1>1, <1>6, <2>1 DEF DropGuard, DecRefCount
  <2>. HIDE DEF d
  <2>. QED  BY <1>2, <2>1, <2>2, <2>3
<1>7. Step(t) \/ Call(t) =>
        \/ UNCHANGED <<ref_count, version, next_free>>
        \/ StoreRef(t) \/ StoreVersion(t) \/ PushStoreNext(t)
        \/ AcquireSwap(t) \/ UndoAcquire(t) \/ RemoveDec(t) \/ RemoveSwap(t)
        \/ \E g \in Guard : DropGuard(t, g)
  BY DEF Call, Step, InsertStep, PopStep, GetStep, RemoveStep, PushStep, DropStep,
         BeginInsert, BeginGet, BeginRemove, PopReadNext, PopSwap, PopRetry, PushZeroed,
         EnsureChunk, LoadVersion, WriteValue, CallErr, CallPanics, CountUp, AcquireRetry,
         CheckVersion, CheckFails, RemoveFails, CountDown, DropValue, DropValuePanics,
         PushLoad, PushSwap, PushRetry
<1>. QED  BY <1>3, <1>4, <1>5, <1>6, <1>7

LEMMA LocalsStep ==
  ASSUME Core, NEW t \in Thread, Call(t) \/ Step(t)
  PROVE  LocalsSound'
<1>1. \A u \in Thread : LocalSound(u)'
  <2>1. \A u \in Thread \ {t} : th'[u] = th[u]  BY Others
  <2>2. \A u \in Thread \ {t} : LocalSound(u)'
    BY <2>1 DEF Core, LocalsSound, LocalSound
  <2>. QED  BY <2>2, LocalStep
<1>2. len' = len \/ len' = len + 1
  BY DEF Call, Step, InsertStep, PopStep, GetStep, RemoveStep, PushStep, DropStep,
         BeginInsert, BeginGet, BeginRemove, DropGuard, PopReadNext, PopSwap, PopRetry,
         PushZeroed, EnsureChunk, LoadVersion, WriteValue, CallErr, CallPanics, StoreRef,
         StoreVersion, CountUp, AcquireSwap, AcquireRetry, CheckVersion, CheckFails,
         UndoAcquire, RemoveSwap, RemoveFails, RemoveDec, CountDown, DropValue,
         DropValuePanics, PushLoad, PushStoreNext, PushSwap, PushRetry,
         vecVars, slotVars, mapVars, history, lossVars
<1>3. len \in Nat /\ Slot \subseteq Nat
  BY SlotMapAssumption DEF Core, TypeOK, Slot
<1>4. \A s \in Slot : s >= len' => version'[s] = 0 /\ ref_count'[s] = 0
  BY <1>2, <1>3, WritesOffList DEF Core, LocalsSound
<1>. QED  BY <1>1, <1>4 DEF LocalsSound, LocalSound

\* FreeListSound, its cases apart, of any list.
LEMMA FreeListCases ==
  ASSUME NEW st \in Seq(Slot), NEW hd, NEW nf
  PROVE  (hd = (IF st = <<>> THEN SENTINEL ELSE st[Len(st)])
          /\ \A i \in 1 .. Len(st) : nf[st[i]] = IF i = 1 THEN SENTINEL ELSE st[i - 1])
         <=>
         /\ Len(st) = 0 => hd = SENTINEL
         /\ Len(st) >= 1 => hd = st[Len(st)] /\ nf[st[1]] = SENTINEL
         /\ \A i \in 2 .. Len(st) : nf[st[i]] = st[i - 1]
<1>1. Len(st) \in Nat /\ (st = <<>> <=> Len(st) = 0)  OBVIOUS
<1>2. hd = (IF st = <<>> THEN SENTINEL ELSE st[Len(st)]) <=>
        /\ Len(st) = 0 => hd = SENTINEL
        /\ Len(st) >= 1 => hd = st[Len(st)]
  BY <1>1
<1>3. (\A i \in 1 .. Len(st) : nf[st[i]] = IF i = 1 THEN SENTINEL ELSE st[i - 1]) <=>
        /\ Len(st) >= 1 => nf[st[1]] = SENTINEL
        /\ \A i \in 2 .. Len(st) : nf[st[i]] = st[i - 1]
  <2>1. \A i \in 2 .. Len(st) : i \in 1 .. Len(st) /\ i # 1  BY <1>1
  <2>2. \A i \in 1 .. Len(st) : i = 1 \/ i \in 2 .. Len(st)  BY <1>1
  <2>3. Len(st) >= 1 => 1 \in 1 .. Len(st)  BY <1>1
  <2>4. \A i \in 1 .. Len(st) : Len(st) >= 1  BY <1>1
  <2>. QED  BY <2>1, <2>2, <2>3, <2>4
<1>. QED  BY <1>2, <1>3

LEMMA FreeListUnfold ==
  ASSUME stack \in Seq(Slot), FreeListSound
  PROVE  /\ Len(stack) = 0 => free_head.idx = SENTINEL
         /\ Len(stack) >= 1 => free_head.idx = stack[Len(stack)]
                               /\ next_free[stack[1]] = SENTINEL
         /\ \A i \in 2 .. Len(stack) : next_free[stack[i]] = stack[i - 1]
         /\ \A i \in 1 .. Len(stack) :
              stack[i] < len /\ version[stack[i]] % 2 # 1 /\ ref_count[stack[i]] = 0
         /\ \A i, j \in 1 .. Len(stack) : stack[i] = stack[j] => i = j
<1>1. /\ free_head.idx = IF stack = <<>> THEN SENTINEL ELSE stack[Len(stack)]
      /\ \A i \in 1 .. Len(stack) :
           next_free[stack[i]] = IF i = 1 THEN SENTINEL ELSE stack[i - 1]
  BY DEF FreeListSound
<1>2. /\ \A i \in 1 .. Len(stack) :
           stack[i] < len /\ version[stack[i]] % 2 # 1 /\ ref_count[stack[i]] = 0
      /\ \A i, j \in 1 .. Len(stack) : stack[i] = stack[j] => i = j
  BY DEF FreeListSound, Occupied
<1>. QED  BY <1>1, <1>2, FreeListCases

LEMMA FreeListFold ==
  ASSUME stack' \in Seq(Slot),
         Len(stack') = 0 => free_head'.idx = SENTINEL,
         Len(stack') >= 1 => free_head'.idx = stack'[Len(stack')]
                             /\ next_free'[stack'[1]] = SENTINEL,
         \A i \in 2 .. Len(stack') : next_free'[stack'[i]] = stack'[i - 1],
         \A i \in 1 .. Len(stack') :
           stack'[i] < len' /\ version'[stack'[i]] % 2 # 1 /\ ref_count'[stack'[i]] = 0,
         \A i, j \in 1 .. Len(stack') : stack'[i] = stack'[j] => i = j
  PROVE  FreeListSound'
<1>1. /\ free_head'.idx = IF stack' = <<>> THEN SENTINEL ELSE stack'[Len(stack')]
      /\ \A i \in 1 .. Len(stack') :
           next_free'[stack'[i]] = IF i = 1 THEN SENTINEL ELSE stack'[i - 1]
  BY FreeListCases
<1>. QED  BY <1>1 DEF FreeListSound, Occupied

LEMMA FreeListStep ==
  ASSUME Core, NoTagWrap, NEW t \in Thread, Call(t) \/ Step(t)
  PROVE  FreeListSound'
<1>1. /\ stack \in Seq(Slot) /\ Len(stack) \in Nat /\ th[t].idx \in Slot
      /\ len \in Nat /\ FreeListSound /\ Slot \subseteq Nat /\ SENTINEL \notin Slot
  BY SlotMapAssumption DEF Core, TypeOK, ThreadState, Slot, SENTINEL
<1>2. /\ Len(stack) = 0 => free_head.idx = SENTINEL
      /\ Len(stack) >= 1 => /\ free_head.idx = stack[Len(stack)]
                            /\ next_free[stack[1]] = SENTINEL
      /\ \A i \in 2 .. Len(stack) : next_free[stack[i]] = stack[i - 1]
      /\ \A i \in 1 .. Len(stack) :
           stack[i] < len /\ version[stack[i]] % 2 # 1 /\ ref_count[stack[i]] = 0
      /\ \A i, j \in 1 .. Len(stack) : stack[i] = stack[j] => i = j
  BY <1>1, FreeListUnfold
\* The slots on the list are left as they are.
<1>3. \A i \in 1 .. Len(stack) :
        /\ stack[i] \in Slot /\ next_free'[stack[i]] = next_free[stack[i]]
        /\ stack[i] < len' /\ version'[stack[i]] % 2 # 1 /\ ref_count'[stack[i]] = 0
  <2>1. len' = len \/ len' = len + 1
    BY DEF Call, Step, InsertStep, PopStep, GetStep, RemoveStep, PushStep, DropStep,
           BeginInsert, BeginGet, BeginRemove, DropGuard, PopReadNext, PopSwap, PopRetry,
           PushZeroed, EnsureChunk, LoadVersion, WriteValue, CallErr, CallPanics, StoreRef,
           StoreVersion, CountUp, AcquireSwap, AcquireRetry, CheckVersion, CheckFails,
           UndoAcquire, RemoveSwap, RemoveFails, RemoveDec, CountDown, DropValue,
           DropValuePanics, PushLoad, PushStoreNext, PushSwap, PushRetry,
           vecVars, slotVars, mapVars, history, lossVars
  <2>2. TAKE i \in 1 .. Len(stack)
  <2>3. stack[i] \in Slot /\ OnFreeList(stack[i])  BY <1>1 DEF OnFreeList
  <2>4. /\ ref_count'[stack[i]] = ref_count[stack[i]]
        /\ version'[stack[i]] = version[stack[i]]
        /\ next_free'[stack[i]] = next_free[stack[i]]
    BY <2>3, WritesOffList
  <2>5. stack[i] < len /\ version[stack[i]] % 2 # 1 /\ ref_count[stack[i]] = 0
    BY <1>2
  <2>6. stack[i] < len'
    <3>1. stack[i] \in Nat /\ stack[i] < len  BY <1>1, <2>3, <2>5
    <3>. QED  BY <1>1, <2>1, <3>1
  <2>. QED  BY <2>3, <2>4, <2>5, <2>6
<1>. USE DEF vecVars, slotVars, mapVars, history, lossVars
<1>4. CASE UNCHANGED <<free_head, stack>>
  <2>1. \A i \in 2 .. Len(stack) : i \in 1 .. Len(stack)  BY <1>1
  <2>2. Len(stack) >= 1 => 1 \in 1 .. Len(stack)  BY <1>1
  <2>3. /\ Len(stack) = 0 => free_head.idx = SENTINEL
        /\ Len(stack) >= 1 => /\ free_head.idx = stack[Len(stack)]
                              /\ next_free'[stack[1]] = SENTINEL
        /\ \A i \in 2 .. Len(stack) : next_free'[stack[i]] = stack[i - 1]
    BY <1>2, <1>3, <2>1, <2>2
  <2>4. /\ Len(stack') >= 1 => free_head'.idx = stack'[Len(stack')]
                                 /\ next_free'[stack'[1]] = SENTINEL
        /\ \A i \in 2 .. Len(stack') : next_free'[stack'[i]] = stack'[i - 1]
        /\ stack' \in Seq(Slot)
    BY <1>1, <1>4, <2>3
  <2>5. \A i \in 1 .. Len(stack') :
          stack'[i] < len' /\ version'[stack'[i]] % 2 # 1 /\ ref_count'[stack'[i]] = 0
    BY <1>3, <1>4
  <2>6. \A i, j \in 1 .. Len(stack') : stack'[i] = stack'[j] => i = j  BY <1>2, <1>4
  <2>7. Len(stack') = 0 => free_head'.idx = SENTINEL  BY <1>2, <1>4
  <2>. QED  BY <2>4, <2>5, <2>6, <2>7, FreeListFold
<1>5. CASE PopSwap(t)
  <2>1. /\ Len(stack) >= 1 /\ th[t].head.idx = stack[Len(stack)]
        /\ th[t].next = next_free[th[t].head.idx]
    BY <1>5, PopIsTop
  <2>2. /\ Len(stack') = Len(stack) - 1
        /\ \A i \in 1 .. Len(stack) - 1 : stack'[i] = stack[i]
        /\ stack' \in Seq(Slot)
    BY <1>5, <2>1, Popped DEF PopSwap
  <2>3. free_head'.idx = next_free[stack[Len(stack)]]  BY <1>5, <2>1 DEF PopSwap
  <2>4. Len(stack') = 0 => free_head'.idx = SENTINEL
    <3>1. Len(stack') = 0 => Len(stack) = 1  BY <1>1, <2>1, <2>2
    <3>2. Len(stack) = 1 => next_free[stack[Len(stack)]] = SENTINEL  BY <1>2
    <3>. QED  BY <2>3, <3>1, <3>2
  <2>5. ASSUME Len(stack') >= 1
        PROVE  free_head'.idx = stack'[Len(stack')] /\ next_free'[stack'[1]] = SENTINEL
    <3>1. /\ Len(stack) \in 2 .. Len(stack) /\ Len(stack') = Len(stack) - 1
          /\ Len(stack) - 1 \in 1 .. Len(stack) - 1 /\ 1 \in 1 .. Len(stack) - 1
          /\ 1 \in 1 .. Len(stack)
      BY <1>1, <2>1, <2>2, <2>5
    <3>2. free_head'.idx = stack[Len(stack) - 1]  BY <1>2, <2>3, <3>1
    <3>. QED  BY <1>2, <1>3, <2>1, <2>2, <3>1, <3>2
  <2>6. \A i \in 2 .. Len(stack') : next_free'[stack'[i]] = stack'[i - 1]
    <3>1. TAKE i \in 2 .. Len(stack')
    <3>2. /\ i \in 2 .. Len(stack) /\ i \in 1 .. Len(stack)
          /\ i \in 1 .. Len(stack) - 1 /\ i - 1 \in 1 .. Len(stack) - 1
      BY <1>1, <2>1, <2>2
    <3>. QED  BY <1>2, <1>3, <2>2, <3>2
  <2>7. \A i \in 1 .. Len(stack') :
          stack'[i] = stack[i] /\ i \in 1 .. Len(stack)
    BY <1>1, <2>2
  <2>8. /\ \A i \in 1 .. Len(stack') :
             /\ stack'[i] < len' /\ version'[stack'[i]] % 2 # 1
             /\ ref_count'[stack'[i]] = 0
        /\ \A i, j \in 1 .. Len(stack') : stack'[i] = stack'[j] => i = j
    BY <1>2, <1>3, <2>7
  <2>. QED  BY <2>2, <2>4, <2>5, <2>6, <2>8, FreeListFold
<1>6. CASE PushSwap(t)
  <2>. DEFINE p == th[t].idx
  <2>1. th[t].pc = "push_swap"  BY <1>6, OtherMoves
  <2>2. Owns(t, p)  BY <2>1 DEF Owns, OwnerPC
  <2>3. /\ p \in Slot /\ p < len /\ version[p] % 2 # 1 /\ ~OnFreeList(p) /\ ref_count[p] = 0
    BY <1>1, <2>1, <2>2 DEF Core, ExclusiveOwner, Occupied
  <2>4. next_free[p] = free_head.idx
    BY <1>6, <2>1, SameHead DEF PushSwap, Core, ReadsCurrent
  <2>5. UNCHANGED <<ref_count, version, next_free, len>> /\ free_head'.idx = p
    BY <1>6 DEF PushSwap
  <2>. HIDE DEF p
  <2>6. /\ Len(stack') = Len(stack) + 1 /\ stack'[Len(stack) + 1] = p
        /\ \A i \in 1 .. Len(stack) : stack'[i] = stack[i]
        /\ stack' \in Seq(Slot)
    BY <1>1, <1>6, <2>3, Pushed DEF PushSwap, p
  <2>7. \A i \in 1 .. Len(stack) : stack[i] # p  BY <2>3 DEF OnFreeList
  <2>8. /\ version'[p] % 2 # 1 /\ ref_count'[p] = 0 /\ p < len' /\ next_free'[p] = free_head.idx
    BY <2>3, <2>4, <2>5
  <2>9. /\ Len(stack') = 0 => free_head'.idx = SENTINEL
        /\ Len(stack') >= 1 => free_head'.idx = stack'[Len(stack')]
    BY <1>1, <2>5, <2>6
  <2>10. next_free'[stack'[1]] = SENTINEL
    <3>1. CASE Len(stack) = 0  BY <1>2, <2>6, <2>8, <3>1
    <3>2. CASE Len(stack) # 0
      <4>1. Len(stack) >= 1 /\ 1 \in 1 .. Len(stack)  BY <1>1, <3>2
      <4>. QED  BY <1>2, <1>3, <2>6, <4>1
    <3>. QED  BY <3>1, <3>2
  <2>11. \A i \in 2 .. Len(stack') : next_free'[stack'[i]] = stack'[i - 1]
    <3>1. TAKE i \in 2 .. Len(stack')
    <3>2. CASE i = Len(stack) + 1
      <4>1. Len(stack) >= 1 /\ i - 1 = Len(stack) /\ i - 1 \in 1 .. Len(stack)
        BY <1>1, <2>6, <3>2
      <4>. QED  BY <1>2, <2>6, <2>8, <3>2, <4>1
    <3>3. CASE i # Len(stack) + 1
      <4>1. i \in 2 .. Len(stack) /\ i \in 1 .. Len(stack) /\ i - 1 \in 1 .. Len(stack)
        BY <1>1, <2>6, <3>3
      <4>. QED  BY <1>2, <1>3, <2>6, <4>1
    <3>. QED  BY <3>2, <3>3
  <2>12. \A i \in 1 .. Len(stack') : i = Len(stack) + 1 \/ i \in 1 .. Len(stack)
    BY <1>1, <2>6
  <2>13. \A i \in 1 .. Len(stack') :
           /\ stack'[i] < len' /\ version'[stack'[i]] % 2 # 1
           /\ ref_count'[stack'[i]] = 0
    BY <1>3, <2>6, <2>8, <2>12
  <2>14. \A i, j \in 1 .. Len(stack') : stack'[i] = stack'[j] => i = j
    BY <1>2, <2>6, <2>7, <2>12
  <2>. QED  BY <2>6, <2>9, <2>10, <2>11, <2>13, <2>14, FreeListFold
<1>7. UNCHANGED <<free_head, stack>> \/ PopSwap(t) \/ PushSwap(t)
  BY DEF Call, Step, InsertStep, PopStep, GetStep, RemoveStep, PushStep, DropStep,
         BeginInsert, BeginGet, BeginRemove, DropGuard, PopReadNext, PopRetry, PushZeroed,
         EnsureChunk, LoadVersion, WriteValue, CallErr, CallPanics, StoreRef, StoreVersion,
         CountUp, AcquireSwap, AcquireRetry, CheckVersion, CheckFails, UndoAcquire,
         RemoveSwap, RemoveFails, RemoveDec, CountDown, DropValue, DropValuePanics,
         PushLoad, PushStoreNext, PushRetry
<1>. QED  BY <1>4, <1>5, <1>6, <1>7

----------------------------------------------------------------------------
(* What the threads have read of the free list *)

\* What ReadsCurrent says of one thread.
ReadSound(t) ==
  /\ th[t].pc \in {"pop_next", "pop_swap"} => th[t].head.idx # SENTINEL
  /\ th[t].pc \in {"pop_next", "pop_swap", "push_next", "push_swap"} =>
       /\ th[t].head.tag <= free_head.tag
       /\ th[t].head.tag = free_head.tag => th[t].head.idx = free_head.idx
  /\ th[t].pc = "pop_swap" /\ th[t].head.tag = free_head.tag =>
       th[t].next = next_free[th[t].head.idx]
  /\ th[t].pc = "push_swap" => next_free[th[t].idx] = th[t].head.idx

\* The thread that takes a step has read what is there.
LEMMA ReadStep ==
  ASSUME Core, NEW t \in Thread, Call(t) \/ Step(t)
  PROVE  ReadSound(t)'
<1>1. /\ th[t] \in ThreadState /\ free_head \in FreeHead /\ th[t].head \in FreeHead
      /\ free_head.tag \in Nat /\ ReadSound(t) /\ th[t].idx \in Slot
      /\ next_free \in [Slot -> Slot \cup {SENTINEL}]
  BY DEF Core, TypeOK, ThreadState, FreeHead, ReadsCurrent, ReadSound
<1>. USE DEF vecVars, slotVars, mapVars, history, lossVars
<1>2. CASE th'[t].pc \notin {"pop_next", "pop_swap", "push_next", "push_swap"}
  BY <1>2 DEF ReadSound
<1>3. ASSUME th'[t].pc = PopTarget(free_head), th'[t].head = free_head,
             free_head' = free_head
      PROVE  ReadSound(t)'
  <2>1. CASE free_head.idx = SENTINEL  BY <1>2, <1>3, <2>1 DEF PopTarget
  <2>2. CASE free_head.idx # SENTINEL
    <3>1. th'[t].pc = "pop_next"  BY <1>3, <2>2 DEF PopTarget
    <3>. QED  BY <1>1, <1>3, <2>2, <3>1 DEF ReadSound
  <2>. QED  BY <2>1, <2>2
<1>4. ASSUME NEW v \in Value, BeginInsert(t, v)  PROVE ReadSound(t)'
  <2>1. free_head' = free_head  BY <1>4 DEF BeginInsert
  <2>. QED  BY <1>3, <1>4, <2>1, CallMoves DEF Goes
<1>5. CASE PopRetry(t)
  <2>1. free_head' = free_head  BY <1>5 DEF PopRetry
  <2>. QED  BY <1>3, <1>5, <2>1, InsertMoves DEF Goes
<1>6. CASE PopReadNext(t)
  <2>1. UNCHANGED <<free_head, next_free>>  BY <1>6 DEF PopReadNext
  <2>2. /\ th[t].pc = "pop_next" /\ th'[t].pc = "pop_swap" /\ th'[t].head = th[t].head
        /\ th'[t].next = next_free[th[t].head.idx]
    BY <1>6, InsertMoves DEF Goes
  <2>. QED  BY <1>1, <2>1, <2>2 DEF ReadSound
<1>7. CASE PushLoad(t) \/ PushRetry(t)
  <2>1. free_head' = free_head  BY <1>7 DEF PushLoad, PushRetry
  <2>2. th'[t].pc = "push_next" /\ th'[t].head = free_head
    BY <1>7, OtherMoves DEF Goes
  <2>. QED  BY <1>1, <2>1, <2>2 DEF ReadSound
<1>8. CASE PushStoreNext(t)
  <2>1. /\ free_head' = free_head
        /\ next_free' = [next_free EXCEPT ![th[t].idx] = th[t].head.idx]
    BY <1>8 DEF PushStoreNext
  <2>2. /\ th[t].pc = "push_next" /\ th'[t].pc = "push_swap" /\ th'[t].head = th[t].head
        /\ th'[t].idx = th[t].idx
    BY <1>8, OtherMoves DEF Goes
  <2>3. next_free'[th'[t].idx] = th'[t].head.idx  BY <1>1, <2>1, <2>2
  <2>. QED  BY <1>1, <2>1, <2>2, <2>3 DEF ReadSound
<1>9. CASE ~ \/ \E v \in Value : BeginInsert(t, v)
             \/ PopRetry(t) \/ PopReadNext(t) \/ PushLoad(t) \/ PushRetry(t)
             \/ PushStoreNext(t)
  <2>1. CASE Call(t)
    <3>1. th'[t].pc \in {"acquire", "rem_swap", "drop_value", "idle"}
      BY <1>9, <2>1, CallMoves DEF Call, Goes
    <3>. QED  BY <1>2, <3>1
  <2>2. CASE InsertStep(t)
    <3>1. th'[t].pc \in {"load_version", "ensure_chunk", "call", "store_ref",
                         "push_load", "idle", "store_version", "count_up"}
      BY <1>9, <2>2, InsertMoves DEF InsertStep, PopStep, Goes
    <3>. QED  BY <1>2, <3>1
  <2>3. CASE GetStep(t) \/ RemoveStep(t) \/ PushStep(t) \/ DropStep(t)
    <3>1. th'[t].pc \in {"acquire", "idle", "check", "undo", "drop_value", "rem_dec",
                         "count_down", "push_load"}
      BY <1>9, <2>3, OtherMoves DEF GetStep, RemoveStep, PushStep, DropStep, Goes
    <3>. QED  BY <1>2, <3>1
  <2>. QED  BY <2>1, <2>2, <2>3 DEF Step
<1>. QED  BY <1>4, <1>5, <1>6, <1>7, <1>8, <1>9

\* The tag of the head never goes back, and it moves whenever the head does.
LEMMA TagStep ==
  ASSUME NEW t \in Thread, Call(t) \/ Step(t)
  PROVE  \/ free_head' = free_head
         \/ free_head'.tag = free_head.tag + 1 /\ next_free' = next_free
<1>. USE DEF vecVars, slotVars, mapVars, history, lossVars
<1>1. CASE PopSwap(t)  BY <1>1 DEF PopSwap
<1>2. CASE PushSwap(t)  BY <1>2 DEF PushSwap
<1>3. free_head' = free_head \/ PopSwap(t) \/ PushSwap(t)
  BY DEF Call, Step, InsertStep, PopStep, GetStep, RemoveStep, PushStep, DropStep,
         BeginInsert, BeginGet, BeginRemove, DropGuard, PopReadNext, PopRetry, PushZeroed,
         EnsureChunk, LoadVersion, WriteValue, CallErr, CallPanics, StoreRef, StoreVersion,
         CountUp, AcquireSwap, AcquireRetry, CheckVersion, CheckFails, UndoAcquire,
         RemoveSwap, RemoveFails, RemoveDec, CountDown, DropValue, DropValuePanics,
         PushLoad, PushStoreNext, PushRetry
<1>. QED  BY <1>1, <1>2, <1>3

LEMMA NextFreeStep ==
  ASSUME NEW t \in Thread, Call(t) \/ Step(t)
  PROVE  next_free' = next_free \/ PushStoreNext(t)
BY DEF Call, Step, InsertStep, PopStep, GetStep, RemoveStep, PushStep, DropStep,
       BeginInsert, BeginGet, BeginRemove, DropGuard, PopReadNext, PopSwap, PopRetry,
       PushZeroed, EnsureChunk, LoadVersion, WriteValue, CallErr, CallPanics, StoreRef,
       StoreVersion, CountUp, AcquireSwap, AcquireRetry, CheckVersion, CheckFails,
       UndoAcquire, RemoveSwap, RemoveFails, RemoveDec, CountDown, DropValue,
       DropValuePanics, PushLoad, PushSwap, PushRetry,
       vecVars, slotVars, mapVars, history, lossVars

LEMMA ReadsStep ==
  ASSUME Core, NEW t \in Thread, Call(t) \/ Step(t)
  PROVE  ReadsCurrent'
<1>1. ASSUME NEW u \in Thread \ {t}  PROVE ReadSound(u)'
  <2>1. /\ th'[u] = th[u] /\ th[u] \in ThreadState /\ th[u].head \in FreeHead
        /\ th[u].head.tag \in Nat /\ free_head.tag \in Nat /\ th[u].idx \in Slot
        /\ ReadSound(u)
    BY Others DEF Core, TypeOK, ThreadState, FreeHead, ReadsCurrent, ReadSound
  <2>2. th[u].pc = "push_swap" => next_free'[th[u].idx] = next_free[th[u].idx]
    <3>1. CASE PushStoreNext(t)
      <4>1. th[t].pc = "push_next"  BY <3>1, OtherMoves DEF Goes
      <4>2. th[u].pc = "push_swap" => th[u].idx # th[t].idx
        BY <2>1, <4>1 DEF Core, ExclusiveOwner, Owns, OwnerPC
      <4>. QED  BY <2>1, <3>1, <4>2 DEF PushStoreNext, Core, TypeOK
    <3>2. CASE next_free' = next_free  BY <3>2
    <3>. QED  BY <3>1, <3>2, NextFreeStep
  <2>3. CASE free_head' = free_head
    <3>1. ASSUME th[u].pc = "pop_swap", th[u].head.tag = free_head.tag
          PROVE  next_free'[th[u].head.idx] = next_free[th[u].head.idx]
      <4>1. th[u].head.idx = free_head.idx /\ free_head.idx # SENTINEL
        BY <2>1, <3>1 DEF ReadSound
      <4>2. stack \in Seq(Slot) /\ stack # <<>> /\ free_head.idx = stack[Len(stack)]
        BY <4>1 DEF Core, TypeOK, FreeListSound
      <4>3. free_head.idx \in Slot /\ OnFreeList(free_head.idx)
        BY <4>2 DEF OnFreeList
      <4>. QED  BY <4>1, <4>3, WritesOffList
    <3>. QED  BY <2>1, <2>2, <2>3, <3>1 DEF ReadSound
  <2>4. CASE free_head'.tag = free_head.tag + 1
    <3>1. th[u].pc \in {"pop_next", "pop_swap", "push_next", "push_swap"} =>
            th[u].head.tag <= free_head'.tag /\ th[u].head.tag # free_head'.tag
      BY <2>1, <2>4 DEF ReadSound
    <3>. QED  BY <2>1, <2>2, <3>1 DEF ReadSound
  <2>. QED  BY <2>3, <2>4, TagStep
<1>2. \A u \in Thread : ReadSound(u)'  BY <1>1, ReadStep
<1>. QED  BY <1>2 DEF ReadsCurrent, ReadSound

----------------------------------------------------------------------------
(* No slot is lost *)

\* Who loses a slot that it owns.
LEMMA KeepsOrLeaks ==
  ASSUME Core, NEW t \in Thread, Call(t) \/ Step(t), ~StoreVersion(t), ~PushSwap(t)
  PROVE  \A s \in Slot : Owns(t, s) => Owns(t, s)' \/ s \in leaked'
<1>. DEFINE Goal == \A s \in Slot : Owns(t, s) => Owns(t, s)' \/ s \in leaked'
<1>1. ASSUME th[t].pc \notin OwnerPC  PROVE Goal
  BY <1>1 DEF Owns
<1>2. ASSUME th'[t].pc \in OwnerPC, th'[t].idx = th[t].idx  PROVE Goal
  BY <1>2 DEF Owns
<1>3. CASE CallPanics(t) \/ DropValuePanics(t)
  <2>1. leaked' = leaked \cup {th[t].idx}  BY <1>3 DEF CallPanics, DropValuePanics
  <2>. QED  BY <2>1 DEF Owns
<1>. HIDE DEF Goal
<1>4. CASE Call(t)
  <2>1. th[t].pc = "idle"  BY <1>4, CallMoves DEF Call, Goes
  <2>. QED  BY <1>1, <2>1 DEF OwnerPC, Goal
<1>5. CASE InsertStep(t)
  <2>1. \/ th[t].pc \notin OwnerPC
        \/ th'[t].pc \in OwnerPC /\ th'[t].idx = th[t].idx
        \/ CallPanics(t)
    BY <1>5, InsertMoves DEF InsertStep, PopStep, Goes, OwnerPC
  <2>. QED  BY <1>1, <1>2, <1>3, <2>1 DEF Goal
<1>6. CASE GetStep(t) \/ RemoveStep(t) \/ PushStep(t) \/ DropStep(t)
  <2>1. \/ th[t].pc \notin OwnerPC
        \/ th'[t].pc \in OwnerPC /\ th'[t].idx = th[t].idx
        \/ DropValuePanics(t)
    BY <1>6, OtherMoves DEF GetStep, RemoveStep, PushStep, DropStep, Goes, OwnerPC
  <2>. QED  BY <1>1, <1>2, <1>3, <2>1 DEF Goal
<1>. QED  BY <1>4, <1>5, <1>6 DEF Step, Goal

LEMMA LostStep ==
  ASSUME Core, NoTagWrap, NEW t \in Thread, Call(t) \/ Step(t)
  PROVE  NoSlotLost'
<1>1. /\ th[t] \in ThreadState /\ th[t].idx \in Slot /\ len \in Nat
      /\ ref_count \in [Slot -> Nat] /\ version \in [Slot -> Version]
      /\ guard \in [Guard -> Key \cup {None}] /\ Slot \subseteq Nat
  <2>1. Slot \subseteq Nat  BY DEF Slot
  <2>2. len \in Nat  BY SlotMapAssumption DEF Core, TypeOK
  <2>. QED  BY <2>1, <2>2 DEF Core, TypeOK, ThreadState
<1>2. \A u \in Thread \ {t}, s \in Slot : Owns(u, s)' <=> Owns(u, s)
  BY Others DEF Owns
<1>3. leaked \subseteq leaked'
  BY DEF Call, Step, InsertStep, PopStep, GetStep, RemoveStep, PushStep, DropStep,
         BeginInsert, BeginGet, BeginRemove, DropGuard, PopReadNext, PopSwap, PopRetry,
         PushZeroed, EnsureChunk, LoadVersion, WriteValue, CallErr, CallPanics, StoreRef,
         StoreVersion, CountUp, AcquireSwap, AcquireRetry, CheckVersion, CheckFails,
         UndoAcquire, RemoveSwap, RemoveFails, RemoveDec, CountDown, DropValue,
         DropValuePanics, PushLoad, PushStoreNext, PushSwap, PushRetry,
         vecVars, slotVars, mapVars, history, lossVars
<1>. DEFINE Kept(s) == \/ Occupied(s) \/ ref_count[s] > 0 \/ OnFreeList(s) \/ s \in leaked
                       \/ \E u \in Thread : Owns(u, s)
<1>4. \A s \in Slot : s < len => Kept(s)  BY DEF Core, NoSlotLost
\* It is enough to look at a slot that loses what kept it.
<1>5. SUFFICES ASSUME NEW s \in Slot, s < len',
                      ~(\E u \in Thread : Owns(u, s)'), s \notin leaked',
                      ~Occupied(s)', ~(ref_count'[s] > 0), ~OnFreeList(s)'
               PROVE  FALSE
  BY DEF NoSlotLost
<1>. USE DEF vecVars, slotVars, mapVars, history, lossVars
<1>6. \A u \in Thread \ {t} : ~Owns(u, s)  BY <1>2, <1>5
<1>7. s \notin leaked  BY <1>3, <1>5
<1>8. ~Owns(t, s)' /\ ref_count'[s] \in Nat /\ ref_count'[s] = 0
  BY <1>5, TypeStep DEF TypeOK
<1>9. CASE PushZeroed(t)
  <2>1. th'[t].pc = "ensure_chunk" /\ th'[t].idx = len  BY <1>9, InsertMoves
  <2>2. s # len  BY <1>8, <2>1 DEF Owns, OwnerPC
  <2>3. /\ UNCHANGED <<version, ref_count, stack, leaked>> /\ len' = len + 1
        /\ th[t].pc = "push_zeroed"
    BY <1>9 DEF PushZeroed, At
  <2>4. s < len  BY <1>1, <1>5, <2>2, <2>3
  <2>5. Kept(s)  BY <1>4, <2>4
  <2>6. ~Owns(t, s)  BY <2>3 DEF Owns, OwnerPC
  <2>. QED  BY <1>5, <1>6, <1>7, <2>3, <2>5, <2>6 DEF Occupied, OnFreeList
<1>10. CASE PopSwap(t)
  <2>1. /\ th[t].head.idx \in Slot /\ th[t].head.idx = stack[Len(stack)]
        /\ Len(stack) >= 1
    BY <1>10, PopIsTop
  <2>2. th'[t].pc = "load_version" /\ th'[t].idx = th[t].head.idx /\ th[t].pc = "pop_swap"
    BY <1>10, InsertMoves
  <2>3. s # th[t].head.idx  BY <1>8, <2>2 DEF Owns, OwnerPC
  <2>4. OnFreeList(s)' <=> OnFreeList(s)  BY <1>10, <2>1, <2>3, Popped DEF PopSwap
  <2>5. UNCHANGED <<version, ref_count, len>>  BY <1>10 DEF PopSwap
  <2>6. Kept(s)  BY <1>4, <1>5, <2>5
  <2>7. ~Owns(t, s)  BY <2>2 DEF Owns, OwnerPC
  <2>. QED  BY <1>5, <1>6, <1>7, <2>4, <2>5, <2>6, <2>7 DEF Occupied
<1>11. CASE StoreVersion(t)
  <2>1. th[t].pc = "store_version" /\ th[t].ver % 2 = 1
    BY <1>11, InsertMoves DEF Core, LocalsSound
  <2>2. UNCHANGED <<ref_count, stack, len>> /\ version' = [version EXCEPT ![th[t].idx] = th[t].ver]
    BY <1>11 DEF StoreVersion
  <2>3. s # th[t].idx  BY <1>1, <1>5, <2>1, <2>2 DEF Occupied
  <2>4. ~Owns(t, s)  BY <2>3 DEF Owns
  <2>5. Occupied(s)' <=> Occupied(s)  BY <1>1, <2>2, <2>3 DEF Occupied
  <2>6. Kept(s)  BY <1>4, <1>5, <2>2
  <2>. QED  BY <1>5, <1>6, <1>7, <1>8, <2>2, <2>4, <2>5, <2>6 DEF OnFreeList
<1>12. CASE PushSwap(t)
  <2>1. UNCHANGED <<ref_count, version, len>> /\ stack' = Append(stack, th[t].idx)
    BY <1>12 DEF PushSwap
  <2>2. OnFreeList(s)' <=> OnFreeList(s) \/ s = th[t].idx  BY <1>1, <2>1, Pushed
  <2>3. ~OnFreeList(s) /\ ~Owns(t, s)  BY <1>5, <2>2 DEF Owns
  <2>4. Kept(s)  BY <1>4, <1>5, <2>1
  <2>. QED  BY <1>5, <1>6, <1>7, <2>1, <2>3, <2>4 DEF Occupied
\* The other steps move neither the length nor the list, and none of them
\* takes the slot from its owner without leaking it.
<1>13. CASE ~PushZeroed(t) /\ ~PopSwap(t) /\ ~StoreVersion(t) /\ ~PushSwap(t)
  <2>1. UNCHANGED <<len, stack>>
    BY <1>13 DEF Call, Step, InsertStep, PopStep, GetStep, RemoveStep, PushStep, DropStep,
         BeginInsert, BeginGet, BeginRemove, DropGuard, PopReadNext, PopRetry,
         EnsureChunk, LoadVersion, WriteValue, CallErr, CallPanics, StoreRef,
         CountUp, AcquireSwap, AcquireRetry, CheckVersion, CheckFails,
         UndoAcquire, RemoveSwap, RemoveFails, RemoveDec, CountDown, DropValue,
         DropValuePanics, PushLoad, PushStoreNext, PushRetry
  <2>2. ~Owns(t, s)  BY <1>5, <1>8, <1>13, KeepsOrLeaks
  <2>3. Kept(s) /\ s < len  BY <1>4, <1>5, <2>1
  <2>4. ~OnFreeList(s)  BY <1>5, <2>1 DEF OnFreeList
  <2>5. Occupied(s) \/ ref_count[s] >= 1
    BY <1>1, <1>6, <1>7, <2>2, <2>3, <2>4
  <2>6. ref_count[s] >= 1  BY <2>5, Referenced DEF Core
  <2>7. CASE UNCHANGED <<ref_count>>  BY <1>8, <2>6, <2>7
  <2>8. CASE StoreRef(t)
    BY <1>1, <1>8, <2>6, <2>8 DEF StoreRef
  <2>9. CASE AcquireSwap(t)
    BY <1>1, <1>8, <2>6, <2>9 DEF AcquireSwap
  <2>10. CASE UndoAcquire(t) \/ RemoveDec(t)
    <3>1. ref_count' = [ref_count EXCEPT ![th[t].idx] = ref_count[th[t].idx] - 1]
      BY <2>10 DEF UndoAcquire, RemoveDec, DecRefCount
    <3>2. s = th[t].idx /\ LastRef(s)  BY <1>1, <1>8, <2>6, <3>1 DEF LastRef
    <3>3. th'[t].pc = "drop_value" /\ th'[t].idx = s
      BY <2>10, <3>2, OtherMoves DEF Goes
    <3>. QED  BY <1>8, <3>3 DEF Owns, OwnerPC
  <2>11. ASSUME NEW g \in Guard, DropGuard(t, g)  PROVE FALSE
    <3>1. ref_count' = [ref_count EXCEPT ![guard[g].idx] = ref_count[guard[g].idx] - 1]
      BY <2>11 DEF DropGuard, DecRefCount
    <3>2. s = guard[g].idx /\ LastRef(s)  BY <1>1, <1>8, <2>6, <3>1 DEF LastRef
    <3>3. th'[t].pc = "drop_value" /\ th'[t].idx = s
      BY <2>11, <3>2, CallMoves
    <3>. QED  BY <1>8, <3>3 DEF Owns, OwnerPC
  <2>12. \/ UNCHANGED <<ref_count>> \/ StoreRef(t) \/ AcquireSwap(t)
         \/ UndoAcquire(t) \/ RemoveDec(t) \/ \E g \in Guard : DropGuard(t, g)
    BY DEF Call, Step, InsertStep, PopStep, GetStep, RemoveStep, PushStep, DropStep,
         BeginInsert, BeginGet, BeginRemove, PopReadNext, PopSwap, PopRetry, PushZeroed,
         EnsureChunk, LoadVersion, WriteValue, CallErr, CallPanics, StoreVersion,
         CountUp, AcquireRetry, CheckVersion, CheckFails, RemoveSwap, RemoveFails,
         CountDown, DropValue, DropValuePanics, PushLoad, PushStoreNext, PushSwap, PushRetry
  <2>. QED  BY <2>7, <2>8, <2>9, <2>10, <2>11, <2>12
<1>. QED  BY <1>9, <1>10, <1>11, <1>12, <1>13

----------------------------------------------------------------------------
(* The steps that are no thread's, and the first state *)

LEMMA CloneStep ==
  ASSUME Core, NEW g \in Guard, NEW h \in Guard, CloneGuard(g, h)
  PROVE  Core'
<1>. USE DEF vecVars, slotVars, mapVars, history, lossVars
<1>. DEFINE d == guard[g].idx
<1>1. /\ guard \in [Guard -> Key \cup {None}] /\ ref_count \in [Slot -> Nat]
      /\ guard[g] \in Key /\ guard[g] # None /\ d \in Slot /\ len \in Nat
      /\ stack \in Seq(Slot) /\ Slot \subseteq Nat
  BY SlotMapAssumption DEF Core, TypeOK, CloneGuard, Key, Slot
<1>2. /\ UNCHANGED <<len, chunks, next_free, version, data, free_head, num_elems, life, th,
                     stack, keyOf, drops, leaked, uncounted>>
      /\ ref_count' = [ref_count EXCEPT ![d] = ref_count[d] + 1]
      /\ guard' = [guard EXCEPT ![h] = guard[g]]
      /\ guard[h] = None /\ \A t \in Thread : th[t].out # h
  BY DEF CloneGuard, Unused
<1>3. stranded' \subseteq Guard  BY DEF CloneGuard, Core, TypeOK
<1>4. g \in RefGuards(d)  BY <1>1 DEF RefGuards
<1>. HIDE DEF d
<1>5. ref_count[d] >= 1 /\ ref_count[d] \in Nat  BY <1>1, <1>4, Referenced DEF Core
<1>6. /\ ref_count' \in [Slot -> Nat] /\ ref_count'[d] = ref_count[d] + 1
      /\ \A s \in Slot : s # d => ref_count'[s] = ref_count[s]
  BY <1>1, <1>2, <1>5
<1>7. /\ guard' \in [Guard -> Key \cup {None}] /\ guard'[h] = guard[g]
      /\ \A f \in Guard \ {h} : guard'[f] = guard[f]
  BY <1>1, <1>2
<1>8. TypeOK'
  BY <1>2, <1>3, <1>6, <1>7 DEF Core, TypeOK
<1>9. LocalsSound'
  BY <1>1, <1>2, <1>5, <1>6 DEF Core, LocalsSound
<1>10. GuardsReserved'
  <2>1. \A t \in Thread : th[t].out # None => th[t].out \in Guard \ {h}
    BY <1>2 DEF Core, TypeOK, ThreadState
  <2>. QED  BY <1>2, <1>7, <2>1 DEF Core, GuardsReserved
<1>11. RefCountExact'
  <2>1. ASSUME NEW s \in Slot
        PROVE  ref_count'[s] =
                 MapRef(s)' + Cardinality(RefGuards(s))' + Cardinality(RefThreads(s))'
    <3>1. Cardinality(RefGuards(s)) \in Nat
      BY SlotMapAssumption, FS_Subset, FS_CardinalityType DEF RefGuards
    <3>2. Cardinality(RefGuards(s))' =
            Cardinality(RefGuards(s)) + (IF guard[g].idx = s THEN 1 ELSE 0)
      BY <1>1, <1>2, <1>7, <3>1, GuardRefs
    <3>3. Cardinality(RefThreads(s)) \in Nat
      BY SlotMapAssumption, FS_Subset, FS_CardinalityType DEF RefThreads
    <3>4. MapRef(s)' = MapRef(s) /\ MapRef(s) \in {0, 1} /\ RefThreads(s)' = RefThreads(s)
      BY <1>2 DEF MapRef, Occupied, RefThreads
    <3>5. ref_count[s] = MapRef(s) + Cardinality(RefGuards(s)) + Cardinality(RefThreads(s))
      BY DEF Core, RefCountExact
    <3>6. Cardinality(RefThreads(s))' = Cardinality(RefThreads(s))  BY <3>4
    <3>7. CASE s = d  BY <1>6, <3>1, <3>2, <3>3, <3>4, <3>5, <3>6, <3>7 DEF d
    <3>8. CASE s # d  BY <1>6, <3>1, <3>2, <3>3, <3>4, <3>5, <3>6, <3>8 DEF d
    <3>. QED  BY <3>7, <3>8
  <2>. QED  BY <2>1 DEF RefCountExact
<1>12. ExclusiveOwner'
  <2>1. \A t \in Thread, s \in Slot : Owns(t, s)' = Owns(t, s)  BY <1>2 DEF Owns
  <2>2. \A s \in Slot : Occupied(s)' = Occupied(s) /\ OnFreeList(s)' = OnFreeList(s)
    BY <1>2 DEF Occupied, OnFreeList
  <2>3. \A s \in Slot : ref_count[s] = 0 => ref_count'[s] = 0  BY <1>5, <1>6
  <2>. QED  BY <1>2, <2>1, <2>2, <2>3 DEF Core, ExclusiveOwner
<1>13. FreeListSound'
  <2>1. FreeListSound /\ \A i \in 1 .. Len(stack) : stack[i] \in Slot /\ stack[i] # d
    BY <1>1, <1>5 DEF Core, FreeListSound
  <2>. QED  BY <1>1, <1>2, <1>6, <2>1, FreeListUnfold, FreeListFold
<1>14. ReadsCurrent'  BY <1>2 DEF Core, ReadsCurrent
<1>15. NoSlotLost'
  <2>1. \A s \in Slot : ref_count[s] > 0 => ref_count'[s] > 0  BY <1>1, <1>6
  <2>2. \A t \in Thread, s \in Slot : Owns(t, s)' = Owns(t, s)  BY <1>2 DEF Owns
  <2>3. \A s \in Slot : Occupied(s)' = Occupied(s) /\ OnFreeList(s)' = OnFreeList(s)
    BY <1>2 DEF Occupied, OnFreeList
  <2>. QED  BY <1>2, <2>1, <2>2, <2>3 DEF Core, NoSlotLost
<1>. QED  BY <1>8, <1>9, <1>10, <1>11, <1>12, <1>13, <1>14, <1>15 DEF Core

\* A step that moves none of these words keeps what relates them.
LEMMA Frame ==
  ASSUME Core, TypeOK',
         UNCHANGED <<len, free_head, next_free, ref_count, version, guard, th, stack, leaked>>
  PROVE  Core'
<1>1. \A t \in Thread, s \in Slot : Owns(t, s)' = Owns(t, s)  BY DEF Owns
<1>2. \A s \in Slot : /\ Occupied(s)' = Occupied(s) /\ OnFreeList(s)' = OnFreeList(s)
                      /\ MapRef(s)' = MapRef(s)
                      /\ RefGuards(s)' = RefGuards(s) /\ RefThreads(s)' = RefThreads(s)
  BY DEF Occupied, OnFreeList, MapRef, RefGuards, RefThreads
<1>3. LocalsSound' /\ GuardsReserved' /\ ReadsCurrent'
  BY DEF Core, LocalsSound, GuardsReserved, ReadsCurrent
<1>4. RefCountExact'  BY <1>2 DEF Core, RefCountExact
<1>5. ExclusiveOwner'  BY <1>1, <1>2 DEF Core, ExclusiveOwner
<1>6. FreeListSound'  BY FreeListUnfold, FreeListFold DEF Core, TypeOK
<1>7. NoSlotLost'  BY <1>1, <1>2 DEF Core, NoSlotLost
<1>. QED  BY <1>3, <1>4, <1>5, <1>6, <1>7 DEF Core

LEMMA EndStep ==
  ASSUME Core, CloseMap \/ DropMap \/ UNCHANGED vars
  PROVE  Core' /\ free_head' = free_head
<1>. USE DEF vecVars, slotVars, mapVars, history, lossVars
<1>1. UNCHANGED <<len, free_head, next_free, ref_count, version, guard, th, stack, leaked>>
  BY DEF CloseMap, DropMap, vars
<1>2. CASE CloseMap
  <2>1. TypeOK'  BY <1>2 DEF Core, TypeOK, CloseMap
  <2>. QED  BY <1>1, <2>1, Frame
<1>3. CASE DropMap
  <2>. DEFINE Dying(v) == {s \in Slot : /\ Reachable(s) /\ version[s] % 2 = 1 /\ data[s] = v}
  <2>1. IsFiniteSet(Slot)
    <3>1. 0 \in Int /\ MaxSlots - 1 \in Int  BY SlotMapAssumption
    <3>2. IsFiniteSet(0 .. MaxSlots - 1)  BY <3>1, FS_Interval
    <3>. QED  BY <3>2 DEF Slot
  <2>2. \A v \in Value : Cardinality(Dying(v)) \in Nat
    <3>1. TAKE v \in Value
    <3>2. IsFiniteSet(Dying(v))  BY <2>1, FS_Subset
    <3>. QED  BY <3>2, FS_CardinalityType
  <2>3. drops' = [v \in Value |-> drops[v] + Cardinality(Dying(v))]
    BY <1>3 DEF DropMap
  <2>. HIDE DEF Dying
  <2>4. drops \in [Value -> Nat]  BY DEF Core, TypeOK
  <2>5. drops' \in [Value -> Nat]  BY <2>2, <2>3, <2>4
  <2>6. TypeOK'  BY <1>3, <2>5 DEF Core, TypeOK, DropMap
  <2>. QED  BY <1>1, <2>6, Frame
<1>4. CASE UNCHANGED vars
  <2>1. TypeOK'  BY <1>4 DEF Core, TypeOK, vars
  <2>. QED  BY <1>1, <2>1, Frame
<1>. QED  BY <1>2, <1>3, <1>4

LEMMA InitCore ==
  ASSUME Init
  PROVE  Core
<1>1. /\ 0 \in Slot /\ 0 \in Version /\ 0 \in 0 .. CountMod - 1 /\ 0 \in 0 .. MaxSlots
      /\ SENTINEL \notin Slot
  BY SlotMapAssumption, SmallVersions DEF Slot, SENTINEL
<1>2. TypeOK
  <2>1. th \in [Thread -> ThreadState]  BY IdleType DEF Init
  <2>2. free_head \in FreeHead  BY DEF Init, FreeHead
  <2>3. chunks \subseteq {ChunkOf(s) : s \in Slot}
    <3>1. 0 .. Capacity - 1 \subseteq Slot  BY SlotMapAssumption DEF Slot
    <3>2. chunks = {ChunkOf(i) : i \in 0 .. Capacity - 1}  BY DEF Init, ChunksFor
    <3>. QED  BY <3>1, <3>2
  <2>. QED  BY <1>1, <2>1, <2>2, <2>3 DEF Init, TypeOK
<1>3. \A t \in Thread : th[t].pc = "idle" /\ th[t].out = None  BY DEF Init, Idle
<1>4. \A s \in Slot : version[s] = 0 /\ ref_count[s] = 0 /\ ~Occupied(s)
  BY DEF Init, Occupied
<1>5. LocalsSound  BY <1>3, <1>4 DEF LocalsSound
<1>6. GuardsReserved  BY <1>3 DEF GuardsReserved
<1>7. RefCountExact
  <2>1. \A s \in Slot : RefGuards(s) = {} /\ RefThreads(s) = {}
    BY <1>3 DEF Init, RefGuards, RefThreads, RefPC
  <2>2. Cardinality({}) = 0  BY FS_EmptySet
  <2>. QED  BY <1>4, <2>1, <2>2 DEF RefCountExact, MapRef
<1>8. \A t \in Thread, s \in Slot : ~Owns(t, s)  BY <1>3 DEF Owns, OwnerPC
<1>9. ExclusiveOwner  BY <1>8 DEF ExclusiveOwner
<1>10. FreeListSound  BY DEF Init, FreeListSound
<1>11. ReadsCurrent  BY <1>3 DEF ReadsCurrent
<1>12. NoSlotLost  BY SlotMapAssumption DEF Init, NoSlotLost, Slot
<1>. QED  BY <1>2, <1>5, <1>6, <1>7, <1>9, <1>10, <1>11, <1>12 DEF Core

----------------------------------------------------------------------------
(* The theorems *)

\* The tag only grows.
LEMMA TagGrows ==
  ASSUME [Next]_vars, free_head.tag \in Nat
  PROVE  free_head'.tag \in Nat /\ free_head'.tag >= free_head.tag
<1>. USE DEF vecVars, slotVars, mapVars, history, lossVars
<1>1. ASSUME NEW t \in Thread, Call(t) \/ Step(t)
      PROVE  free_head'.tag \in Nat /\ free_head'.tag >= free_head.tag
  BY <1>1, TagStep
<1>2. ASSUME \/ \E g, h \in Guard : CloneGuard(g, h)
             \/ CloseMap \/ DropMap \/ UNCHANGED vars
      PROVE  free_head'.tag \in Nat /\ free_head'.tag >= free_head.tag
  <2>1. free_head' = free_head  BY <1>2 DEF CloneGuard, CloseMap, DropMap, vars
  <2>. QED  BY <2>1
<1>. QED  BY <1>1, <1>2 DEF Next, Freed

LEMMA InitInv ==
  ASSUME Init
  PROVE  IInv
<1>1. free_head.tag = 0  BY DEF Init
<1>. QED  BY <1>1, InitCore DEF IInv

LEMMA StepInv ==
  ASSUME IInv, [Next]_vars
  PROVE  IInv'
<1>1. free_head'.tag \in Nat /\ free_head'.tag >= free_head.tag /\ free_head.tag \in Nat
  BY TagGrows DEF IInv
<1>2. NoTagWrap' => NoTagWrap /\ Core
  BY <1>1, SlotMapAssumption DEF NoTagWrap, IInv
<1>3. ASSUME NoTagWrap, Core, NEW t \in Thread, Call(t) \/ Step(t)  PROVE Core'
  BY <1>3, TypeStep, LocalsStep, ReservedStep, RefStep, OwnerStep, FreeListStep,
     ReadsStep, LostStep DEF Core
<1>4. ASSUME Core, NEW g \in Guard, NEW h \in Guard, CloneGuard(g, h)  PROVE Core'
  BY <1>4, CloneStep
<1>5. ASSUME Core, CloseMap \/ DropMap \/ UNCHANGED vars  PROVE Core'
  BY <1>5, EndStep
<1>6. \/ \E t \in Thread : Call(t) \/ Step(t)
      \/ \E g, h \in Guard : CloneGuard(g, h)
      \/ CloseMap \/ DropMap \/ UNCHANGED vars
  BY DEF Next, Freed
<1>7. NoTagWrap /\ Core => Core'  BY <1>3, <1>4, <1>5, <1>6
<1>. QED  BY <1>1, <1>2, <1>7 DEF IInv

\* As long as fewer than TagMod exchanges of the free list have happened, the
\* words of the map have their types in every reachable state: no count below
\* zero, no index but those of the vector (slot.rs, vec.rs).
THEOREM Types == Spec => [](NoTagWrap => TypeOK)
<1>1. Init => IInv  BY InitInv
<1>2. IInv /\ [Next]_vars => IInv'  BY StepInv
<1>3. IInv => (NoTagWrap => TypeOK)  BY DEF IInv, Core
<1>. QED  BY <1>1, <1>2, <1>3, PTL DEF Spec

\* Under the same condition every reference count is exact: the map's own
\* reference, the guards and the calls in progress, and nothing else.
THEOREM References == Spec => [](NoTagWrap => RefCountExact)
<1>1. Init => IInv  BY InitInv
<1>2. IInv /\ [Next]_vars => IInv'  BY StepInv
<1>3. IInv => (NoTagWrap => RefCountExact)  BY DEF IInv, Core
<1>. QED  BY <1>1, <1>2, <1>3, PTL DEF Spec

\* Under the same condition a slot that is being filled, destroyed or pushed on
\* the free list belongs to one thread: the insertion's write and the
\* destructor's are exclusive (SAFETY comments, lib.rs:376 and slot.rs:136-143).
THEOREM Ownership == Spec => [](NoTagWrap => ExclusiveOwner)
<1>1. Init => IInv  BY InitInv
<1>2. IInv /\ [Next]_vars => IInv'  BY StepInv
<1>3. IInv => (NoTagWrap => ExclusiveOwner)  BY DEF IInv, Core
<1>. QED  BY <1>1, <1>2, <1>3, PTL DEF Spec

\* Under the same condition the free list is a list, of slots no one uses: the
\* tag keeps a stale pop from installing a stale successor (lib.rs:571-580).
THEOREM FreeList == Spec => [](NoTagWrap => FreeListSound)
<1>1. Init => IInv  BY InitInv
<1>2. IInv /\ [Next]_vars => IInv'  BY StepInv
<1>3. IInv => (NoTagWrap => FreeListSound)  BY DEF IInv, Core
<1>. QED  BY <1>1, <1>2, <1>3, PTL DEF Spec

\* Under the same condition only a panic of the closure or of a destructor
\* takes a slot out of use.
THEOREM Slots == Spec => [](NoTagWrap => NoSlotLost)
<1>1. Init => IInv  BY InitInv
<1>2. IInv /\ [Next]_vars => IInv'  BY StepInv
<1>3. IInv => (NoTagWrap => NoSlotLost)  BY DEF IInv, Core
<1>. QED  BY <1>1, <1>2, <1>3, PTL DEF Spec

=============================================================================
