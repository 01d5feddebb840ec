------------------------- MODULE SlotMapValueProofs -------------------------
(***************************************************************************)
(* What AtomicSlotMap does to the values moved into it, for any number of  *)
(* threads, guards, values and slots: guards and keys lead to live values, *)
(* destructors run once, and nothing is forgotten.  The proofs build on    *)
(* Core: the counts are exact and the owners exclusive.                    *)
(***************************************************************************)
EXTENDS SlotMapProofs

----------------------------------------------------------------------------
(* Values in hand *)

\* A step of a call either keeps the value its thread has in hand, or is the
\* last of an insertion that concerns the value.
KeepsValue(t) ==
  th'[t].val = th[t].val /\ (th'[t].pc \in InsertPC <=> th[t].pc \in InsertPC)
LosesValue(t) == th'[t].val = None /\ th'[t].pc \notin InsertPC

LEMMA ValueMoves ==
  ASSUME Core, NEW t \in Thread, Step(t)
  PROVE  KeepsValue(t) \/ LosesValue(t)
<1>1. /\ th \in [Thread -> ThreadState] /\ th[t] \in ThreadState
      /\ ReadsCurrent
  BY DEF Core, TypeOK
<1>2. ASSUME NEW r, Become(t, r)  PROVE th'[t] = r
  BY <1>1, <1>2 DEF Become
<1>3. CASE Return(t)
  BY <1>2, <1>3 DEF Return, Idle, LosesValue, InsertPC
<1>. USE <1>1, <1>2 DEF KeepsValue, LosesValue, InsertPC, At, ThreadState
<1>4. CASE PopStep(t)
  BY <1>4 DEF PopStep, PopReadNext, PopSwap, PopRetry, PopTarget
<1>5. CASE PushZeroed(t) \/ EnsureChunk(t) \/ LoadVersion(t) \/ WriteValue(t) \/ StoreRef(t)
  BY <1>5 DEF PushZeroed, EnsureChunk, LoadVersion, WriteValue, StoreRef
<1>6. CASE CallErr(t) \/ StoreVersion(t)
  <2>1. CASE CallErr(t)  BY <2>1 DEF CallErr
  <2>2. CASE StoreVersion(t)
    <3>1. th'[t] = [Idle EXCEPT !.pc = "count_up", !.op = "insert"]
      BY <2>2 DEF StoreVersion
    <3>. QED  BY <3>1 DEF Idle
  <2>. QED  BY <1>6, <2>1, <2>2
<1>7. CASE CallPanics(t) \/ CountUp(t) \/ CheckVersion(t) \/ RemoveFails(t)
           \/ CountDown(t) \/ DropValuePanics(t)
  BY <1>3, <1>7 DEF CallPanics, CountUp, CheckVersion, RemoveFails, CountDown,
                    DropValuePanics
<1>8. CASE AcquireSwap(t) \/ CheckFails(t) \/ RemoveSwap(t) \/ RemoveDec(t)
  BY <1>8 DEF AcquireSwap, CheckFails, RemoveSwap, RemoveDec
<1>9. CASE AcquireRetry(t) \/ UndoAcquire(t)
  BY <1>3, <1>9 DEF AcquireRetry, UndoAcquire
<1>10. CASE DropValue(t) \/ PushLoad(t) \/ PushStoreNext(t) \/ PushRetry(t)
  BY <1>10 DEF DropValue, PushLoad, PushStoreNext, PushRetry
<1>11. CASE PushSwap(t)
  <2>1. CASE th[t].op = "remove"  BY <1>11, <2>1 DEF PushSwap, Idle
  <2>2. CASE th[t].op # "remove"  BY <1>11, <2>2 DEF PushSwap, Idle
  <2>. QED  BY <2>1, <2>2
<1>. QED
  BY <1>4, <1>5, <1>6, <1>7, <1>8, <1>9, <1>10, <1>11
  DEF Step, InsertStep, GetStep, RemoveStep, PushStep, DropStep

\* The calls: only an insertion takes a value in hand.
LEMMA ValueCalls ==
  ASSUME Core, NEW t \in Thread
  PROVE  /\ \A v \in Value : BeginInsert(t, v) =>
              th'[t].val = v /\ th'[t].pc \in {"pop_next", "push_zeroed"} /\ Fresh(v)
         /\ \A k \in Key, g \in Guard : BeginGet(t, k, g) => KeepsValue(t)
         /\ \A k \in Key : BeginRemove(t, k) => KeepsValue(t)
         /\ \A g \in Guard : DropGuard(t, g) => KeepsValue(t)
<1>1. th \in [Thread -> ThreadState] /\ th[t] \in ThreadState  BY DEF Core, TypeOK
<1>2. ASSUME NEW r, Become(t, r)  PROVE th'[t] = r
  BY <1>1, <1>2 DEF Become
<1>. USE <1>1, <1>2 DEF KeepsValue, InsertPC, At, ThreadState
<1>3. ASSUME NEW v \in Value, BeginInsert(t, v)
      PROVE  th'[t].val = v /\ th'[t].pc \in {"pop_next", "push_zeroed"} /\ Fresh(v)
  BY <1>3 DEF BeginInsert, PopTarget
<1>4. ASSUME NEW k \in Key, NEW g \in Guard, BeginGet(t, k, g)  PROVE KeepsValue(t)
  <2>1. th'[t] = [th[t] EXCEPT !.pc = "acquire", !.op = "get", !.idx = k.idx,
                               !.ver = k.ver, !.rc = ref_count[k.idx], !.out = g]
    BY <1>4 DEF BeginGet
  <2>2. th[t].pc = "idle"  BY <1>4 DEF BeginGet
  <2>3. th'[t].val = th[t].val /\ th'[t].pc = "acquire"  BY <2>1
  <2>. QED  BY <2>2, <2>3
<1>5. ASSUME NEW k \in Key, BeginRemove(t, k)  PROVE KeepsValue(t)
  BY <1>5 DEF BeginRemove
<1>6. ASSUME NEW g \in Guard, DropGuard(t, g)  PROVE KeepsValue(t)
  BY <1>6 DEF DropGuard
<1>. QED  BY <1>3, <1>4, <1>5, <1>6

\* Which steps write the content of a slot, publish a value or destroy one.
LEMMA DataStep ==
  ASSUME NEW t \in Thread, Call(t) \/ Step(t)
  PROVE  /\ data' = data \/ WriteValue(t)
         /\ keyOf' = keyOf \/ StoreVersion(t)
         /\ drops' = drops \/ CallErr(t) \/ CallPanics(t) \/ DropStep(t)
         /\ life' = life /\ stranded' = stranded
BY DEF Call, Step, InsertStep, PopStep, GetStep, RemoveStep, PushStep, DropStep,
       BeginInsert, BeginGet, BeginRemove, DropGuard, PopReadNext, PopSwap, PopRetry,
       PushZeroed, EnsureChunk, LoadVersion, WriteValue, CallErr, CallPanics, StoreRef,
       StoreVersion, CountUp, AcquireSwap, AcquireRetry, CheckVersion, CheckFails,
       UndoAcquire, RemoveSwap, RemoveFails, RemoveDec, CountDown, DropValue,
       DropValuePanics, PushLoad, PushStoreNext, PushSwap, PushRetry,
       vecVars, slotVars, mapVars, history, lossVars

\* A value in the hand of another thread is neither published nor destroyed by
\* a step of thread t, nor is the slot overwritten that it was put into.
LEMMA HandsOff ==
  ASSUME Core, ValuesInHand, NEW t \in Thread, Call(t) \/ Step(t),
         At(t, "drop_value") => Alive(th[t].idx), NEW u \in Thread \ {t}
  PROVE  /\ th[u].val # None => /\ keyOf'[th[u].val] = keyOf[th[u].val]
                                /\ drops'[th[u].val] = drops[th[u].val]
         /\ th[u].pc \in {"store_ref", "store_version"} =>
              data'[th[u].idx] = data[th[u].idx]
<1>1. /\ th[t] \in ThreadState /\ th[u] \in ThreadState
      /\ keyOf \in [Value -> Key \cup {None}] /\ drops \in [Value -> Nat]
      /\ data \in [Slot -> Value \cup {None}]
  BY DEF Core, TypeOK
<1>2. th[u].val # None => /\ keyOf[th[u].val] = None /\ th[t].val # th[u].val
                          /\ th[u].val \in Value
  BY <1>1 DEF ValuesInHand, ThreadState
<1>3. th[u].val # None => keyOf'[th[u].val] = keyOf[th[u].val]
  <2>1. CASE StoreVersion(t)  BY <1>1, <1>2, <2>1 DEF StoreVersion
  <2>2. CASE keyOf' = keyOf  BY <2>2
  <2>. QED  BY <2>1, <2>2, DataStep
<1>4. th[u].val # None => drops'[th[u].val] = drops[th[u].val]
  <2>1. CASE CallErr(t) \/ CallPanics(t)
    BY <1>1, <1>2, <2>1 DEF CallErr, CallPanics
  <2>2. CASE DropStep(t)
    <3>1. keyOf[data[th[t].idx]] # None
      BY <2>2 DEF DropStep, DropValue, DropValuePanics, Alive
    <3>. QED  BY <1>1, <1>2, <2>2, <3>1 DEF DropStep, DropValue, DropValuePanics, Destroy
  <2>3. CASE drops' = drops  BY <2>3
  <2>. QED  BY <2>1, <2>2, <2>3, DataStep
<1>5. th[u].pc \in {"store_ref", "store_version"} => data'[th[u].idx] = data[th[u].idx]
  <2>1. CASE WriteValue(t)
    <3>1. th[u].pc \in {"store_ref", "store_version"} => th[u].idx # th[t].idx
      BY <1>1, <2>1 DEF WriteValue, At, Core, ExclusiveOwner, Owns, OwnerPC, ThreadState
    <3>. QED  BY <1>1, <2>1, <3>1 DEF WriteValue, ThreadState
  <2>2. CASE data' = data  BY <2>2
  <2>. QED  BY <2>1, <2>2, DataStep
<1>. QED  BY <1>3, <1>4, <1>5

LEMMA HandStep ==
  ASSUME Core, ValuesInHand, NEW t \in Thread, Call(t) \/ Step(t),
         At(t, "drop_value") => Alive(th[t].idx)
  PROVE  ValuesInHand'
<1>1. /\ th[t] \in ThreadState /\ th[t].idx \in Slot
      /\ keyOf \in [Value -> Key \cup {None}] /\ drops \in [Value -> Nat]
      /\ data \in [Slot -> Value \cup {None}]
  BY DEF Core, TypeOK, ThreadState
<1>. DEFINE Mine == /\ th'[t].val # None <=> th'[t].pc \in InsertPC
                    /\ th'[t].val # None =>
                         /\ keyOf'[th'[t].val] = None /\ drops'[th'[t].val] = 0
                         /\ \A u \in Thread \ {t} : th[u].val # th'[t].val
                    /\ th'[t].pc \in {"store_ref", "store_version"} =>
                         data'[th'[t].idx] = th'[t].val
<1>2. ASSUME Mine  PROVE ValuesInHand'
  <2>1. \A u \in Thread \ {t} : th'[u] = th[u]  BY Others
  <2>. QED  BY <1>2, <2>1, HandsOff DEF ValuesInHand
\* A thread that keeps its value neither publishes nor destroys it.
<1>3. ASSUME KeepsValue(t), keyOf' = keyOf, drops' = drops,
             th'[t].pc \in {"store_ref", "store_version"} => data'[th'[t].idx] = th'[t].val
      PROVE  Mine
  BY <1>3 DEF KeepsValue, ValuesInHand
<1>4. ASSUME LosesValue(t)  PROVE Mine
  BY <1>4, SlotMapAssumption DEF LosesValue, InsertPC
<1>. HIDE DEF Mine
<1>5. ASSUME Step(t), KeepsValue(t)  PROVE Mine
  <2>1. CASE DropStep(t)
    <3>1. th[t].pc = "drop_value" /\ th'[t].pc \notin InsertPC
      BY <2>1, OtherMoves DEF DropStep, Goes, InsertPC
    <3>2. th'[t].val = None
      BY <1>5, <3>1 DEF KeepsValue, ValuesInHand, InsertPC
    <3>. QED  BY <1>4, <3>1, <3>2 DEF LosesValue
  <2>2. CASE CallErr(t) \/ CallPanics(t) \/ StoreVersion(t)
    <3>1. th[t].pc \in InsertPC /\ th'[t].pc \notin InsertPC
      BY <2>2, InsertMoves DEF Goes, InsertPC
    <3>. QED  BY <1>5, <3>1 DEF KeepsValue
  <2>3. CASE WriteValue(t)
    <3>1. Goes(t, "call", "store_ref")  BY <2>3, InsertMoves
    <3>2. data'[th[t].idx] = th[t].val  BY <1>1, <2>3 DEF WriteValue
    <3>3. keyOf' = keyOf /\ drops' = drops  BY <2>3 DEF WriteValue, history, mapVars
    <3>. QED  BY <1>3, <1>5, <3>1, <3>2, <3>3 DEF Goes, KeepsValue
  <2>4. CASE StoreRef(t)
    <3>1. Goes(t, "store_ref", "store_version")  BY <2>4, InsertMoves
    <3>2. data' = data /\ keyOf' = keyOf /\ drops' = drops
      BY <2>4 DEF StoreRef, history, mapVars
    <3>. QED  BY <1>3, <1>5, <3>1, <3>2 DEF Goes, KeepsValue, ValuesInHand
  <2>5. ASSUME ~DropStep(t), ~CallErr(t), ~CallPanics(t), ~StoreVersion(t),
               ~WriteValue(t), ~StoreRef(t)
        PROVE  Mine
    <3>1. th'[t].pc \notin {"store_ref", "store_version"}
      BY <1>5, <2>5, InsertMoves, OtherMoves
      DEF Step, InsertStep, PopStep, GetStep, RemoveStep, PushStep, DropStep, Goes, PopTarget
    <3>2. keyOf' = keyOf /\ drops' = drops  BY <1>5, <2>5, DataStep
    <3>. QED  BY <1>3, <1>5, <3>1, <3>2
  <2>. QED  BY <2>1, <2>2, <2>3, <2>4, <2>5
<1>6. ASSUME Step(t)  PROVE Mine
  BY <1>4, <1>5, <1>6, ValueMoves
<1>7. ASSUME Call(t)  PROVE Mine
  <2>1. ASSUME NEW v \in Value, BeginInsert(t, v)  PROVE Mine
    <3>1. th'[t].val = v /\ th'[t].pc \in {"pop_next", "push_zeroed"} /\ Fresh(v)
      BY <2>1, ValueCalls
    <3>2. keyOf' = keyOf /\ drops' = drops  BY <2>1 DEF BeginInsert, history, mapVars
    <3>. QED  BY <3>1, <3>2, SlotMapAssumption DEF Fresh, InsertPC, Mine
  <2>2. ASSUME KeepsValue(t), th'[t].pc \notin InsertPC, keyOf' = keyOf, drops' = drops
        PROVE  Mine
    BY <1>3, <2>2 DEF InsertPC
  <2>3. ASSUME NEW k \in Key, NEW g \in Guard, BeginGet(t, k, g)  PROVE Mine
    BY <2>2, <2>3, ValueCalls, CallMoves DEF BeginGet, history, mapVars, InsertPC
  <2>4. ASSUME NEW k \in Key, BeginRemove(t, k)  PROVE Mine
    BY <2>2, <2>4, ValueCalls, CallMoves DEF BeginRemove, history, mapVars, InsertPC
  <2>5. ASSUME NEW g \in Guard, DropGuard(t, g)  PROVE Mine
    <3>1. th'[t].pc \notin InsertPC  BY <2>5, CallMoves DEF Goes, InsertPC
    <3>. QED  BY <2>2, <2>5, <3>1, ValueCalls DEF DropGuard, history, mapVars
  <2>. QED  BY <1>7, <2>1, <2>3, <2>4, <2>5 DEF Call
<1>. QED  BY <1>2, <1>6, <1>7

----------------------------------------------------------------------------
(* Living slots *)

\* A count leaves zero when its owner stores it, and comes back to zero when a
\* thread goes on to destroy the value.
LEMMA CountMoves ==
  ASSUME Core, NEW t \in Thread, Call(t) \/ Step(t), NEW s \in Slot
  PROVE  /\ ref_count[s] = 0 => ref_count'[s] = 0 \/ (StoreRef(t) /\ th[t].idx = s)
         /\ ref_count[s] > 0 /\ ref_count'[s] = 0 =>
              th'[t].pc = "drop_value" /\ th'[t].idx = s
<1>1. /\ th[t] \in ThreadState /\ th[t].idx \in Slot /\ ref_count \in [Slot -> Nat]
      /\ guard \in [Guard -> Key \cup {None}]
  BY DEF Core, TypeOK, ThreadState
<1>. DEFINE Goal == /\ ref_count[s] = 0 => ref_count'[s] = 0 \/ (StoreRef(t) /\ th[t].idx = s)
                    /\ ref_count[s] > 0 /\ ref_count'[s] = 0 =>
                         th'[t].pc = "drop_value" /\ th'[t].idx = s
<1>. SUFFICES Goal  OBVIOUS
<1>2. CASE ref_count' = ref_count  BY <1>1, <1>2
<1>3. CASE StoreRef(t)  BY <1>1, <1>3 DEF StoreRef
<1>4. CASE AcquireSwap(t)
  <2>1. ref_count[th[t].idx] >= 1
    BY <1>4 DEF AcquireSwap, At, Core, LocalsSound
  <2>. QED  BY <1>1, <1>4, <2>1 DEF AcquireSwap
<1>5. CASE UndoAcquire(t) \/ RemoveDec(t)
  <2>1. /\ ref_count' = [ref_count EXCEPT ![th[t].idx] = @ - 1]
        /\ t \in RefThreads(th[t].idx)
    BY <1>5 DEF UndoAcquire, RemoveDec, DecRefCount, RefThreads, RefPC, At
  <2>2. ref_count[th[t].idx] >= 1  BY <1>1, <2>1, Referenced DEF Core
  <2>3. ref_count[th[t].idx] = 1 =>
          th'[t].pc = "drop_value" /\ th'[t].idx = th[t].idx
    BY <1>5, OtherMoves DEF LastRef, Goes
  <2>. QED  BY <1>1, <2>1, <2>2, <2>3
<1>6. ASSUME NEW g \in Guard, DropGuard(t, g)  PROVE Goal
  <2>. DEFINE d == guard[g].idx
  <2>1. /\ ref_count' = [ref_count EXCEPT ![d] = @ - 1] /\ guard[g] # None
        /\ d \in Slot
    BY <1>1, <1>6 DEF DropGuard, DecRefCount, Key
  <2>2. g \in RefGuards(d)  BY <2>1 DEF RefGuards
  <2>3. ref_count[d] >= 1  BY <2>1, <2>2, Referenced DEF Core
  <2>4. ref_count[d] = 1 => th'[t].pc = "drop_value" /\ th'[t].idx = d
    BY <1>6, CallMoves DEF LastRef
  <2>. HIDE DEF d
  <2>. QED  BY <1>1, <2>1, <2>3, <2>4
<1>7. \/ ref_count' = ref_count \/ StoreRef(t) \/ AcquireSwap(t)
      \/ UndoAcquire(t) \/ RemoveDec(t) \/ \E g \in Guard : DropGuard(t, g)
  BY DEF Call, Step, InsertStep, PopStep, GetStep, RemoveStep, PushStep, DropStep,
         BeginInsert, BeginGet, BeginRemove, PopReadNext, PopSwap, PopRetry,
         PushZeroed, EnsureChunk, LoadVersion, WriteValue, CallErr, CallPanics,
         StoreVersion, CountUp, AcquireRetry, CheckVersion, CheckFails,
         RemoveSwap, RemoveFails, CountDown, DropValue,
         DropValuePanics, PushLoad, PushStoreNext, PushSwap, PushRetry,
         vecVars, slotVars, mapVars, history, lossVars
<1>. HIDE DEF Goal
<1>. QED  BY <1>2, <1>3, <1>4, <1>5, <1>6, <1>7

\* Only a publication makes a slot occupied.
LEMMA VersionMoves ==
  ASSUME Core, NEW t \in Thread, Call(t) \/ Step(t), NEW s \in Slot
  PROVE  \/ version'[s] = version[s]
         \/ StoreVersion(t) /\ th[t].idx = s
         \/ RemoveSwap(t) /\ th[t].idx = s /\ ~Occupied(s)'
<1>1. /\ th[t] \in ThreadState /\ th[t].idx \in Slot /\ version \in [Slot -> Version]
  BY DEF Core, TypeOK, ThreadState
<1>2. CASE StoreVersion(t)  BY <1>1, <1>2 DEF StoreVersion
<1>3. CASE RemoveSwap(t)
  <2>1. version[th[t].idx] % 2 = 1
    BY <1>3 DEF RemoveSwap, At, Core, LocalsSound
  <2>2. ((version[th[t].idx] + 1) % VersionMod) % 2 = 0  BY <1>1, <2>1, Unoccupy
  <2>3. version' = [version EXCEPT ![th[t].idx] = (version[th[t].idx] + 1) % VersionMod]
    BY <1>3 DEF RemoveSwap
  <2>. QED  BY <1>1, <1>3, <2>2, <2>3 DEF Occupied
<1>4. version' = version \/ StoreVersion(t) \/ RemoveSwap(t)
  BY DEF Call, Step, InsertStep, PopStep, GetStep, RemoveStep, PushStep, DropStep,
         BeginInsert, BeginGet, BeginRemove, DropGuard, PopReadNext, PopSwap, PopRetry,
         PushZeroed, EnsureChunk, LoadVersion, WriteValue, CallErr, CallPanics, StoreRef,
         CountUp, AcquireSwap, AcquireRetry, CheckVersion, CheckFails,
         UndoAcquire, RemoveFails, RemoveDec, CountDown, DropValue,
         DropValuePanics, PushLoad, PushStoreNext, PushSwap, PushRetry,
         vecVars, slotVars, mapVars, history, lossVars
<1>. QED  BY <1>2, <1>3, <1>4

\* A thread comes to destroy a value by giving the last reference to it up.
LEMMA LastOne ==
  ASSUME Core, NEW t \in Thread, Call(t) \/ Step(t), th'[t].pc = "drop_value"
  PROVE  /\ th'[t].idx \in Slot /\ ref_count[th'[t].idx] = 1
         /\ th[t].pc \in {"idle", "undo", "rem_dec"}
         /\ \A u \in Thread : ~Owns(u, th'[t].idx)
<1>1. /\ th[t] \in ThreadState /\ th[t].idx \in Slot
      /\ guard \in [Guard -> Key \cup {None}]
  BY DEF Core, TypeOK, ThreadState
<1>2. CASE UndoAcquire(t) \/ RemoveDec(t)
  <2>1. /\ LastRef(th[t].idx) /\ th'[t].idx = th[t].idx /\ th[t].pc \in {"undo", "rem_dec"}
    BY <1>2, OtherMoves DEF Goes
  <2>2. t \in RefThreads(th[t].idx)  BY <2>1 DEF RefThreads, RefPC
  <2>. QED  BY <1>1, <2>1, <2>2, LastReference DEF LastRef
<1>3. ASSUME NEW g \in Guard, DropGuard(t, g)
      PROVE  /\ th'[t].idx \in Slot /\ ref_count[th'[t].idx] = 1
             /\ th[t].pc \in {"idle", "undo", "rem_dec"}
             /\ \A u \in Thread : ~Owns(u, th'[t].idx)
  <2>1. LastRef(guard[g].idx) /\ th'[t].idx = guard[g].idx /\ th[t].pc = "idle"
    BY <1>3, CallMoves DEF Goes
  <2>2. guard[g] # None /\ guard[g].idx \in Slot  BY <1>1, <1>3 DEF DropGuard, Key
  <2>3. g \in RefGuards(guard[g].idx)  BY <2>2 DEF RefGuards
  <2>. QED  BY <2>1, <2>2, <2>3, LastReference DEF LastRef
<1>4. CASE Call(t)
  <2>1. \E g \in Guard : DropGuard(t, g)
    BY <1>4, CallMoves DEF Call, Goes, PopTarget
  <2>. QED  BY <1>3, <2>1
<1>5. CASE Step(t)
  <2>1. UndoAcquire(t) \/ RemoveDec(t)
    BY <1>5, InsertMoves, OtherMoves
    DEF Step, InsertStep, PopStep, GetStep, RemoveStep, PushStep, DropStep, Goes, PopTarget
  <2>. QED  BY <1>2, <2>1
<1>. QED  BY <1>4, <1>5

\* What is in a referenced slot is neither overwritten nor destroyed: whoever
\* writes or destroys owns the slot, and an owner's slot has no reference.
LEMMA StaysAlive ==
  ASSUME Core, ValuesInHand, NEW t \in Thread, Call(t) \/ Step(t),
         At(t, "drop_value") => Alive(th[t].idx),
         NEW s \in Slot, Alive(s),
         WriteValue(t) \/ DropStep(t) => th[t].idx # s
  PROVE  Alive(s)' /\ data'[s] = data[s] /\ keyOf'[data[s]] = keyOf[data[s]]
<1>1. /\ th[t] \in ThreadState /\ th[t].idx \in Slot
      /\ keyOf \in [Value -> Key \cup {None}] /\ drops \in [Value -> Nat]
      /\ data \in [Slot -> Value \cup {None}]
  BY DEF Core, TypeOK, ThreadState
<1>2. /\ data[s] \in Value /\ drops[data[s]] = 0
      /\ keyOf[data[s]] # None /\ keyOf[data[s]].idx = s
  BY DEF Alive
<1>3. data'[s] = data[s]
  <2>1. CASE WriteValue(t)  BY <1>1, <2>1 DEF WriteValue
  <2>. QED  BY <2>1, DataStep
<1>4. th[t].val # None => th[t].val # data[s] /\ th[t].val \in Value
  BY <1>1, <1>2 DEF ValuesInHand, ThreadState
<1>5. keyOf'[data[s]] = keyOf[data[s]]
  <2>1. CASE StoreVersion(t)
    <3>1. th[t].val # None  BY <2>1 DEF StoreVersion, At, ValuesInHand, InsertPC
    <3>. QED  BY <1>1, <1>2, <1>4, <2>1, <3>1 DEF StoreVersion
  <2>. QED  BY <2>1, DataStep
<1>6. drops'[data[s]] = drops[data[s]]
  <2>1. CASE CallErr(t) \/ CallPanics(t)
    <3>1. th[t].val # None  BY <2>1 DEF CallErr, CallPanics, At, ValuesInHand, InsertPC
    <3>. QED  BY <1>1, <1>2, <1>4, <2>1, <3>1 DEF CallErr, CallPanics
  <2>2. CASE DropStep(t)
    <3>1. keyOf[data[th[t].idx]].idx = th[t].idx /\ data[th[t].idx] \in Value
      BY <2>2 DEF DropStep, DropValue, DropValuePanics, Alive
    <3>2. data[th[t].idx] # data[s]  BY <1>2, <2>2, <3>1
    <3>. QED  BY <1>1, <1>2, <2>2, <3>1, <3>2
              DEF DropStep, DropValue, DropValuePanics, Destroy
  <2>. QED  BY <2>1, <2>2, DataStep
<1>. QED  BY <1>2, <1>3, <1>5, <1>6 DEF Alive

LEMMA WriterOwns ==
  ASSUME Core, NEW t \in Thread, WriteValue(t) \/ DropStep(t)
  PROVE  Owns(t, th[t].idx) /\ th[t].idx \in Slot /\ ref_count[th[t].idx] = 0
<1>1. th[t] \in ThreadState /\ th[t].idx \in Slot  BY DEF Core, TypeOK, ThreadState
<1>2. th[t].pc \in {"call", "drop_value"}
  BY DEF WriteValue, DropStep, DropValue, DropValuePanics, At
<1>. QED  BY <1>1, <1>2 DEF Owns, OwnerPC, Core, ExclusiveOwner

LEMMA SlotsStep ==
  ASSUME Core, ValuesInHand, SlotsAlive, NEW t \in Thread, Call(t) \/ Step(t)
  PROVE  SlotsAlive'
<1>1. /\ th[t] \in ThreadState /\ th[t].idx \in Slot
      /\ keyOf \in [Value -> Key \cup {None}] /\ drops \in [Value -> Nat]
      /\ data \in [Slot -> Value \cup {None}] /\ ref_count \in [Slot -> Nat]
      /\ version \in [Slot -> Version]
      /\ \A u \in Thread : th[u].idx \in Slot
  BY DEF Core, TypeOK, ThreadState
<1>2. \A u \in Thread \ {t} : th'[u] = th[u]  BY Others
<1>3. \A s \in Slot : /\ ref_count[s] > 0 =>
                           Alive(s) \/ \E u \in Thread : At(u, "store_version") /\ th[u].idx = s
                      /\ Occupied(s) => keyOf[data[s]].ver = version[s]
  BY DEF SlotsAlive
<1>4. \A u \in Thread : At(u, "drop_value") => Alive(th[u].idx)  BY DEF SlotsAlive
<1>5. \A s \in Slot, u \in Thread : Owns(u, s) =>
        /\ ~Occupied(s) /\ (th[u].pc # "store_version" => ref_count[s] = 0)
        /\ \A w \in Thread \ {u} : ~Owns(w, s)
  BY DEF Core, ExclusiveOwner
<1>6. \A s \in Slot : Occupied(s) => ref_count[s] > 0  BY Referenced DEF Core
\* What is published is alive.
<1>7. ASSUME StoreVersion(t), NEW s \in Slot, s = th[t].idx
      PROVE  Alive(s)' /\ keyOf'[data'[s]].ver = version'[s]
  <2>1. /\ th[t].val # None /\ th[t].val \in Value /\ data[s] = th[t].val
        /\ drops[th[t].val] = 0
    BY <1>1, <1>7 DEF StoreVersion, At, ValuesInHand, InsertPC, ThreadState
  <2>2. /\ version' = [version EXCEPT ![s] = th[t].ver]
        /\ keyOf' = [keyOf EXCEPT ![th[t].val] = [idx |-> s, ver |-> th[t].ver]]
        /\ data' = data /\ drops' = drops
    BY <1>7 DEF StoreVersion
  <2>3. [idx |-> s, ver |-> th[t].ver] \in Key
    BY <1>1, <1>7 DEF StoreVersion, At, Core, LocalsSound, Key, ThreadState
  <2>4. [idx |-> s, ver |-> th[t].ver] # None  BY <2>3, SlotMapAssumption
  <2>. QED  BY <1>1, <2>1, <2>2, <2>4 DEF Alive
\* What was alive and referenced stays so.
<1>8. ASSUME NEW s \in Slot, ref_count[s] > 0, Alive(s)
      PROVE  Alive(s)' /\ data'[s] = data[s] /\ keyOf'[data[s]] = keyOf[data[s]]
  <2>1. WriteValue(t) \/ DropStep(t) => th[t].idx # s  BY <1>8, WriterOwns
  <2>. QED  BY <1>4, <1>8, <2>1, StaysAlive
<1>9. ASSUME NEW s \in Slot, ref_count'[s] > 0
      PROVE  (Alive(s) \/ \E u \in Thread : At(u, "store_version") /\ th[u].idx = s)'
  <2>1. CASE ref_count[s] = 0
    <3>1. StoreRef(t) /\ th[t].idx = s  BY <1>1, <1>9, <2>1, CountMoves
    <3>. QED  BY <3>1, InsertMoves DEF At, Goes
  <2>2. CASE ref_count[s] > 0 /\ Alive(s)  BY <1>8, <2>2
  <2>3. ASSUME ref_count[s] > 0, NEW u \in Thread, At(u, "store_version"), th[u].idx = s
        PROVE  (Alive(s) \/ \E w \in Thread : At(w, "store_version") /\ th[w].idx = s)'
    <3>1. CASE u # t  BY <1>2, <2>3, <3>1 DEF At
    <3>2. CASE u = t
      <4>1. th[t].pc = "store_version"  BY <2>3, <3>2 DEF At
      <4>2. StoreVersion(t)
        BY <4>1, InsertMoves, OtherMoves, CallMoves
        DEF Call, Step, InsertStep, PopStep, GetStep, RemoveStep, PushStep, DropStep, Goes
      <4>. QED  BY <1>7, <2>3, <3>2, <4>2
    <3>. QED  BY <3>1, <3>2
  <2>. QED  BY <1>1, <1>3, <2>1, <2>2, <2>3
<1>10. ASSUME NEW s \in Slot, Occupied(s)'  PROVE keyOf'[data'[s]].ver = version'[s]
  <2>1. CASE version'[s] = version[s]
    <3>1. Occupied(s)  BY <1>10, <2>1 DEF Occupied
    <3>2. ref_count[s] > 0 /\ Alive(s)
      BY <1>3, <1>5, <1>6, <3>1 DEF At, Owns, OwnerPC
    <3>. QED  BY <1>3, <1>8, <2>1, <3>1, <3>2
  <2>2. CASE StoreVersion(t) /\ th[t].idx = s  BY <1>7, <2>2
  <2>. QED  BY <1>10, <2>1, <2>2, VersionMoves
<1>11. ASSUME NEW u \in Thread, th'[u].pc = "drop_value", NEW s \in Slot, s = th'[u].idx
       PROVE  Alive(s)'
  <2>1. CASE u # t
    <3>1. At(u, "drop_value") /\ Alive(s) /\ Owns(u, s)
      BY <1>2, <1>4, <1>11, <2>1 DEF At, Owns, OwnerPC
    <3>2. WriteValue(t) \/ DropStep(t) => th[t].idx # s
      BY <1>5, <2>1, <3>1, WriterOwns
    <3>. QED  BY <1>4, <3>1, <3>2, StaysAlive
  <2>2. CASE u = t
    <3>1. ref_count[s] = 1 /\ \A w \in Thread : ~Owns(w, s)
      BY <1>11, <2>2, LastOne
    <3>2. Alive(s)  BY <1>3, <3>1 DEF At, Owns, OwnerPC
    <3>. QED  BY <1>8, <3>1, <3>2
  <2>. QED  BY <2>1, <2>2
<1>12. \A u \in Thread : th'[u].idx \in Slot
  BY TypeStep DEF TypeOK, ThreadState
<1>13. \A u \in Thread : At(u, "drop_value")' => Alive(th[u].idx)'
  BY <1>11, <1>12 DEF At, Alive
<1>. QED  BY <1>9, <1>10, <1>13 DEF SlotsAlive

\* Only the get that returns a guard gives it a key, and only a guard someone
\* holds is dropped.
LEMMA GuardMoves ==
  ASSUME Core, NEW t \in Thread, Call(t) \/ Step(t), NEW g \in Guard
  PROVE  \/ guard'[g] = guard[g]
         \/ guard'[g] = None /\ g \notin stranded /\ DropGuard(t, g)
         \/ CheckVersion(t) /\ g = th[t].out
<1>1. guard \in [Guard -> Key \cup {None}]  BY DEF Core, TypeOK
<1>2. CASE CheckVersion(t)  BY <1>1, <1>2 DEF CheckVersion
<1>3. ASSUME NEW h \in Guard, DropGuard(t, h)
      PROVE  guard'[g] = guard[g] \/ (guard'[g] = None /\ g \notin stranded /\ g = h)
  BY <1>1, <1>3 DEF DropGuard
<1>4. guard' = guard \/ CheckVersion(t) \/ \E h \in Guard : DropGuard(t, h)
  BY DEF Call, Step, InsertStep, PopStep, GetStep, RemoveStep, PushStep, DropStep,
     BeginInsert, BeginGet, BeginRemove, PopReadNext, PopSwap, PopRetry,
     PushZeroed, EnsureChunk, LoadVersion, WriteValue, CallErr, CallPanics, StoreRef,
     StoreVersion, CountUp, AcquireSwap, AcquireRetry, CheckFails,
     UndoAcquire, RemoveSwap, RemoveFails, RemoveDec, CountDown, DropValue,
     DropValuePanics, PushLoad, PushStoreNext, PushSwap, PushRetry,
     vecVars, slotVars, mapVars, history, lossVars
<1>. QED  BY <1>2, <1>3, <1>4

LEMMA GuardsStep ==
  ASSUME Core, ValuesInHand, SlotsAlive, GuardsAlive, NEW t \in Thread, Call(t) \/ Step(t)
  PROVE  GuardsAlive'
<1>1. /\ th[t] \in ThreadState /\ th[t].idx \in Slot
      /\ keyOf \in [Value -> Key \cup {None}] /\ data \in [Slot -> Value \cup {None}]
      /\ ref_count \in [Slot -> Nat] /\ version \in [Slot -> Version]
      /\ guard \in [Guard -> Key \cup {None}]
  BY DEF Core, TypeOK, ThreadState
<1>2. \A u \in Thread \ {t} : th'[u] = th[u]  BY Others
<1>3. ASSUME NEW s \in Slot, ref_count[s] > 0, Alive(s)
      PROVE  data'[s] = data[s] /\ keyOf'[data[s]] = keyOf[data[s]]
  <2>1. WriteValue(t) \/ DropStep(t) => th[t].idx # s  BY <1>3, WriterOwns
  <2>. QED  BY <1>3, <2>1, StaysAlive DEF SlotsAlive
\* No slot comes to be published that has a reference already.
<1>4. ASSUME NEW s \in Slot, ref_count[s] > 0, NEW u \in Thread,
             th'[u].pc = "store_version", th'[u].idx = s
      PROVE  At(u, "store_version") /\ th[u].idx = s
  <2>1. CASE u # t  BY <1>2, <1>4, <2>1 DEF At
  <2>2. CASE u = t
    <3>1. StoreRef(t)
      BY <1>4, <2>2, InsertMoves, OtherMoves, CallMoves
      DEF Call, Step, InsertStep, PopStep, GetStep, RemoveStep, PushStep, DropStep, Goes,
          PopTarget
    <3>2. th[t].pc = "store_ref" /\ th[t].idx = s
      BY <1>4, <2>2, <3>1, InsertMoves DEF Goes
    <3>. QED  BY <1>4, <3>2 DEF Core, ExclusiveOwner, Owns, OwnerPC
  <2>. QED  BY <2>1, <2>2
<1>5. ASSUME NEW g \in Guard, guard'[g] # None, guard'[g] = guard[g]
      PROVE  /\ keyOf'[data'[guard'[g].idx]] = guard'[g]
             /\ \A u \in Thread : th'[u].pc = "store_version" => th'[u].idx # guard'[g].idx
  <2>. DEFINE s == guard[g].idx
  <2>1. s \in Slot  BY <1>1, <1>5 DEF Key
  <2>2. g \in RefGuards(s)  BY <1>5 DEF RefGuards
  <2>3. ref_count[s] > 0  BY <2>1, <2>2, Referenced DEF Core
  <2>4. /\ keyOf[data[s]] = guard[g]
        /\ \A u \in Thread : At(u, "store_version") => th[u].idx # s
    BY <1>5 DEF GuardsAlive
  <2>5. Alive(s)  BY <2>1, <2>3, <2>4 DEF SlotsAlive
  <2>6. data'[s] = data[s] /\ keyOf'[data[s]] = keyOf[data[s]]
    <3>. HIDE DEF s
    <3>. QED  BY <1>3, <2>1, <2>3, <2>5
  <2>. QED  BY <1>4, <1>5, <2>1, <2>3, <2>4, <2>6
<1>6. ASSUME CheckVersion(t)
      PROVE  LET g == th[t].out
             IN  /\ guard'[g] # None
                 /\ keyOf'[data'[guard'[g].idx]] = guard'[g]
                 /\ \A u \in Thread : th'[u].pc = "store_version" => th'[u].idx # guard'[g].idx
  <2>. DEFINE s == th[t].idx  k == [idx |-> s, ver |-> th[t].ver]
  <2>1. th[t].out \in Guard
    BY <1>1, <1>6 DEF CheckVersion, At, Core, GuardsReserved, ThreadState
  <2>2. guard' = [guard EXCEPT ![th[t].out] = k] /\ data' = data /\ keyOf' = keyOf
    BY <1>6 DEF CheckVersion, slotVars, history
  <2>3. k \in Key /\ Occupied(s) /\ version[s] = th[t].ver
    BY <1>1, <1>6 DEF CheckVersion, At, Core, LocalsSound, Key, ThreadState, Occupied
  <2>4. ref_count[s] > 0  BY <1>1, <2>3, Referenced DEF Core
  <2>5. \A u \in Thread : At(u, "store_version") => th[u].idx # s
    BY <1>1, <2>3 DEF At, Core, ExclusiveOwner, Owns, OwnerPC
  <2>6. Alive(s) /\ keyOf[data[s]].ver = version[s]
    BY <1>1, <2>3, <2>4, <2>5 DEF SlotsAlive
  <2>7. keyOf[data[s]] = k
    BY <1>1, <2>3, <2>6 DEF Alive, Key
  <2>8. k.idx = s /\ k # None  BY <2>3, SlotMapAssumption
  <2>9. \A u \in Thread : th'[u].pc = "store_version" => th'[u].idx # s
    BY <1>1, <1>4, <2>4, <2>5
  <2>10. guard'[th[t].out] = k  BY <1>1, <2>1, <2>2
  <2>. HIDE DEF k, s
  <2>. QED  BY <2>2, <2>7, <2>8, <2>9, <2>10
<1>. QED  BY <1>5, <1>6, GuardMoves DEF GuardsAlive, At

----------------------------------------------------------------------------
(* Nothing forgotten *)

LEMMA ForgottenStep ==
  ASSUME Core, ValuesInHand, SlotsAlive, NotForgotten, NEW t \in Thread, Call(t) \/ Step(t)
  PROVE  NotForgotten'
<1>1. /\ th[t] \in ThreadState /\ th[t].idx \in Slot
      /\ keyOf \in [Value -> Key \cup {None}] /\ drops \in [Value -> Nat]
      /\ data \in [Slot -> Value \cup {None}] /\ ref_count \in [Slot -> Nat]
      /\ ref_count' \in [Slot -> Nat]
  BY TypeStep DEF Core, TypeOK, ThreadState
<1>2. \A u \in Thread \ {t} : th'[u] = th[u]  BY Others
<1>3. \A v \in Value : keyOf[v] # None => keyOf[v].idx \in Slot  BY <1>1 DEF Key
\* A destructor does not run backwards.
<1>4. \A v \in Value : drops'[v] = 0 => drops[v] = 0
  <2>1. CASE CallErr(t) \/ CallPanics(t)  BY <1>1, <2>1 DEF CallErr, CallPanics
  <2>2. CASE DropStep(t)
    <3>1. drops' = [drops EXCEPT ![data[th[t].idx]] = @ + 1]
      BY <2>2 DEF DropStep, DropValue, DropValuePanics, Destroy
    <3>. QED  BY <1>1, <3>1
  <2>. QED  BY <2>1, <2>2, DataStep
<1>. DEFINE Kept(v, s) ==
              /\ data'[s] = v
              /\ ref_count'[s] > 0 \/ \E u \in Thread : th'[u].pc = "drop_value" /\ th'[u].idx = s
<1>5. ASSUME NEW v \in Value, keyOf[v] # None, drops'[v] = 0, NEW s \in Slot, s = keyOf[v].idx
      PROVE  keyOf'[v] = keyOf[v] /\ Kept(v, s)
  <2>1. /\ data[s] = v
        /\ ref_count[s] > 0 \/ \E u \in Thread : At(u, "drop_value") /\ th[u].idx = s
    BY <1>4, <1>5 DEF NotForgotten
  <2>2. Alive(s)  BY <1>4, <1>5, <2>1 DEF Alive
  <2>3. WriteValue(t) \/ DropStep(t) => th[t].idx # s
    <3>1. ASSUME DropStep(t), th[t].idx = s  PROVE FALSE
      <4>1. drops' = [drops EXCEPT ![v] = @ + 1]
        BY <2>1, <3>1 DEF DropStep, DropValue, DropValuePanics, Destroy
      <4>. QED  BY <1>1, <1>5, <4>1
    <3>2. ASSUME WriteValue(t), th[t].idx = s  PROVE FALSE
      <4>1. Owns(t, s) /\ ref_count[s] = 0 /\ th[t].pc = "call"
        BY <3>2, WriterOwns DEF WriteValue, At
      <4>2. PICK u \in Thread : At(u, "drop_value") /\ th[u].idx = s  BY <2>1, <4>1
      <4>3. Owns(u, s) /\ u # t  BY <4>1, <4>2 DEF At, Owns, OwnerPC
      <4>. QED  BY <4>1, <4>3 DEF Core, ExclusiveOwner
    <3>. QED  BY <3>1, <3>2
  <2>4. data'[s] = v /\ keyOf'[v] = keyOf[v]
    BY <2>1, <2>2, <2>3, StaysAlive DEF SlotsAlive
  <2>5. ref_count'[s] > 0 \/ \E u \in Thread : th'[u].pc = "drop_value" /\ th'[u].idx = s
    <3>1. CASE ref_count[s] > 0
      <4>1. CASE ref_count'[s] = 0  BY <3>1, <4>1, CountMoves
      <4>. QED  BY <1>1, <4>1
    <3>2. ASSUME NEW u \in Thread, At(u, "drop_value"), th[u].idx = s
          PROVE  th'[u].pc = "drop_value" /\ th'[u].idx = s
      <4>1. u # t
        <5>1. ASSUME th[t].pc = "drop_value"  PROVE DropStep(t)
          BY <5>1, InsertMoves, OtherMoves, CallMoves
          DEF Call, Step, InsertStep, PopStep, GetStep, RemoveStep, PushStep, DropStep, Goes
        <5>. QED  BY <2>3, <3>2, <5>1 DEF At
      <4>. QED  BY <1>2, <3>2, <4>1 DEF At
    <3>. QED  BY <2>1, <3>1, <3>2
  <2>. QED  BY <2>4, <2>5
<1>6. ASSUME NEW v \in Value, keyOf[v] = None, keyOf'[v] # None, NEW s \in Slot, s = keyOf'[v].idx
      PROVE  Kept(v, s)
  <2>1. StoreVersion(t)  BY <1>6, DataStep
  <2>2. /\ keyOf' = [keyOf EXCEPT ![th[t].val] = [idx |-> th[t].idx, ver |-> th[t].ver]]
        /\ data' = data /\ ref_count' = ref_count /\ th[t].pc = "store_version"
    BY <2>1 DEF StoreVersion, At
  <2>3. v = th[t].val /\ s = th[t].idx  BY <1>1, <1>6, <2>2
  <2>4. data[s] = v  BY <2>2, <2>3 DEF ValuesInHand
  <2>5. t \in RefThreads(s)  BY <2>2, <2>3 DEF RefThreads, RefPC
  <2>6. ref_count[s] > 0  BY <2>5, Referenced DEF Core
  <2>. QED  BY <2>2, <2>4, <2>6
<1>7. ASSUME NEW v \in Value, keyOf'[v] # None, drops'[v] = 0
      PROVE  Kept(v, keyOf'[v].idx)
  <2>1. keyOf'[v].idx \in Slot
    <3>1. keyOf' \in [Value -> Key \cup {None}]  BY TypeStep DEF TypeOK
    <3>. QED  BY <1>7, <3>1 DEF Key
  <2>2. CASE keyOf[v] # None
    <3>1. keyOf'[v] = keyOf[v]  BY <1>3, <1>5, <1>7, <2>2
    <3>. QED  BY <1>5, <1>7, <2>1, <2>2, <3>1
  <2>3. CASE keyOf[v] = None  BY <1>6, <1>7, <2>1, <2>3
  <2>. QED  BY <2>2, <2>3
<1>. QED  BY <1>7 DEF NotForgotten, At

LEMMA ChunksStep ==
  ASSUME Core, ChunksThere, NEW t \in Thread, Call(t) \/ Step(t)
  PROVE  ChunksThere'
<1>1. th[t] \in ThreadState /\ len \in Nat /\ Slot \subseteq Nat
  BY SlotMapAssumption DEF Core, TypeOK, Slot
<1>2. \A u \in Thread \ {t} : th'[u] = th[u]  BY Others
<1>3. chunks \subseteq chunks' /\ (len' = len \/ PushZeroed(t))
  BY DEF Call, Step, InsertStep, PopStep, GetStep, RemoveStep, PushStep, DropStep,
       BeginInsert, BeginGet, BeginRemove, DropGuard, PopReadNext, PopSwap, PopRetry,
       PushZeroed, EnsureChunk, LoadVersion, WriteValue, CallErr, CallPanics, StoreRef,
       StoreVersion, CountUp, AcquireSwap, AcquireRetry, CheckVersion, CheckFails,
       UndoAcquire, RemoveSwap, RemoveFails, RemoveDec, CountDown, DropValue,
       DropValuePanics, PushLoad, PushStoreNext, PushSwap, PushRetry,
       vecVars, slotVars, mapVars, history, lossVars
<1>4. th[t].pc = "ensure_chunk" => ChunkOf(th[t].idx) \in chunks'
  <2>1. th[t].pc = "ensure_chunk" => EnsureChunk(t)
    BY InsertMoves, OtherMoves, CallMoves
    DEF Call, Step, InsertStep, PopStep, GetStep, RemoveStep, PushStep, DropStep, Goes
  <2>. QED  BY <2>1 DEF EnsureChunk
<1>5. ASSUME NEW s \in Slot, s < len
      PROVE  ChunkOf(s) \in chunks' \/ \E u \in Thread : th'[u].pc = "ensure_chunk" /\ th'[u].idx = s
  <2>1. ChunkOf(s) \in chunks \/ \E u \in Thread : At(u, "ensure_chunk") /\ th[u].idx = s
    BY <1>5 DEF ChunksThere
  <2>. QED  BY <1>2, <1>3, <1>4, <2>1 DEF At
<1>6. ASSUME NEW s \in Slot, s < len', ~(s < len)
      PROVE  \E u \in Thread : th'[u].pc = "ensure_chunk" /\ th'[u].idx = s
  <2>1. PushZeroed(t)  BY <1>3, <1>6
  <2>2. len' = len + 1 /\ th'[t].pc = "ensure_chunk" /\ th'[t].idx = len
    BY <2>1, InsertMoves DEF PushZeroed
  <2>3. s = len  BY <1>1, <1>6, <2>2
  <2>. QED  BY <2>2, <2>3
<1>. QED  BY <1>5, <1>6 DEF ChunksThere, At

\* A step destroys a value that was not destroyed before.
LEMMA DropsStep ==
  ASSUME Core, ValuesInHand, SlotsAlive, \A v \in Value : drops[v] <= 1,
         NEW t \in Thread, Call(t) \/ Step(t)
  PROVE  \A v \in Value : drops'[v] <= 1
<1>1. /\ th[t] \in ThreadState /\ th[t].idx \in Slot /\ drops \in [Value -> Nat]
  BY DEF Core, TypeOK, ThreadState
<1>2. CASE CallErr(t) \/ CallPanics(t)
  <2>1. /\ drops' = [drops EXCEPT ![th[t].val] = @ + 1]
        /\ th[t].val # None /\ drops[th[t].val] = 0
    BY <1>2 DEF CallErr, CallPanics, At, ValuesInHand, InsertPC
  <2>. QED  BY <1>1, <2>1
<1>3. CASE DropStep(t)
  <2>1. /\ drops' = [drops EXCEPT ![data[th[t].idx]] = @ + 1]
        /\ drops[data[th[t].idx]] = 0
    BY <1>3 DEF DropStep, DropValue, DropValuePanics, Destroy, SlotsAlive, Alive
  <2>. QED  BY <1>1, <2>1
<1>. QED  BY <1>2, <1>3, DataStep

----------------------------------------------------------------------------
(* The invariant of values *)

\* In a map that is gone, or about to go, no call is in progress.
LEMMA ThreadValues ==
  ASSUME Core, Values, NEW t \in Thread, Call(t) \/ Step(t)
  PROVE  Values' /\ life # "freed"
<1>1. life # "freed"
  <2>1. ASSUME life = "freed", Call(t)  PROVE FALSE
    BY <2>1 DEF Call, BeginInsert, BeginGet, BeginRemove, DropGuard, Values, Held
  <2>2. ASSUME life = "freed", Step(t)  PROVE FALSE
    <3>1. th[t].pc = "idle"  BY <2>2 DEF Values, At
    <3>. QED  BY <2>2, <3>1, InsertMoves, OtherMoves
              DEF Step, InsertStep, PopStep, GetStep, RemoveStep, PushStep, DropStep, Goes
  <2>. QED  BY <2>1, <2>2
<1>2. /\ ValuesInHand /\ ChunksThere /\ SlotsAlive /\ GuardsAlive /\ NotForgotten
      /\ \A v \in Value : drops[v] <= 1
  BY <1>1 DEF Values, DestroyedOnce
<1>3. ValuesInHand'  BY <1>2, HandStep DEF SlotsAlive
<1>4. life' = life  BY DataStep
<1>5. DestroyedOnce'
  <2>1. \A v \in Value : drops'[v] <= 1  BY <1>2, DropsStep
  <2>. QED  BY <1>1, <1>4, <2>1 DEF DestroyedOnce
<1>6. ChunksThere' /\ SlotsAlive' /\ GuardsAlive' /\ NotForgotten'
  BY <1>2, ChunksStep, SlotsStep, GuardsStep, ForgottenStep
<1>7. StrandedKept'
  <2>1. ASSUME NEW g \in stranded  PROVE guard'[g] # None
    <3>1. g \in Guard /\ guard[g] # None  BY DEF Core, TypeOK, Values, StrandedKept
    <3>2. ~(CheckVersion(t) /\ g = th[t].out)
      BY <3>1 DEF CheckVersion, At, Core, GuardsReserved
    <3>. QED  BY <3>1, <3>2, GuardMoves
  <2>. QED  BY <2>1, DataStep DEF StrandedKept
<1>. QED  BY <1>1, <1>3, <1>4, <1>5, <1>6, <1>7 DEF Values

LEMMA CloneValues ==
  ASSUME Core, Values, NEW g \in Guard, NEW h \in Guard, CloneGuard(g, h)
  PROVE  Values' /\ life # "freed"
<1>. DEFINE s == guard[g].idx
<1>1. life # "freed"  BY DEF Values, Held, CloneGuard
<1>2. /\ ValuesInHand /\ ChunksThere /\ SlotsAlive /\ GuardsAlive /\ NotForgotten
      /\ \A v \in Value : drops[v] <= 1
  BY <1>1 DEF Values, DestroyedOnce
<1>3. /\ ref_count' = [ref_count EXCEPT ![s] = @ + 1]
      /\ guard' = [guard EXCEPT ![h] = guard[g]] /\ guard[g] # None
      /\ UNCHANGED <<len, chunks, version, data, life, th, keyOf, drops>>
  BY DEF CloneGuard, vecVars
<1>4. /\ ref_count \in [Slot -> Nat] /\ guard \in [Guard -> Key \cup {None}] /\ s \in Slot
  BY <1>3 DEF Core, TypeOK, Key
<1>5. g \in RefGuards(s)  BY <1>3 DEF RefGuards
<1>6. ref_count[s] > 0  BY <1>4, <1>5, Referenced DEF Core
<1>. HIDE DEF s
<1>7. \A r \in Slot : ref_count'[r] > 0 <=> ref_count[r] > 0  BY <1>3, <1>4, <1>6
<1>8. ValuesInHand' /\ ChunksThere'
  BY <1>2, <1>3 DEF ValuesInHand, ChunksThere, At
<1>9. \A r : Alive(r)' <=> Alive(r)  BY <1>3 DEF Alive
<1>10. SlotsAlive'
  <2>1. \A r \in Slot : Occupied(r)' <=> Occupied(r)  BY <1>3 DEF Occupied
  <2>2. \A r \in Slot :
          /\ ref_count'[r] > 0 =>
               Alive(r)' \/ \E t \in Thread : th'[t].pc = "store_version" /\ th'[t].idx = r
          /\ Occupied(r)' => keyOf'[data'[r]].ver = version'[r]
    BY <1>2, <1>3, <1>7, <1>9, <2>1 DEF SlotsAlive, At
  <2>3. \A t \in Thread : th'[t].pc = "drop_value" => Alive(th[t].idx)'
    <3>1. \A t \in Thread : th'[t].pc = "drop_value" => Alive(th[t].idx)
      BY <1>2, <1>3 DEF SlotsAlive, At
    <3>. QED  BY <1>3, <3>1 DEF Alive
  <2>. QED  BY <2>2, <2>3 DEF SlotsAlive, At
<1>11. GuardsAlive'
  <2>1. \A x \in Guard : guard'[x] = guard[x] \/ guard'[x] = guard[g]  BY <1>3, <1>4
  <2>. QED  BY <1>2, <1>3, <2>1 DEF GuardsAlive, At
<1>12. NotForgotten'
  <2>1. \A v \in Value : keyOf[v] # None => keyOf[v].idx \in Slot
    BY DEF Core, TypeOK, Key
  <2>. QED  BY <1>2, <1>3, <1>7, <2>1 DEF NotForgotten, At
<1>13. DestroyedOnce'  BY <1>1, <1>2, <1>3 DEF DestroyedOnce
<1>14. StrandedKept'
  <2>1. stranded' \subseteq stranded \cup {h} /\ stranded \subseteq Guard
    BY DEF CloneGuard, Core, TypeOK
  <2>. QED  BY <1>3, <1>4, <2>1 DEF StrandedKept, Values
<1>. QED  BY <1>1, <1>3, <1>8, <1>10, <1>11, <1>12, <1>13, <1>14 DEF Values

\* The slots whose value the drop of the vector destroys.
Dying(v) == {s \in Slot : Reachable(s) /\ version[s] % 2 = 1 /\ data[s] = v}

\* A value dies in the slot of its key, if that is occupied, and nowhere else.
LEMMA DyingOnce ==
  ASSUME Core, Values, DropMap, NEW v \in Value
  PROVE  /\ drops'[v] = drops[v] + (IF Dying(v) = {} THEN 0 ELSE 1)
         /\ Dying(v) # {} => /\ drops[v] = 0 /\ keyOf[v] # None
                             /\ version[keyOf[v].idx] = keyOf[v].ver
         /\ \A s \in Slot : Occupied(s) /\ data[s] = v => Dying(v) # {}
<1>1. /\ ref_count \in [Slot -> Nat] /\ version \in [Slot -> Version]
      /\ drops \in [Value -> Nat] /\ keyOf \in [Value -> Key \cup {None}]
  BY DEF Core, TypeOK
<1>2. \A t \in Thread : th[t].pc = "idle"  BY DEF DropMap, At
<1>3. SlotsAlive /\ ChunksThere  BY DEF Values, DropMap
<1>4. ASSUME NEW s \in Slot, Occupied(s)
      PROVE  Alive(s) /\ keyOf[data[s]].ver = version[s] /\ Reachable(s)
  <2>1. ref_count[s] > 0  BY <1>4, Referenced DEF Core
  <2>2. Alive(s) /\ keyOf[data[s]].ver = version[s]
    BY <1>2, <1>3, <1>4, <2>1 DEF SlotsAlive, At
  <2>3. s < len
    BY <1>4, SlotMapAssumption DEF Core, LocalsSound, Occupied, TypeOK, Slot
  <2>. QED  BY <1>2, <1>3, <2>2, <2>3 DEF ChunksThere, At, Reachable
<1>5. \A s \in Dying(v) : /\ s = keyOf[v].idx /\ drops[v] = 0 /\ keyOf[v] # None
                          /\ version[s] = keyOf[v].ver
  BY <1>4 DEF Dying, Alive, Occupied
<1>6. Dying(v) = {} \/ Dying(v) = {keyOf[v].idx}  BY <1>5
<1>7. Cardinality(Dying(v)) = IF Dying(v) = {} THEN 0 ELSE 1
  <2>1. \A x : Cardinality({x}) = 1 /\ {x} # {}  BY FS_Singleton
  <2>. QED  BY <1>6, <2>1, FS_EmptySet
<1>8. drops'[v] = drops[v] + Cardinality(Dying(v))  BY DEF DropMap, Dying
<1>. QED  BY <1>4, <1>5, <1>7, <1>8 DEF Dying, Occupied

LEMMA EndValues ==
  ASSUME Core, Values, CloseMap \/ DropMap \/ UNCHANGED vars
  PROVE  Values'
<1>. USE DEF vecVars, slotVars, mapVars, history, lossVars
<1>1. CASE UNCHANGED vars
  BY <1>1 DEF vars, Values, ValuesInHand, ChunksThere, DestroyedOnce, Fresh, SlotsAlive,
              Alive, Occupied, At, GuardsAlive, NotForgotten, Held, StrandedKept
<1>2. CASE CloseMap
  <2>1. /\ UNCHANGED <<vecVars, slotVars, guard, th, history>>
        /\ life = "open" /\ life' = "closed"
    BY <1>2 DEF CloseMap
  <2>. QED  BY <2>1 DEF Values, ValuesInHand, ChunksThere, DestroyedOnce, SlotsAlive,
                        Alive, Occupied, At, GuardsAlive, NotForgotten, StrandedKept
<1>3. CASE DropMap
  <2>1. /\ life = "closed" /\ life' = "freed"
        /\ \A t \in Thread : th[t].pc = "idle"
        /\ \A g \in Guard \ stranded : guard[g] = None
        /\ UNCHANGED <<vecVars, slotVars, guard, th, keyOf, stranded>>
    BY <1>3 DEF DropMap, At
  <2>2. \A t \in Thread : th[t].val = None
    BY <2>1 DEF Values, ValuesInHand, InsertPC
  <2>3. ValuesInHand' /\ ChunksThere'
    BY <2>1, <2>2 DEF Values, ValuesInHand, ChunksThere, InsertPC, At
  <2>4. (\A t \in Thread : At(t, "idle"))' /\ (\A g \in Guard : ~Held(g))'
    BY <2>1 DEF At, Held
  <2>5. DestroyedOnce'
    <3>1. ASSUME NEW v \in Value
          PROVE  /\ drops'[v] <= 1
                 /\ ~Fresh(v)' /\ stranded' = {} => drops'[v] = 1
      <4>1. drops[v] \in Nat /\ drops[v] <= 1
        BY DEF Core, TypeOK, Values, DestroyedOnce
      <4>2. drops'[v] <= 1  BY <1>3, <4>1, DyingOnce
      <4>3. ASSUME ~Fresh(v)', stranded' = {}, drops'[v] = 0  PROVE FALSE
        <5>1. drops[v] = 0 /\ Dying(v) = {}  BY <1>3, <4>1, <4>3, DyingOnce
        <5>2. keyOf[v] # None  BY <2>1, <2>2, <4>3, SlotMapAssumption DEF Fresh
        <5>. DEFINE s == keyOf[v].idx
        <5>3. s \in Slot  BY <5>2 DEF Core, TypeOK, Key
        <5>4. data[s] = v /\ ref_count[s] > 0
          BY <2>1, <5>1, <5>2 DEF Values, NotForgotten, At
        <5>5. RefGuards(s) = {} /\ RefThreads(s) = {}
          BY <2>1, <4>3 DEF RefGuards, RefThreads, RefPC
        <5>6. Occupied(s)
          <6>. HIDE DEF s
          <6>. QED  BY <5>3, <5>4, <5>5, FS_EmptySet DEF Core, RefCountExact, MapRef
        <5>. QED  BY <1>3, <5>1, <5>3, <5>4, <5>6, DyingOnce
      <4>4. drops'[v] \in Nat  BY <1>3, <4>1, DyingOnce
      <4>. QED  BY <4>2, <4>3, <4>4
    <3>. QED  BY <3>1 DEF DestroyedOnce
  <2>6. StrandedKept'  BY <2>1 DEF Values, StrandedKept
  <2>. QED  BY <2>1, <2>3, <2>4, <2>5, <2>6 DEF Values
<1>. QED  BY <1>1, <1>2, <1>3

LEMMA InitValues ==
  ASSUME Init
  PROVE  Values
<1>1. /\ \A t \in Thread : th[t] = Idle
      /\ \A v \in Value : keyOf[v] = None /\ drops[v] = 0
      /\ \A s \in Slot : ref_count[s] = 0 /\ version[s] = 0
      /\ \A g \in Guard : guard[g] = None
      /\ len = 0 /\ life = "open" /\ Slot \subseteq Nat
  BY DEF Init, Slot
<1>2. Idle.pc = "idle" /\ Idle.val = None  BY DEF Idle
<1>3. ValuesInHand  BY <1>1, <1>2 DEF ValuesInHand, InsertPC
<1>4. ChunksThere
  <2>1. \A s \in Slot : ~(s < len)  BY <1>1
  <2>. QED  BY <2>1 DEF ChunksThere
<1>5. DestroyedOnce  BY <1>1 DEF DestroyedOnce
<1>6. SlotsAlive
  <2>1. \A s \in Slot : ~(ref_count[s] > 0) /\ ~Occupied(s)  BY <1>1 DEF Occupied
  <2>. QED  BY <1>1, <1>2, <2>1 DEF SlotsAlive, At
<1>7. GuardsAlive /\ NotForgotten /\ StrandedKept
  BY <1>1 DEF GuardsAlive, NotForgotten, StrandedKept, Init
<1>. QED  BY <1>1, <1>3, <1>4, <1>5, <1>6, <1>7 DEF Values

ValuesInv == IInv /\ (NoTagWrap => Values)

LEMMA InitValuesInv == ASSUME Init  PROVE ValuesInv
BY InitInv, InitValues DEF ValuesInv

LEMMA StepValuesInv ==
  ASSUME ValuesInv, [Next]_vars
  PROVE  ValuesInv'
<1>1. IInv'  BY StepInv DEF ValuesInv
<1>2. ASSUME NoTagWrap'  PROVE Values'
  <2>1. NoTagWrap
    <3>1. free_head.tag \in Nat /\ free_head'.tag \in Nat /\ free_head'.tag >= free_head.tag
      BY TagGrows DEF ValuesInv, IInv
    <3>. QED  BY <1>2, <3>1, SlotMapAssumption DEF NoTagWrap
  <2>2. Core /\ Values  BY <2>1 DEF ValuesInv, IInv
  <2>3. ASSUME NEW t \in Thread, Call(t) \/ Step(t)  PROVE Values'
    BY <2>2, <2>3, ThreadValues
  <2>4. ASSUME NEW g \in Guard, NEW h \in Guard, CloneGuard(g, h)  PROVE Values'
    BY <2>2, <2>4, CloneValues
  <2>5. CASE CloseMap \/ DropMap \/ UNCHANGED vars
    BY <2>2, <2>5, EndValues
  <2>. QED  BY <2>3, <2>4, <2>5 DEF Next, Freed
<1>. QED  BY <1>1, <1>2 DEF ValuesInv

----------------------------------------------------------------------------
(* The theorems *)

\* What is referenced by a guard, or by the map, is alive.
LEMMA GuardAlive ==
  ASSUME Core, Values, NEW g \in Guard, guard[g] # None, life # "freed"
  PROVE  Alive(guard[g].idx) /\ keyOf[data[guard[g].idx]] = guard[g]
         /\ guard[g] \in Key /\ ref_count[guard[g].idx] > 0
<1>1. guard[g] \in Key /\ guard[g].idx \in Slot  BY DEF Core, TypeOK, Key
<1>. DEFINE s == guard[g].idx
<1>2. g \in RefGuards(s)  BY DEF RefGuards
<1>3. /\ keyOf[data[s]] = guard[g]
      /\ \A t \in Thread : At(t, "store_version") => th[t].idx # s
  BY DEF Values, GuardsAlive
<1>. HIDE DEF s
<1>4. ref_count[s] > 0  BY <1>1, <1>2, Referenced DEF Core, s
<1>5. Alive(s)  BY <1>1, <1>3, <1>4 DEF Values, SlotsAlive, s
<1>. QED  BY <1>1, <1>3, <1>4, <1>5 DEF s

LEMMA OccupiedAlive ==
  ASSUME Core, Values, NEW s \in Slot, Occupied(s), life # "freed"
  PROVE  /\ Alive(s) /\ keyOf[data[s]] = [idx |-> s, ver |-> version[s]]
         /\ ref_count[s] > 0
<1>1. ref_count[s] > 0  BY Referenced DEF Core
<1>2. \A t \in Thread : At(t, "store_version") => th[t].idx # s
  BY DEF Core, ExclusiveOwner, Owns, OwnerPC, At
<1>3. Alive(s) /\ keyOf[data[s]].ver = version[s]
  BY <1>1, <1>2 DEF Values, SlotsAlive
<1>4. keyOf[data[s]] \in Key  BY <1>3 DEF Alive, Core, TypeOK
<1>. QED  BY <1>1, <1>3, <1>4 DEF Alive, Key

\* As long as the tag of free_head has not wrapped, a guard reads the value of
\* its key for as long as it is held, whatever others remove meanwhile (the
\* Deref of SlotGuard and OwningSlotGuard).
THEOREM Readable == Spec => [](NoTagWrap => GuardsReadable)
<1>1. Init => ValuesInv  BY InitValuesInv
<1>2. ValuesInv /\ [Next]_vars => ValuesInv'  BY StepValuesInv
<1>3. ValuesInv => (NoTagWrap => GuardsReadable)
  <2>1. ASSUME Core, Values, NEW g \in Guard, Held(g)
        PROVE  LET v == data[guard[g].idx]
               IN  v \in Value /\ keyOf[v] = guard[g] /\ drops[v] = 0
    <3>1. life # "freed" /\ guard[g] # None  BY <2>1 DEF Values, Held
    <3>. QED  BY <2>1, <3>1, GuardAlive DEF Alive
  <2>. QED  BY <2>1 DEF ValuesInv, IInv, GuardsReadable
<1>. QED  BY <1>1, <1>2, <1>3, PTL DEF Spec

\* Under the same condition a key whose slot still has its version leads to the
\* value inserted under it, alive (get, get_owning, contains_key).
THEOREM Findable == Spec => [](NoTagWrap => OccupiedReadable)
<1>1. Init => ValuesInv  BY InitValuesInv
<1>2. ValuesInv /\ [Next]_vars => ValuesInv'  BY StepValuesInv
<1>3. ValuesInv => (NoTagWrap => OccupiedReadable)
  BY OccupiedAlive DEF ValuesInv, IInv, OccupiedReadable, Alive
<1>. QED  BY <1>1, <1>2, <1>3, PTL DEF Spec

\* Under the same condition drop_inner_value finds a value in its slot whose
\* destructor did not run, in whatever call the last reference was given up.
THEOREM Destroyable == Spec => [](NoTagWrap => DestroysLiveValue)
<1>1. Init => ValuesInv  BY InitValuesInv
<1>2. ValuesInv /\ [Next]_vars => ValuesInv'  BY StepValuesInv
<1>3. ValuesInv => (NoTagWrap => DestroysLiveValue)
  <2>1. ASSUME Values, NEW t \in Thread, At(t, "drop_value")
        PROVE  data[th[t].idx] \in Value /\ drops[data[th[t].idx]] = 0
    <3>1. life # "freed"  BY <2>1 DEF Values, At
    <3>. QED  BY <2>1, <3>1 DEF Values, SlotsAlive, Alive
  <2>. QED  BY <2>1 DEF ValuesInv, DestroysLiveValue
<1>. QED  BY <1>1, <1>2, <1>3, PTL DEF Spec

\* Under the same condition no destructor runs twice, and once the map is gone
\* each value has been destroyed exactly once, unless a clone over the cap
\* panicked and left its reference behind.
THEOREM Destroyed == Spec => [](NoTagWrap => DestroyedOnce)
<1>1. Init => ValuesInv  BY InitValuesInv
<1>2. ValuesInv /\ [Next]_vars => ValuesInv'  BY StepValuesInv
<1>3. ValuesInv => (NoTagWrap => DestroyedOnce)  BY DEF ValuesInv, Values
<1>. QED  BY <1>1, <1>2, <1>3, PTL DEF Spec

----------------------------------------------------------------------------
(* Keys *)

\* Until a slot has had its last version a key that is published has a larger
\* version than every key the slot had before.
LEMMA VersionsGrow ==
  ASSUME Core, Values, KeysInOrder, NoVersionWrap, NEW t \in Thread, Call(t) \/ Step(t)
  PROVE  \A s \in Slot : version'[s] >= version[s]
<1>1. /\ version \in [Slot -> Version] /\ th[t] \in ThreadState /\ th[t].idx \in Slot
      /\ \A s \in Slot : version[s] \in Nat
      /\ keyOf \in [Value -> Key \cup {None}] /\ th[t].ver \in Nat
  BY DEF Core, TypeOK, ThreadState, Version
<1>2. ASSUME StoreVersion(t)  PROVE \A s \in Slot : version'[s] >= version[s]
  <2>1. /\ version' = [version EXCEPT ![th[t].idx] = th[t].ver]
        /\ version[th[t].idx] < th[t].ver
    BY <1>2 DEF StoreVersion, At, KeysInOrder
  <2>. QED  BY <1>1, <2>1
<1>3. ASSUME RemoveSwap(t)  PROVE \A s \in Slot : version'[s] >= version[s]
  <2>. DEFINE s == th[t].idx
  <2>1. /\ version' = [version EXCEPT ![s] = (version[s] + 1) % VersionMod]
        /\ Occupied(s)
    BY <1>3 DEF RemoveSwap, At, Core, LocalsSound, Occupied
  <2>2. life # "freed"  BY <1>3, ThreadValues
  <2>3. Alive(s) /\ keyOf[data[s]].ver = version[s]
    <3>. HIDE DEF s
    <3>1. s \in Slot  BY <1>1 DEF s
    <3>2. Alive(s) /\ keyOf[data[s]] = [idx |-> s, ver |-> version[s]]
      BY <2>1, <2>2, <3>1, OccupiedAlive
    <3>. QED  BY <3>2
  <2>4. version[s] < VersionMod - 1
    BY <2>3 DEF Alive, NoVersionWrap
  <2>5. (version[s] + 1) % VersionMod = version[s] + 1
    BY <1>1, <2>4, SlotMapAssumption
  <2>. HIDE DEF s
  <2>. QED  BY <1>1, <2>1, <2>5
<1>4. version' = version \/ StoreVersion(t) \/ RemoveSwap(t)
  BY DEF Call, Step, InsertStep, PopStep, GetStep, RemoveStep, PushStep, DropStep,
         BeginInsert, BeginGet, BeginRemove, DropGuard, PopReadNext, PopSwap, PopRetry,
         PushZeroed, EnsureChunk, LoadVersion, WriteValue, CallErr, CallPanics, StoreRef,
         CountUp, AcquireSwap, AcquireRetry, CheckVersion, CheckFails,
         UndoAcquire, RemoveFails, RemoveDec, CountDown, DropValue,
         DropValuePanics, PushLoad, PushStoreNext, PushSwap, PushRetry,
         vecVars, slotVars, mapVars, history, lossVars
<1>. QED  BY <1>1, <1>2, <1>3, <1>4


LEMMA OrderStep ==
  ASSUME Core, Values, KeysInOrder, KeysUnique, NoVersionWrap,
         NEW t \in Thread, Call(t) \/ Step(t)
  PROVE  KeysInOrder' /\ KeysUnique'
<1>1. /\ version \in [Slot -> Version] /\ th[t] \in ThreadState /\ th[t].idx \in Slot
      /\ \A s \in Slot : version[s] \in Nat /\ version'[s] \in Nat
      /\ keyOf \in [Value -> Key \cup {None}] /\ th[t].ver \in Nat
      /\ \A v \in Value : keyOf[v] # None => keyOf[v].idx \in Slot /\ keyOf[v].ver \in Nat
      /\ Version \subseteq Nat
  <2>1. Version \subseteq Nat  BY DEF Version
  <2>2. version' \in [Slot -> Version]  BY TypeStep DEF TypeOK
  <2>. QED  BY <2>1, <2>2 DEF Core, TypeOK, ThreadState, Key
<1>2. \A u \in Thread \ {t} : th'[u] = th[u]  BY Others
<1>3. \A s \in Slot : version'[s] >= version[s]  BY VersionsGrow
<1>4. ASSUME StoreVersion(t)
      PROVE  /\ th[t].val \in Value /\ keyOf[th[t].val] = None
             /\ keyOf' = [keyOf EXCEPT ![th[t].val] = [idx |-> th[t].idx, ver |-> th[t].ver]]
             /\ version'[th[t].idx] = th[t].ver /\ version[th[t].idx] < th[t].ver
  BY <1>1, <1>4 DEF StoreVersion, At, ValuesInHand, InsertPC, ThreadState, Values, KeysInOrder
<1>5. ASSUME NEW v \in Value, keyOf'[v] # None
      PROVE  keyOf'[v].ver <= version'[keyOf'[v].idx]
  <2>1. CASE keyOf' = keyOf
    <3>1. keyOf[v].ver <= version[keyOf[v].idx] /\ keyOf[v].idx \in Slot
      BY <1>1, <1>5, <2>1 DEF KeysInOrder
    <3>. QED  BY <1>1, <1>3, <1>5, <2>1, <3>1
  <2>2. CASE StoreVersion(t) /\ v = th[t].val
    <3>1. keyOf'[v] = [idx |-> th[t].idx, ver |-> th[t].ver]  BY <1>1, <1>4, <2>2
    <3>. QED  BY <1>1, <1>4, <2>2, <3>1
  <2>3. CASE StoreVersion(t) /\ v # th[t].val
    <3>1. keyOf'[v] = keyOf[v]  BY <1>1, <1>4, <2>3
    <3>2. keyOf[v].ver <= version[keyOf[v].idx] /\ keyOf[v].idx \in Slot
      BY <1>1, <1>5, <3>1 DEF KeysInOrder
    <3>. QED  BY <1>1, <1>3, <1>5, <3>1, <3>2
  <2>. QED  BY <2>1, <2>2, <2>3, DataStep
<1>. DEFINE BeforePublishing == {"ensure_chunk", "call", "store_ref", "store_version"}
<1>6. ASSUME NEW u \in Thread \ {t}, th'[u].pc \in BeforePublishing
      PROVE  version'[th'[u].idx] < th'[u].ver
  <2>1. version[th[u].idx] < th[u].ver  BY <1>2, <1>6 DEF KeysInOrder
  <2>2. /\ Owns(u, th[u].idx) /\ th[u].idx \in Slot /\ ~Occupied(th[u].idx)
        /\ ~Owns(t, th[u].idx)
    BY <1>2, <1>6 DEF Core, TypeOK, ThreadState, ExclusiveOwner, Owns, OwnerPC
  <2>3. ~(StoreVersion(t) /\ th[t].idx = th[u].idx)
    BY <2>2 DEF StoreVersion, At, Owns, OwnerPC
  <2>4. ~(RemoveSwap(t) /\ th[t].idx = th[u].idx)
    BY <2>2 DEF RemoveSwap, At, Core, LocalsSound, Occupied
  <2>5. version'[th[u].idx] = version[th[u].idx]  BY <2>2, <2>3, <2>4, VersionMoves
  <2>. QED  BY <1>2, <2>1, <2>5
<1>7. ASSUME th'[t].pc \in BeforePublishing
      PROVE  version'[th'[t].idx] < th'[t].ver
  <2>. USE DEF vecVars, slotVars, mapVars, history, lossVars
  <2>1. th \in [Thread -> ThreadState]  BY DEF Core, TypeOK
  <2>2. ASSUME NEW r, Become(t, r)  PROVE th'[t] = r
    BY <2>1, <2>2 DEF Become
  <2>3. CASE PushZeroed(t)
    <3>1. /\ th'[t] = [th[t] EXCEPT !.pc = "ensure_chunk", !.idx = len, !.ver = 1,
                                   !.head = Idle.head]
          /\ version' = version /\ len < MaxSlots
      BY <2>2, <2>3 DEF PushZeroed
    <3>2. th'[t].idx = len /\ th'[t].ver = 1  BY <1>1, <3>1 DEF ThreadState
    <3>3. len \in Slot /\ len >= len
      BY <3>1, SlotMapAssumption DEF Core, TypeOK, Slot
    <3>4. version[len] = 0  BY <3>3 DEF Core, LocalsSound
    <3>. QED  BY <3>1, <3>2, <3>4
  <2>4. CASE EnsureChunk(t) \/ WriteValue(t) \/ StoreRef(t)
    <3>1. th[t].pc \in BeforePublishing /\ version' = version
      BY <2>4 DEF EnsureChunk, WriteValue, StoreRef, At
    <3>2. th'[t].idx = th[t].idx /\ th'[t].ver = th[t].ver
      BY <1>1, <2>2, <2>4 DEF EnsureChunk, WriteValue, StoreRef, ThreadState
    <3>. QED  BY <3>1, <3>2 DEF KeysInOrder
  <2>5. CASE LoadVersion(t)
    <3>. DEFINE cur == version[th[t].idx]
    <3>1. ~Occupied(th[t].idx)
      BY <1>1, <2>5 DEF LoadVersion, At, Core, ExclusiveOwner, Owns, OwnerPC
    <3>2. cur % 2 = 0 /\ cur \in Nat  BY <1>1, <3>1 DEF Occupied
    <3>3. /\ th'[t] = [th[t] EXCEPT !.pc = "call", !.ver = cur + 1]
          /\ version' = version
      BY <2>2, <2>5, <3>2 DEF LoadVersion
    <3>4. th'[t].idx = th[t].idx /\ th'[t].ver = cur + 1  BY <1>1, <3>3 DEF ThreadState
    <3>. QED  BY <3>2, <3>3, <3>4
  <2>6. PushZeroed(t) \/ EnsureChunk(t) \/ WriteValue(t) \/ StoreRef(t) \/ LoadVersion(t)
    BY <1>7, InsertMoves, OtherMoves, CallMoves
    DEF Call, Step, InsertStep, PopStep, GetStep, RemoveStep, PushStep, DropStep, Goes, PopTarget
  <2>. QED  BY <2>3, <2>4, <2>5, <2>6
<1>8. KeysInOrder'  BY <1>5, <1>6, <1>7 DEF KeysInOrder
\* The new key has a larger version than any the slot had before.
<1>9. ASSUME NEW v \in Value, StoreVersion(t), keyOf[v] # None
      PROVE  keyOf[v] # [idx |-> th[t].idx, ver |-> th[t].ver]
  BY <1>1, <1>4, <1>9 DEF KeysInOrder
<1>10. KeysUnique'
  <2>1. CASE keyOf' = keyOf  BY <2>1 DEF KeysUnique
  <2>2. CASE StoreVersion(t)
    <3>1. \A v \in Value : keyOf'[v] = IF v = th[t].val
                                      THEN [idx |-> th[t].idx, ver |-> th[t].ver]
                                      ELSE keyOf[v]
      BY <1>1, <1>4, <2>2
    <3>. QED  BY <1>9, <2>2, <3>1 DEF KeysUnique
  <2>. QED  BY <2>1, <2>2, DataStep
<1>. QED  BY <1>8, <1>10

\* A key once published is never another.
LEMMA KeysStay ==
  ASSUME ValuesInv, NoTagWrap, [Next]_vars, NEW v \in Value, keyOf[v] # None
  PROVE  keyOf'[v] = keyOf[v]
<1>1. Core /\ Values /\ keyOf \in [Value -> Key \cup {None}]
  BY DEF ValuesInv, IInv, Core, TypeOK
<1>2. ASSUME NEW t \in Thread, Call(t) \/ Step(t)  PROVE keyOf'[v] = keyOf[v]
  <2>1. CASE StoreVersion(t)
    <3>1. th[t].val # v
      BY <1>1, <2>1 DEF StoreVersion, At, Values, ValuesInHand, InsertPC
    <3>. QED  BY <1>1, <2>1, <3>1 DEF StoreVersion
  <2>. QED  BY <1>2, <2>1, DataStep
<1>3. ASSUME NEW g \in Guard, NEW h \in Guard, CloneGuard(g, h)  PROVE keyOf' = keyOf
  BY <1>3 DEF CloneGuard
<1>4. CASE CloseMap \/ DropMap \/ UNCHANGED vars
  BY <1>4 DEF CloseMap, DropMap, vars, history
<1>. QED  BY <1>2, <1>3, <1>4 DEF Next, Freed

KeysInv == ValuesInv /\ (NoTagWrap /\ NoVersionWrap => KeysInOrder /\ KeysUnique)

LEMMA InitKeysInv == ASSUME Init  PROVE KeysInv
<1>1. /\ \A v \in Value : keyOf[v] = None
      /\ \A t \in Thread : th[t].pc = "idle"
  BY DEF Init, Idle
<1>. QED  BY <1>1, InitValuesInv DEF KeysInv, KeysInOrder, KeysUnique

LEMMA StepKeysInv ==
  ASSUME KeysInv, [Next]_vars
  PROVE  KeysInv'
<1>1. ValuesInv'  BY StepValuesInv DEF KeysInv
<1>2. ASSUME NoTagWrap', NoVersionWrap'  PROVE KeysInOrder' /\ KeysUnique'
  <2>1. NoTagWrap
    <3>1. free_head.tag \in Nat /\ free_head'.tag \in Nat /\ free_head'.tag >= free_head.tag
      BY TagGrows DEF KeysInv, ValuesInv, IInv
    <3>. QED  BY <1>2, <3>1, SlotMapAssumption DEF NoTagWrap
  <2>2. NoVersionWrap  BY <1>2, <2>1, KeysStay DEF NoVersionWrap, KeysInv
  <2>3. Core /\ Values /\ KeysInOrder /\ KeysUnique
    BY <2>1, <2>2 DEF KeysInv, ValuesInv, IInv
  <2>4. ASSUME NEW t \in Thread, Call(t) \/ Step(t)  PROVE KeysInOrder' /\ KeysUnique'
    BY <2>2, <2>3, <2>4, OrderStep
  <2>5. ASSUME UNCHANGED <<keyOf, version, th>>  PROVE KeysInOrder' /\ KeysUnique'
    BY <2>3, <2>5 DEF KeysInOrder, KeysUnique
  <2>6. ASSUME NEW g \in Guard, NEW h \in Guard, CloneGuard(g, h)
        PROVE  UNCHANGED <<keyOf, version, th>>
    BY <2>6 DEF CloneGuard
  <2>7. CASE CloseMap \/ DropMap \/ UNCHANGED vars
    BY <2>5, <2>7 DEF CloseMap, DropMap, vars, history, slotVars
  <2>. QED  BY <2>4, <2>5, <2>6, <2>7 DEF Next, Freed
<1>. QED  BY <1>1, <1>2 DEF KeysInv

\* As long as the tag has not wrapped, a chunk that is missing is about to be
\* installed by the insertion of each slot in it: a reader's spin ends with
\* the next step of that thread (vec.rs:90-92, 316-318).
THEOREM Chunks == Spec => [](NoTagWrap => ChunksThere)
<1>1. Init => ValuesInv  BY InitValuesInv
<1>2. ValuesInv /\ [Next]_vars => ValuesInv'  BY StepValuesInv
<1>3. ValuesInv => (NoTagWrap => ChunksThere)  BY DEF ValuesInv, Values
<1>. QED  BY <1>1, <1>2, <1>3, PTL DEF Spec

\* As long as no slot has had its last version either (its 2^31st key), no two
\* insertions return the same key: a stale key never finds another value.
THEOREM Keys == Spec => [](NoTagWrap /\ NoVersionWrap => KeysUnique)
<1>1. Init => KeysInv  BY InitKeysInv
<1>2. KeysInv /\ [Next]_vars => KeysInv'  BY StepKeysInv
<1>3. KeysInv => (NoTagWrap /\ NoVersionWrap => KeysUnique)  BY DEF KeysInv
<1>. QED  BY <1>1, <1>2, <1>3, PTL DEF Spec

=============================================================================
