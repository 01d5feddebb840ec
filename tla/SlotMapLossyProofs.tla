------------------------- MODULE SlotMapLossyProofs -------------------------
(***************************************************************************)
(* The methods of the feature "lossy" beside any number of other calls: an *)
(* iterator returns every value that stays in the map, none that is not in *)
(* it and none twice, and a reserve delivers.                              *)
(***************************************************************************)
EXTENDS SlotMapLossy, SlotMapRefinementProofs

LossyState ==
  [pc : LossyPC, cur : 0 .. MaxSlots, ver : Version,
   from : 0 .. CountMod - 1, more : Amounts \cup {0}, needed : Nat]

\* The invariants, thread by thread.
LocalsOf(t) ==
  /\ ~Does(t, "none") => life = "open" /\ (~Does(t, "getting") => At(t, "idle"))
  /\ lz[t].pc \in {"read", "get", "getting"} => lz[t].cur \in 1 .. len
  /\ Does(t, "get") => lz[t].ver % 2 = 1
  /\ Does(t, "getting") =>
       /\ th[t].op = "get"
       /\ th[t].pc \in {"acquire", "check", "undo", "drop_value",
                        "push_load", "push_next", "push_swap"}
       /\ th[t].pc \in {"acquire", "check"} => th[t].idx = Here(t) /\ th[t].ver = lz[t].ver
  /\ Does(t, "res_vec") => len + lz[t].needed >= lz[t].from + lz[t].more

YieldedOf(t) ==
  Iterating(t) => \A v \in yielded[t] : keyOf[v] # None /\ keyOf[v].idx < Passed(t)

StayedOf(t) ==
  Iterating(t) =>
    \A v \in stayed[t] :
      /\ v \in Bound
      /\ keyOf[v].idx < Passed(t) => v \in yielded[t]
      /\ lz[t].pc \in {"get", "getting"} /\ keyOf[v].idx = Here(t) =>
           /\ keyOf[v].ver = lz[t].ver
           /\ Does(t, "getting") => th[t].pc \in {"acquire", "check"}

LEMMA ByThread ==
  /\ LossyLocals <=> \A t \in Lossy : LocalsOf(t)
  /\ YieldedPassed <=> \A t \in Lossy : YieldedOf(t)
  /\ StayedAhead <=> \A t \in Lossy : StayedOf(t)
BY DEF LossyLocals, YieldedPassed, StayedAhead, LocalsOf, YieldedOf, StayedOf

LossySound == LossyTypeOK /\ LossyLocals /\ YieldedPassed

LEMMA LossyTyped ==
  ASSUME LossySound
  PROVE  /\ lz \in [Lossy -> LossyState] /\ TypeOK /\ Lossy \subseteq Thread
         /\ \A t \in Lossy : lz[t] \in LossyState /\ LocalsOf(t) /\ YieldedOf(t)
         /\ yielded \in [Lossy -> SUBSET Value] /\ stayed \in [Lossy -> SUBSET Value]
         /\ Amounts \subseteq Nat
BY ByThread, LossyAssumption DEF LossySound, LossyTypeOK, LossyState

----------------------------------------------------------------------------
(* The steps *)

OwnStep(t) ==
  \/ NewIter(t) \/ DropIter(t) \/ IterEnd(t) \/ IterNext(t) \/ IterRead(t)
  \/ \E g \in Guard \ OwningGuard : IterGet(t, g)
  \/ IterMiss(t) \/ IterStep(t)
  \/ \E n \in Amounts : BeginReserve(t, n)
  \/ ReserveNeeded(t) \/ ReserveChunks(t) \/ ReservePanics(t)

MapEnds ==
  \/ \E g, h \in Guard : CloneGuard(g, h)
  \/ Unborrowed /\ CloseMap
  \/ DropMap
  \/ Freed

LEMMA LossySteps ==
  ASSUME [LossyNext]_lossyVars
  PROVE  \/ \E t \in Thread : MapStep(t) /\ Aside
         \/ MapEnds /\ Aside
         \/ \E t \in Lossy : OwnStep(t) /\ Watch
         \/ UNCHANGED lossyVars
<1>1. ASSUME NEW g \in Guard, NEW h \in Guard, CloneGuard(g, h), Aside
      PROVE  MapEnds /\ Aside
  BY <1>1, Zenon DEF MapEnds
<1>2. ASSUME (Unborrowed /\ CloseMap) \/ DropMap \/ Freed, Aside
      PROVE  MapEnds /\ Aside
  BY <1>2, Zenon DEF MapEnds
<1>. QED  BY <1>1, <1>2, Zenon DEF LossyNext, OwnStep

LEMMA Goings ==
  ASSUME LossySound, NEW t \in Lossy, NEW r, GoOn(t, r)
  PROVE  lz'[t] = r /\ \A u \in Lossy \ {t} : lz'[u] = lz[u]
BY LossyTyped DEF GoOn

\* An iterator asks for a key.
LEMMA AsksKey ==
  ASSUME LossySound, NEW t \in Lossy, NEW g \in Guard, IterGet(t, g)
  PROVE  /\ Here(t) \in Slot /\ [idx |-> Here(t), ver |-> lz[t].ver] \in Key
         /\ t \in Thread
<1>1. /\ lz[t] \in LossyState /\ LocalsOf(t) /\ TypeOK /\ t \in Thread
      /\ Does(t, "get")
  BY LossyTyped DEF IterGet
<1>2. lz[t].cur \in 1 .. len /\ lz[t].ver \in Version /\ lz[t].ver % 2 = 1
  BY <1>1 DEF LocalsOf, Does, LossyState
<1>3. Here(t) \in Slot
  BY <1>1, <1>2, SlotMapAssumption DEF Here, Slot, TypeOK
<1>. QED  BY <1>1, <1>2, <1>3 DEF Key

\* Each step is one of the map, but for the chunks of a reserve.
LEMMA MapSteps ==
  ASSUME LossySound, [LossyNext]_lossyVars
  PROVE  [Next]_vars \/ \E t \in Lossy : ReserveChunks(t)
<1>1. ASSUME NEW t \in Lossy, OwnStep(t)  PROVE [Next]_vars \/ ReserveChunks(t)
  <2>1. ASSUME NEW g \in Guard \ OwningGuard, IterGet(t, g)  PROVE [Next]_vars
    <3>1. Call(t) /\ t \in Thread  BY <2>1, AsksKey DEF IterGet, Call
    <3>. QED  BY <3>1 DEF Next
  <2>2. CASE IterStep(t)
    BY <2>2, LossyTyped DEF IterStep, Next
  <2>3. CASE UNCHANGED vars
    BY <2>3
  <2>. QED
    BY <1>1, <2>1, <2>2, <2>3 DEF OwnStep, NewIter, DropIter, IterEnd, IterNext, IterRead,
       IterMiss, BeginReserve, ReserveNeeded, ReservePanics
<1>. QED  BY <1>1, LossySteps DEF MapEnds, Next, MapStep, lossyVars

----------------------------------------------------------------------------
(* The map under a reserve *)

LEMMA ReserveKeeps ==
  ASSUME LossySound, KeysInv, NEW t \in Lossy, ReserveChunks(t)
  PROVE  KeysInv'
<1>1. /\ UNCHANGED <<len, slotVars, mapVars, th, history>>
      /\ chunks' = chunks \cup ChunksFor(Target(t)) /\ Target(t) <= MaxSlots
  BY DEF ReserveChunks
<1>2. TypeOK'
  <2>1. Target(t) \in Nat  BY LossyTyped DEF Target, TypeOK, LossyState
  <2>2. ChunksFor(Target(t)) \subseteq {ChunkOf(s) : s \in Slot}
    <3>1. \A i \in 0 .. Target(t) - 1 : i \in Slot
      BY <1>1, <2>1, SlotMapAssumption DEF Slot
    <3>. QED  BY <3>1 DEF ChunksFor
  <2>. QED
    BY <1>1, <2>2, LossyTyped DEF TypeOK, slotVars, mapVars, history, lossVars
<1>3. ASSUME Core  PROVE Core'
  BY <1>1, <1>2, <1>3, Frame DEF slotVars, mapVars, history, lossVars
<1>4. ASSUME Values  PROVE Values'
  <2>. USE <1>1 DEF slotVars, mapVars, history, lossVars
  <2>1. ValuesInHand' /\ DestroyedOnce' /\ StrandedKept'
    BY <1>4 DEF Values, ValuesInHand, DestroyedOnce, Fresh, StrandedKept
  <2>2. ChunksThere'  BY <1>4 DEF Values, ChunksThere, At
  <2>3. life' # "freed" => SlotsAlive' /\ GuardsAlive' /\ NotForgotten'
    BY <1>4 DEF Values, SlotsAlive, Alive, Occupied, GuardsAlive, NotForgotten, At
  <2>4. life' = "freed" => (\A u \in Thread : At(u, "idle"))' /\ (\A g \in Guard : ~Held(g))'
    BY <1>4 DEF Values, At, Held
  <2>. QED  BY <2>1, <2>2, <2>3, <2>4 DEF Values
<1>5. UNCHANGED <<free_head, keyOf, version, th>>
  BY <1>1 DEF slotVars, mapVars, history
<1>6. ASSUME KeysInOrder /\ KeysUnique  PROVE KeysInOrder' /\ KeysUnique'
  BY <1>5, <1>6 DEF KeysInOrder, KeysUnique
<1>. QED
  BY <1>3, <1>4, <1>5, <1>6 DEF KeysInv, ValuesInv, IInv, NoTagWrap, NoVersionWrap

\* What a step does to the map, as far as an iterator is concerned.
LEMMA MapKeeps ==
  ASSUME LossySound, KeysInv, [LossyNext]_lossyVars
  PROVE  /\ KeysInv'
         /\ NoTagWrap' => NoTagWrap
         /\ NoTagWrap => /\ \A v \in Value : keyOf[v] # None => keyOf'[v] = keyOf[v]
                         /\ NoVersionWrap' => NoVersionWrap
<1>1. ASSUME NEW t \in Lossy, ReserveChunks(t)
      PROVE  UNCHANGED <<free_head, keyOf>>
  BY <1>1 DEF ReserveChunks, mapVars, history
<1>2. KeysInv'  BY MapSteps, ReserveKeeps, StepKeysInv
<1>3. NoTagWrap' => NoTagWrap
  <2>1. CASE [Next]_vars
    <3>1. /\ free_head.tag \in Nat /\ free_head'.tag \in Nat
          /\ free_head'.tag >= free_head.tag
      BY <2>1, TagGrows DEF KeysInv, ValuesInv, IInv
    <3>. QED  BY <3>1, SlotMapAssumption DEF NoTagWrap
  <2>. QED  BY <1>1, <2>1, MapSteps DEF NoTagWrap
<1>4. ASSUME NoTagWrap
      PROVE  \A v \in Value : keyOf[v] # None => keyOf'[v] = keyOf[v]
  BY <1>1, <1>4, MapSteps, KeysStay DEF KeysInv
<1>5. ASSUME NoTagWrap, NoVersionWrap'  PROVE NoVersionWrap
  BY <1>4, <1>5 DEF NoVersionWrap
<1>. QED  BY <1>2, <1>3, <1>4, <1>5
LEMMA LenStep ==
  ASSUME NEW t \in Thread, Call(t) \/ Step(t)
  PROVE  len' \in {len, len + 1}
BY DEF Call, Step, InsertStep, PopStep, GetStep, RemoveStep, PushStep, DropStep,
       BeginInsert, BeginGet, BeginRemove, DropGuard, PopReadNext, PopSwap, PopRetry,
       PushZeroed, EnsureChunk, LoadVersion, WriteValue, CallErr, CallPanics, StoreRef,
       StoreVersion, CountUp, AcquireSwap, AcquireRetry, CheckVersion, CheckFails,
       UndoAcquire, RemoveSwap, RemoveFails, RemoveDec, CountDown, DropValue,
       DropValuePanics, PushLoad, PushStoreNext, PushSwap, PushRetry, vecVars

\* A step of the map outside of iterators and reserves leaves them alone.
LEMMA AsideKeeps ==
  ASSUME LossySound, KeysInv, NoTagWrap, NEW u \in Lossy, ~Does(u, "none"),
         \/ \E t \in Thread : MapStep(t) /\ Aside
         \/ MapEnds /\ Aside
         \/ UNCHANGED lossyVars
  PROVE  /\ lz'[u] = lz[u] /\ yielded'[u] = yielded[u] /\ th'[u] = th[u] /\ life' = life
         /\ len' >= len /\ len \in Nat /\ len' \in Nat
<1>1. /\ LocalsOf(u) /\ u \in Thread /\ len \in Nat /\ Core /\ life = "open"
  BY LossyTyped, SlotMapAssumption DEF TypeOK, KeysInv, ValuesInv, IInv, LocalsOf
<1>2. ASSUME NEW t \in Thread, MapStep(t), Aside
      PROVE  th'[u] = th[u] /\ life' = life /\ len' \in {len, len + 1}
  <2>1. Call(t) \/ Step(t)  BY <1>2 DEF MapStep
  <2>2. u # t  BY <1>2 DEF MapStep
  <2>3. th'[u] = th[u]  BY <1>1, <2>1, <2>2, Others
  <2>4. life' = life  BY <2>1, DataStep
  <2>5. len' \in {len, len + 1}  BY <2>1, LenStep
  <2>. QED  BY <2>3, <2>4, <2>5
<1>3. ASSUME MapEnds
      PROVE  th'[u] = th[u] /\ life' = life /\ len' = len
  BY <1>1, <1>3 DEF MapEnds, Unborrowed, CloneGuard, CloseMap, DropMap, Freed, vars,
     vecVars, mapVars
<1>4. CASE UNCHANGED lossyVars
  BY <1>1, <1>4 DEF lossyVars, vars, vecVars, mapVars
<1>. QED  BY <1>1, <1>2, <1>3, <1>4 DEF Aside

LEMMA LenGrows ==
  ASSUME LossySound, KeysInv, NoTagWrap, [LossyNext]_lossyVars
  PROVE  len' >= len /\ len \in Nat /\ len' \in Nat
<1>1. len \in Nat  BY LossyTyped, SlotMapAssumption DEF TypeOK
<1>2. ASSUME NEW t \in Thread, Call(t) \/ Step(t)  PROVE len' \in {len, len + 1}
  BY <1>2, LenStep
<1>3. CASE [Next]_vars
  <2>1. CASE len' = len
    BY <1>1, <2>1
  <2>2. ASSUME NEW t \in Thread, Call(t) \/ Step(t)  PROVE len' >= len /\ len' \in Nat
    BY <1>1, <1>2, <2>2
  <2>3. (\E t \in Thread : Call(t) \/ Step(t)) \/ len' = len
    BY <1>3 DEF Next, CloneGuard, CloseMap, DropMap, Freed, vars, vecVars
  <2>. QED  BY <1>1, <2>1, <2>2, <2>3
<1>4. ASSUME NEW t \in Lossy, ReserveChunks(t)  PROVE len' = len
  BY <1>4 DEF ReserveChunks
<1>. QED  BY <1>1, <1>3, <1>4, MapSteps

\* The thread of a lossy call is the only one it moves.
LEMMA OwnKeeps ==
  ASSUME LossySound, KeysInv, NoTagWrap, NEW t \in Lossy, OwnStep(t)
  PROVE  /\ \A u \in Lossy \ {t} : lz'[u] = lz[u] /\ yielded'[u] = yielded[u] /\ th'[u] = th[u]
         /\ life' = life
<1>0. /\ Core /\ t \in Thread /\ Lossy \subseteq Thread
      /\ yielded \in [Lossy -> SUBSET Value]
  BY LossyTyped DEF KeysInv, ValuesInv, IInv
<1>1. \A u \in Lossy \ {t} : lz'[u] = lz[u]
  <2>1. ASSUME NEW r, GoOn(t, r)  PROVE \A u \in Lossy \ {t} : lz'[u] = lz[u]
    BY <2>1, Goings
  <2>2. CASE IterStep(t)
    BY <2>2, LossyTyped DEF IterStep
  <2>. QED
    BY <2>1, <2>2 DEF OwnStep, NewIter, DropIter, IterEnd, IterNext, IterRead, IterGet,
       IterMiss, BeginReserve, ReserveNeeded, ReserveChunks, ReservePanics
<1>2. \A u \in Lossy \ {t} : yielded'[u] = yielded[u]
  BY <1>0 DEF OwnStep, NewIter, DropIter, IterEnd, IterNext, IterRead, IterGet,
     IterMiss, IterStep, BeginReserve, ReserveNeeded, ReserveChunks, ReservePanics
<1>3. (\A u \in Thread \ {t} : th'[u] = th[u]) /\ life' = life
  <2>1. ASSUME Call(t) \/ Step(t)
        PROVE  (\A u \in Thread \ {t} : th'[u] = th[u]) /\ life' = life
    BY <1>0, <2>1, Others, DataStep
  <2>2. ASSUME NEW g \in Guard \ OwningGuard, IterGet(t, g)  PROVE Call(t)
    BY <2>2, AsksKey DEF IterGet, Call
  <2>3. CASE IterStep(t)  BY <2>1, <2>3 DEF IterStep
  <2>4. CASE UNCHANGED <<th, life>>  BY <2>4
  <2>. QED
    BY <2>1, <2>2, <2>3, <2>4 DEF OwnStep, NewIter, DropIter, IterEnd, IterNext, IterRead,
       IterMiss, BeginReserve, ReserveNeeded, ReserveChunks, ReservePanics, vars, mapVars
<1>. QED  BY <1>0, <1>1, <1>2, <1>3

\* What an iterator watches shrinks to what is still in the map.
LEMMA Watched ==
  ASSUME LossySound, NEW u \in Lossy, Watch, lz'[u] \in LossyState
  PROVE  /\ ~Iterating(u)' => stayed'[u] = {}
         /\ Iterating(u)' /\ ~Does(u, "none") => stayed'[u] = stayed[u] \cap Bound'
         /\ Iterating(u)' /\ Does(u, "none") => stayed'[u] = Bound
<1>1. lz[u] \in LossyState  BY LossyTyped
<1>. QED  BY <1>1 DEF Watch, Iterating, Does, LossyState, LossyPC

\* The moves of the get of an iterator.
GetPC == {"acquire", "check", "undo", "drop_value", "push_load", "push_next", "push_swap"}

LEMMA GetMoves ==
  ASSUME Core, NEW t \in Thread, Step(t), th[t].op = "get", th[t].pc \in GetPC
  PROVE  /\ th'[t].pc # "idle" =>
              /\ th'[t].op = "get" /\ th'[t].pc \in GetPC
              /\ th'[t].pc \in {"acquire", "check"} =>
                   /\ th[t].pc \in {"acquire", "check"}
                   /\ th'[t].idx = th[t].idx /\ th'[t].ver = th[t].ver
              /\ th[t].pc \in {"acquire", "check"} /\ th'[t].pc \notin {"acquire", "check"} =>
                   CheckFails(t)
         /\ th'[t].pc = "idle" /\ th[t].pc \in {"acquire", "check"} =>
              \/ CheckVersion(t)
              \/ th[t].pc = "acquire" /\ ~Acquirable(ref_count[th[t].idx])
<1>1. th \in [Thread -> ThreadState] /\ th[t] \in ThreadState  BY DEF Core, TypeOK
<1>2. ASSUME NEW r, Become(t, r)  PROVE th'[t] = r
  BY <1>1, <1>2 DEF Become
<1>3. \/ AcquireSwap(t) \/ AcquireRetry(t) \/ CheckVersion(t) \/ CheckFails(t)
      \/ UndoAcquire(t) \/ DropValue(t) \/ DropValuePanics(t)
      \/ PushLoad(t) \/ PushStoreNext(t) \/ PushSwap(t) \/ PushRetry(t)
  BY InsertMoves, OtherMoves
     DEF Step, InsertStep, PopStep, GetStep, RemoveStep, PushStep, DropStep, Goes, GetPC
<1>4. CASE AcquireSwap(t)
  <2>1. th'[t] = [th[t] EXCEPT !.pc = "check", !.rc = 0]  BY <1>2, <1>4 DEF AcquireSwap
  <2>. QED  BY <1>1, <1>4, <2>1 DEF AcquireSwap, At, ThreadState, GetPC
<1>5. CASE AcquireRetry(t)
  <2>. DEFINE count == ref_count[th[t].idx]
  <2>1. CASE Acquirable(count)
    <3>1. th'[t] = [th[t] EXCEPT !.rc = count]  BY <1>2, <1>5, <2>1 DEF AcquireRetry
    <3>. HIDE DEF count
    <3>2. th'[t].pc = th[t].pc /\ th'[t].op = th[t].op /\ th'[t].idx = th[t].idx
          /\ th'[t].ver = th[t].ver
      BY <1>1, <3>1 DEF ThreadState
    <3>. QED  BY <1>5, <3>2 DEF AcquireRetry, At, GetPC
  <2>2. CASE ~Acquirable(count)
    <3>1. th'[t] = Idle  BY <1>2, <1>5, <2>2 DEF AcquireRetry, Return
    <3>. QED  BY <1>5, <2>2, <3>1 DEF AcquireRetry, At, Idle
  <2>. QED  BY <2>1, <2>2
<1>6. CASE CheckVersion(t)
  BY <1>6, OtherMoves
<1>7. CASE CheckFails(t)
  <2>1. th'[t] = [th[t] EXCEPT !.pc = "undo", !.ver = 0, !.out = None]
    BY <1>2, <1>7 DEF CheckFails
  <2>. QED  BY <1>1, <1>7, <2>1 DEF ThreadState, GetPC
<1>8. CASE UndoAcquire(t)
  <2>1. \/ th'[t] = [th[t] EXCEPT !.pc = "drop_value"]
        \/ th'[t] = Idle
    BY <1>2, <1>8 DEF UndoAcquire, Return
  <2>2. th[t].pc = "undo"  BY <1>8 DEF UndoAcquire, At
  <2>. QED  BY <1>1, <2>1, <2>2 DEF ThreadState, GetPC, Idle
<1>9. CASE DropValue(t)
  <2>1. th'[t] = [th[t] EXCEPT !.pc = "push_load"]  BY <1>2, <1>9 DEF DropValue
  <2>. QED  BY <1>1, <1>9, <2>1 DEF ThreadState, GetPC, DropValue, At
<1>10. CASE DropValuePanics(t)
  BY <1>10, OtherMoves
<1>11. CASE PushLoad(t) \/ PushRetry(t)
  <2>1. th'[t] = [th[t] EXCEPT !.pc = "push_next", !.head = free_head]
    BY <1>2, <1>11 DEF PushLoad, PushRetry
  <2>. QED  BY <1>1, <1>11, <2>1 DEF ThreadState, GetPC, PushLoad, PushRetry, At
<1>12. CASE PushStoreNext(t)
  <2>1. th'[t] = [th[t] EXCEPT !.pc = "push_swap"]  BY <1>2, <1>12 DEF PushStoreNext
  <2>. QED  BY <1>1, <1>12, <2>1 DEF ThreadState, GetPC, PushStoreNext, At
<1>13. CASE PushSwap(t)
  <2>1. th'[t] = Idle  BY <1>2, <1>13 DEF PushSwap
  <2>. QED  BY <1>13, <2>1 DEF PushSwap, At, Idle
<1>. QED
  BY <1>3, <1>4, <1>5, <1>6, <1>7, <1>8, <1>9, <1>10, <1>11, <1>12, <1>13

\* A get that returns a guard has found a value in the map.
LEMMA YieldsBound ==
  ASSUME Core, Values, NEW t \in Thread, CheckVersion(t)
  PROVE  /\ data[th[t].idx] \in Bound /\ data[th[t].idx] \in Value
         /\ keyOf[data[th[t].idx]] = [idx |-> th[t].idx, ver |-> th[t].ver]
<1>. DEFINE s == th[t].idx
<1>1. s \in Slot /\ version[s] = th[t].ver /\ th[t].pc = "check"
  BY DEF CheckVersion, At, Core, TypeOK, ThreadState
<1>2. Occupied(s)  BY <1>1 DEF Core, LocalsSound, Occupied
<1>3. life # "freed"  BY <1>1 DEF Values, At
<1>4. Alive(s) /\ keyOf[data[s]] = [idx |-> s, ver |-> version[s]]
  BY <1>1, <1>2, <1>3, OccupiedAlive
<1>5. data[s] \in Value /\ keyOf[data[s]] # None  BY <1>4 DEF Alive
<1>6. keyOf[data[s]].idx = s /\ keyOf[data[s]].ver = version[s]  BY <1>4
<1>. QED  BY <1>1, <1>3, <1>4, <1>5, <1>6 DEF Bound
----------------------------------------------------------------------------
(* The moves of an iterator and of a reserve *)

Stops(t) == lz'[t] = NoCall
\* It goes on at the same slot with the same key, or to the next slot.
Stays(t, from, to) ==
  /\ lz[t].pc = from /\ lz'[t].pc = to
  /\ lz'[t].cur = lz[t].cur /\ lz'[t].ver = lz[t].ver
GoesNext(t, from) == lz[t].pc = from /\ lz'[t].pc = "next" /\ lz'[t].cur = lz[t].cur

LEMMA NoCallState ==
  /\ NoCall \in LossyState /\ NoCall.pc = "none"
  /\ 0 \in Version /\ 0 \in 0 .. CountMod - 1
BY SmallVersions, SlotMapAssumption DEF NoCall, LossyState, LossyPC

LEMMA OwnMoves ==
  ASSUME LossySound, KeysInv, NoTagWrap, NEW t \in Lossy, OwnStep(t)
  PROVE  /\ lz' \in [Lossy -> LossyState]
         /\ NewIter(t) => lz[t].pc = "none" /\ lz'[t].pc = "next" /\ lz'[t].cur = 0
         /\ DropIter(t) \/ IterEnd(t) \/ ReserveChunks(t) \/ ReservePanics(t) => Stops(t)
         /\ IterNext(t) => /\ lz[t].pc = "next" /\ lz'[t].pc = "read"
                           /\ lz'[t].cur = lz[t].cur + 1 /\ lz[t].cur < len
         /\ IterRead(t) =>
              \/ /\ lz[t].pc = "read" /\ lz'[t].pc = "get" /\ lz'[t].cur = lz[t].cur
                 /\ Here(t) \in Slot /\ lz'[t].ver = version[Here(t)] /\ Occupied(Here(t))
              \/ GoesNext(t, "read") /\ ~(Here(t) < len /\ Occupied(Here(t)))
         /\ \A g \in Guard \ OwningGuard : IterGet(t, g) => Stays(t, "get", "getting")
         /\ IterMiss(t) => Stops(t) \/ (GoesNext(t, "get") /\ ref_count[Here(t)] = 0)
         /\ IterStep(t) =>
              \/ Stays(t, "getting", "getting") /\ th'[t].pc # "idle"
              \/ Stops(t) /\ th'[t].pc = "idle" /\ Unwinds(t)
              \/ GoesNext(t, "getting") /\ th'[t].pc = "idle" /\ ~Unwinds(t)
         /\ \A n \in Amounts : BeginReserve(t, n) => lz'[t].pc = "res_len"
         /\ ReserveNeeded(t) =>
              /\ lz'[t].pc = "res_vec" /\ lz'[t].from = lz[t].from /\ lz'[t].more = lz[t].more
              /\ len + lz'[t].needed >= lz[t].from + lz[t].more
<1>0. /\ lz \in [Lossy -> LossyState] /\ lz[t] \in LossyState /\ LocalsOf(t) /\ TypeOK
      /\ t \in Thread /\ Amounts \subseteq Nat
  BY LossyTyped
<1>1. ASSUME NEW r \in LossyState, GoOn(t, r)
      PROVE  lz'[t] = r /\ lz' \in [Lossy -> LossyState]
  BY <1>0, <1>1 DEF GoOn
<1>2. NoCall \in LossyState /\ NoCall.pc = "none" /\ 0 \in Version  BY NoCallState
<1>3. ASSUME NewIter(t)
      PROVE  /\ lz' \in [Lossy -> LossyState]
             /\ lz[t].pc = "none" /\ lz'[t].pc = "next" /\ lz'[t].cur = 0
  <2>. DEFINE r == [NoCall EXCEPT !.pc = "next"]
  <2>1. r \in LossyState /\ r.pc = "next" /\ r.cur = 0
    BY <1>2 DEF LossyState, LossyPC, NoCall
  <2>2. GoOn(t, r) /\ lz[t].pc = "none"  BY <1>3 DEF NewIter, Does
  <2>. HIDE DEF r
  <2>. QED  BY <1>1, <2>1, <2>2
<1>4. ASSUME DropIter(t) \/ IterEnd(t) \/ ReserveChunks(t) \/ ReservePanics(t)
      PROVE  lz' \in [Lossy -> LossyState] /\ Stops(t)
  BY <1>1, <1>2, <1>4 DEF DropIter, IterEnd, ReserveChunks, ReservePanics, Stops
<1>5. ASSUME IterNext(t)
      PROVE  /\ lz' \in [Lossy -> LossyState] /\ lz[t].pc = "next" /\ lz'[t].pc = "read"
             /\ lz'[t].cur = lz[t].cur + 1 /\ lz[t].cur < len
  <2>. DEFINE r == [lz[t] EXCEPT !.pc = "read", !.cur = @ + 1]
  <2>1. lz[t].cur + 1 \in 0 .. MaxSlots
    <3>1. lz[t].cur \in 0 .. MaxSlots  BY <1>0 DEF LossyState
    <3>2. len \in 0 .. MaxSlots /\ lz[t].cur < len  BY <1>0, <1>5 DEF IterNext, TypeOK
    <3>. QED  BY <3>1, <3>2, SlotMapAssumption
  <2>2. r \in LossyState /\ r.pc = "read" /\ r.cur = lz[t].cur + 1
    BY <1>0, <2>1 DEF LossyState, LossyPC
  <2>3. GoOn(t, r) /\ lz[t].pc = "next" /\ lz[t].cur < len  BY <1>5 DEF IterNext, Does
  <2>. HIDE DEF r
  <2>. QED  BY <1>1, <2>2, <2>3
<1>6. ASSUME IterRead(t)
      PROVE  /\ lz' \in [Lossy -> LossyState]
             /\ \/ /\ lz[t].pc = "read" /\ lz'[t].pc = "get" /\ lz'[t].cur = lz[t].cur
                   /\ Here(t) \in Slot /\ lz'[t].ver = version[Here(t)] /\ Occupied(Here(t))
                \/ GoesNext(t, "read") /\ ~(Here(t) < len /\ Occupied(Here(t)))
  <2>0. lz[t].pc = "read" /\ lz[t].cur \in 1 .. len /\ Here(t) \in Slot
    <3>1. lz[t].pc = "read" /\ lz[t].cur \in 1 .. len
      BY <1>0, <1>6 DEF IterRead, Does, LocalsOf
    <3>. QED  BY <1>0, <3>1, SlotMapAssumption DEF Here, Slot, TypeOK
  <2>1. CASE Here(t) < len /\ Occupied(Here(t))
    <3>. DEFINE r == [lz[t] EXCEPT !.pc = "get", !.ver = version[Here(t)]]
    <3>1. version[Here(t)] \in Version  BY <1>0, <2>0 DEF TypeOK
    <3>2. r \in LossyState /\ r.pc = "get" /\ r.cur = lz[t].cur /\ r.ver = version[Here(t)]
      BY <1>0, <3>1 DEF LossyState, LossyPC
    <3>3. GoOn(t, r)  BY <1>6, <2>1 DEF IterRead
    <3>. HIDE DEF r
    <3>. QED  BY <1>1, <2>0, <2>1, <3>2, <3>3
  <2>2. CASE ~(Here(t) < len /\ Occupied(Here(t)))
    <3>. DEFINE r == [lz[t] EXCEPT !.pc = "next"]
    <3>1. r \in LossyState /\ r.pc = "next" /\ r.cur = lz[t].cur
      BY <1>0 DEF LossyState, LossyPC
    <3>2. GoOn(t, r)  BY <1>6, <2>2 DEF IterRead
    <3>. HIDE DEF r
    <3>. QED  BY <1>1, <2>0, <2>2, <3>1, <3>2 DEF GoesNext
  <2>. QED  BY <2>1, <2>2
<1>7. ASSUME NEW g \in Guard \ OwningGuard, IterGet(t, g)
      PROVE  lz' \in [Lossy -> LossyState] /\ Stays(t, "get", "getting")
  <2>. DEFINE r == [lz[t] EXCEPT !.pc = "getting"]
  <2>1. r \in LossyState /\ r.pc = "getting" /\ r.cur = lz[t].cur /\ r.ver = lz[t].ver
    BY <1>0 DEF LossyState, LossyPC
  <2>2. GoOn(t, r) /\ lz[t].pc = "get"  BY <1>7 DEF IterGet, Does
  <2>. HIDE DEF r
  <2>. QED  BY <1>1, <2>1, <2>2 DEF Stays
<1>8. ASSUME IterMiss(t)
      PROVE  /\ lz' \in [Lossy -> LossyState]
             /\ Stops(t) \/ (GoesNext(t, "get") /\ ref_count[Here(t)] = 0)
  <2>. DEFINE r == [lz[t] EXCEPT !.pc = "next", !.ver = 0]
  <2>1. r \in LossyState /\ r.pc = "next" /\ r.cur = lz[t].cur
    BY <1>0, <1>2 DEF LossyState, LossyPC
  <2>2. /\ lz[t].pc = "get"
        /\ GoOn(t, NoCall) \/ (GoOn(t, r) /\ ref_count[Here(t)] = 0)
    BY <1>8 DEF IterMiss, Does
  <2>. HIDE DEF r
  <2>. QED  BY <1>1, <1>2, <2>1, <2>2 DEF GoesNext, Stops
<1>9. ASSUME IterStep(t)
      PROVE  /\ lz' \in [Lossy -> LossyState]
             /\ \/ Stays(t, "getting", "getting") /\ th'[t].pc # "idle"
                \/ Stops(t) /\ th'[t].pc = "idle" /\ Unwinds(t)
                \/ GoesNext(t, "getting") /\ th'[t].pc = "idle" /\ ~Unwinds(t)
  <2>0. lz[t].pc = "getting"  BY <1>9 DEF IterStep, Does
  <2>1. CASE th'[t].pc # "idle"
    <3>1. lz' = lz  BY <1>9, <2>1 DEF IterStep
    <3>. QED  BY <1>0, <2>0, <2>1, <3>1 DEF Stays
  <2>2. CASE th'[t].pc = "idle" /\ Unwinds(t)
    <3>1. lz' = [lz EXCEPT ![t] = NoCall]  BY <1>9, <2>2 DEF IterStep
    <3>. QED  BY <1>0, <1>2, <2>2, <3>1 DEF Stops
  <2>3. CASE th'[t].pc = "idle" /\ ~Unwinds(t)
    <3>. DEFINE r == [lz[t] EXCEPT !.pc = "next", !.ver = 0]
    <3>1. r \in LossyState /\ r.pc = "next" /\ r.cur = lz[t].cur
      BY <1>0, <1>2 DEF LossyState, LossyPC
    <3>2. lz' = [lz EXCEPT ![t] = r]  BY <1>9, <2>3 DEF IterStep
    <3>. HIDE DEF r
    <3>. QED  BY <1>0, <2>0, <2>3, <3>1, <3>2 DEF GoesNext
  <2>. QED  BY <2>1, <2>2, <2>3
<1>10. ASSUME NEW n \in Amounts, BeginReserve(t, n)
       PROVE  lz' \in [Lossy -> LossyState] /\ lz'[t].pc = "res_len"
  <2>. DEFINE r == [NoCall EXCEPT !.pc = "res_len", !.from = num_elems, !.more = n]
  <2>1. r \in LossyState /\ r.pc = "res_len"
    BY <1>0, <1>2 DEF LossyState, LossyPC, NoCall, TypeOK
  <2>2. GoOn(t, r)  BY <1>10 DEF BeginReserve
  <2>. HIDE DEF r
  <2>. QED  BY <1>1, <2>1, <2>2
<1>11. ASSUME ReserveNeeded(t)
       PROVE  /\ lz' \in [Lossy -> LossyState]
              /\ lz'[t].pc = "res_vec" /\ lz'[t].from = lz[t].from /\ lz'[t].more = lz[t].more
              /\ len + lz'[t].needed >= lz[t].from + lz[t].more
  <2>. DEFINE sum == lz[t].from + lz[t].more
              n == IF sum > len THEN sum - len ELSE 0
              r == [lz[t] EXCEPT !.pc = "res_vec", !.needed = n]
  <2>1. sum \in Nat /\ len \in Nat
    <3>1. lz[t].from \in 0 .. CountMod - 1 /\ lz[t].more \in Amounts \cup {0}
      BY <1>0 DEF LossyState
    <3>2. lz[t].from \in Nat  BY <3>1, SlotMapAssumption
    <3>3. Amounts \cup {0} \subseteq Nat
      <4>1. Amounts \subseteq Nat  BY <1>0
      <4>. QED  BY <4>1
    <3>4. lz[t].more \in Nat  BY <3>1, <3>3
    <3>5. len \in Nat  BY <1>0, SlotMapAssumption DEF TypeOK
    <3>. QED  BY <3>2, <3>4, <3>5
  <2>2. GoOn(t, r)  BY <1>11 DEF ReserveNeeded
  <2>. HIDE DEF sum
  <2>3. n \in Nat /\ len + n >= sum  BY <2>1
  <2>. HIDE DEF n
  <2>4. /\ r \in LossyState /\ r.pc = "res_vec" /\ r.from = lz[t].from
        /\ r.more = lz[t].more /\ r.needed = n
    BY <1>0, <2>3 DEF LossyState, LossyPC
  <2>. HIDE DEF r
  <2>. QED  BY <1>1, <2>2, <2>3, <2>4 DEF sum
<1>12. lz' \in [Lossy -> LossyState]
  BY <1>3, <1>4, <1>5, <1>6, <1>7, <1>8, <1>9, <1>10, <1>11 DEF OwnStep
<1>. QED
  BY <1>3, <1>4, <1>5, <1>6, <1>7, <1>8, <1>9, <1>10, <1>11, <1>12

LEMMA StateStep ==
  ASSUME LossySound, KeysInv, NoTagWrap, [LossyNext]_lossyVars
  PROVE  lz' \in [Lossy -> LossyState]
BY LossySteps, LossyTyped, OwnMoves DEF Aside, lossyVars

\* What an iterator has returned after a step.
LEMMA YieldedMoves ==
  ASSUME LossySound, KeysInv, NoTagWrap, NEW t \in Lossy, OwnStep(t)
  PROVE  /\ NewIter(t) => yielded'[t] = {}
         /\ ~NewIter(t) /\ ~(IterStep(t) /\ Yields(t)) => yielded'[t] = yielded[t]
         /\ IterStep(t) /\ Yields(t) =>
              yielded'[t] = yielded[t] \cup {data[th[t].idx]} /\ CheckVersion(t)
<1>1. yielded \in [Lossy -> SUBSET Value]  BY LossyTyped
<1>2. ASSUME IterStep(t), Yields(t)  PROVE CheckVersion(t)
  <2>1. Core /\ t \in Thread /\ LocalsOf(t)  BY LossyTyped DEF KeysInv, ValuesInv, IInv
  <2>2. Step(t) /\ th[t].op = "get" /\ th[t].pc = "check" /\ th'[t].pc = "idle"
    BY <1>2, <2>1 DEF IterStep, Yields, LocalsOf, At
  <2>. QED  BY <2>1, <2>2, GetMoves DEF GetPC
<1>. QED
  BY <1>1, <1>2 DEF OwnStep, NewIter, DropIter, IterEnd, IterNext, IterRead, IterGet,
     IterMiss, IterStep, BeginReserve, ReserveNeeded, ReserveChunks, ReservePanics

LEMMA LossyTypesStep ==
  ASSUME LossySound, KeysInv, NoTagWrap, NoTagWrap', [LossyNext]_lossyVars
  PROVE  LossyTypeOK'
<1>1. TypeOK' /\ Core /\ Values
  <2>1. KeysInv'  BY MapKeeps
  <2>. QED  BY <2>1 DEF KeysInv, ValuesInv, IInv, Core
<1>2. lz' \in [Lossy -> LossyState]  BY StateStep
<1>3. yielded' \in [Lossy -> SUBSET Value]
  <2>0. yielded \in [Lossy -> SUBSET Value]  BY LossyTyped
  <2>1. ASSUME NEW t \in Lossy, OwnStep(t)  PROVE yielded' \in [Lossy -> SUBSET Value]
    <3>1. IterStep(t) /\ Yields(t) => data[th[t].idx] \in Value
      BY <1>1, <2>1, YieldedMoves, YieldsBound, LossyTyped
    <3>2. \/ yielded' = yielded
          \/ yielded' = [yielded EXCEPT ![t] = {}]
          \/ /\ IterStep(t) /\ Yields(t)
             /\ yielded' = [yielded EXCEPT ![t] = @ \cup {data[th[t].idx]}]
      BY <2>1 DEF OwnStep, NewIter, DropIter, IterEnd, IterNext, IterRead, IterGet,
         IterMiss, IterStep, BeginReserve, ReserveNeeded, ReserveChunks, ReservePanics
    <3>. QED  BY <2>0, <3>1, <3>2
  <2>. QED  BY <2>0, <2>1, LossySteps DEF Aside, lossyVars
<1>4. stayed' \in [Lossy -> SUBSET Value]
  <2>1. ASSUME Watch  PROVE stayed' \in [Lossy -> SUBSET Value]
    BY <2>1, LossyTyped DEF Watch, Bound
  <2>2. CASE UNCHANGED lossyVars  BY <2>2, LossyTyped DEF lossyVars
  <2>. QED  BY <2>1, <2>2, LossySteps DEF Aside
<1>. QED  BY <1>1, <1>2, <1>3, <1>4 DEF LossyTypeOK, LossyState

----------------------------------------------------------------------------
(* The locals of an iterator and of a reserve *)

LEMMA StillLocal ==
  ASSUME NEW u \in Lossy, LocalsOf(u), lz'[u] = lz[u],
         len \in Nat, len' \in Nat, len' >= len, lz[u].cur \in Nat, lz[u].needed \in Nat,
         lz[u].from + lz[u].more \in Nat,
         Does(u, "none") \/ (th'[u] = th[u] /\ life' = life)
  PROVE  LocalsOf(u)'
BY DEF LocalsOf, Does, At, Here

LEMMA LocalTypes ==
  ASSUME LossySound, NEW u \in Lossy
  PROVE  /\ lz[u].cur \in Nat /\ lz[u].needed \in Nat /\ lz[u].from + lz[u].more \in Nat
         /\ len \in Nat
<1>1. lz[u] \in LossyState /\ Amounts \subseteq Nat /\ TypeOK  BY LossyTyped
<1>2. /\ lz[u].cur \in 0 .. MaxSlots /\ lz[u].needed \in Nat
      /\ lz[u].from \in 0 .. CountMod - 1 /\ lz[u].more \in Amounts \cup {0}
  BY <1>1 DEF LossyState
<1>3. lz[u].more \in Nat
  <2>1. Amounts \cup {0} \subseteq Nat
    <3>1. Amounts \subseteq Nat  BY <1>1
    <3>. QED  BY <3>1
  <2>. QED  BY <1>2, <2>1
<1>4. lz[u].from \in Nat  BY <1>2, SlotMapAssumption
<1>5. len \in 0 .. MaxSlots  BY <1>1 DEF TypeOK
<1>. QED  BY <1>2, <1>3, <1>4, <1>5, SlotMapAssumption

\* A call that is not a get leaves the thread's state in the map alone.
LEMMA OwnLocals ==
  ASSUME LossySound, KeysInv, NoTagWrap, NEW t \in Lossy, OwnStep(t)
  PROVE  LocalsOf(t)'
<1>0. /\ LocalsOf(t) /\ t \in Thread /\ Core /\ TypeOK
  BY LossyTyped DEF KeysInv, ValuesInv, IInv
<1>1. /\ lz[t].cur \in Nat /\ len \in Nat  BY LocalTypes
<1>2. life' = life  BY OwnKeeps
<1>3. CASE DropIter(t) \/ IterEnd(t) \/ ReserveChunks(t) \/ ReservePanics(t)
  <2>1. Stops(t)  BY <1>3, OwnMoves
  <2>. QED  BY <2>1 DEF Stops, NoCall, LocalsOf, Does
<1>4. CASE NewIter(t)
  <2>1. lz'[t].pc = "next"  BY <1>4, OwnMoves
  <2>2. th'[t].pc = "idle" /\ life = "open"  BY <1>4 DEF NewIter, At, vars
  <2>. QED  BY <1>2, <2>1, <2>2 DEF LocalsOf, Does, At
<1>5. CASE IterNext(t)
  <2>1. lz[t].pc = "next" /\ lz'[t].pc = "read" /\ lz'[t].cur = lz[t].cur + 1
        /\ lz[t].cur < len
    BY <1>5, OwnMoves
  <2>2. th'[t] = th[t] /\ len' = len  BY <1>5 DEF IterNext, vars, vecVars
  <2>3. lz'[t].cur \in 1 .. len'  BY <1>1, <2>1, <2>2
  <2>. QED  BY <1>0, <1>2, <2>1, <2>2, <2>3 DEF LocalsOf, Does, At
<1>6. CASE IterRead(t)
  <2>1. /\ lz[t].pc = "read" /\ lz'[t].cur = lz[t].cur
        /\ lz'[t].pc = "next" \/ (lz'[t].pc = "get" /\ lz'[t].ver % 2 = 1)
    BY <1>6, OwnMoves DEF GoesNext, Occupied
  <2>2. th'[t] = th[t] /\ len' = len  BY <1>6 DEF IterRead, vars, vecVars
  <2>. QED  BY <1>0, <1>2, <2>1, <2>2 DEF LocalsOf, Does, At
<1>7. ASSUME NEW g \in Guard \ OwningGuard, IterGet(t, g)
      PROVE  LocalsOf(t)'
  <2>. DEFINE k == [idx |-> Here(t), ver |-> lz[t].ver]
  <2>1. Stays(t, "get", "getting")  BY <1>7, OwnMoves
  <2>2. BeginGet(t, k, g)  BY <1>7 DEF IterGet
  <2>3. k.idx = Here(t) /\ k.ver = lz[t].ver  OBVIOUS
  <2>. HIDE DEF k
  <2>4. th[t] \in ThreadState /\ th \in [Thread -> ThreadState]  BY <1>0 DEF TypeOK
  <2>5. th'[t] = [th[t] EXCEPT !.pc = "acquire", !.op = "get", !.idx = k.idx,
                               !.ver = k.ver, !.rc = ref_count[k.idx], !.out = g]
    BY <1>0, <2>2, <2>4 DEF BeginGet, Become
  <2>6. th'[t].pc = "acquire" /\ th'[t].op = "get" /\ th'[t].idx = Here(t)
        /\ th'[t].ver = lz[t].ver
    BY <2>3, <2>4, <2>5 DEF ThreadState
  <2>7. len' = len /\ life = "open"  BY <2>2 DEF BeginGet, vecVars
  <2>. QED  BY <1>0, <1>2, <2>1, <2>6, <2>7 DEF LocalsOf, Does, At, Here, Stays
<1>8. CASE IterMiss(t)
  <2>1. th'[t] = th[t] /\ len' = len  BY <1>8 DEF IterMiss, vars, vecVars
  <2>2. Stops(t) \/ GoesNext(t, "get")  BY <1>8, OwnMoves
  <2>. QED  BY <1>0, <1>2, <2>1, <2>2 DEF LocalsOf, Does, At, Stops, NoCall, GoesNext
<1>9. CASE IterStep(t)
  <2>0. Step(t) /\ lz[t].pc = "getting"  BY <1>9 DEF IterStep, Does
  <2>1. th[t].op = "get" /\ th[t].pc \in GetPC /\ life = "open"
    BY <1>0, <2>0 DEF LocalsOf, Does, GetPC
  <2>2. len' \in Nat /\ len' >= len
    <3>1. len' \in {len, len + 1}  BY <1>0, <2>0, LenStep
    <3>. QED  BY <1>1, <3>1
  <2>3. CASE Stays(t, "getting", "getting") /\ th'[t].pc # "idle"
    <3>1. /\ th'[t].op = "get" /\ th'[t].pc \in GetPC
          /\ th'[t].pc \in {"acquire", "check"} =>
               /\ th[t].pc \in {"acquire", "check"}
               /\ th'[t].idx = th[t].idx /\ th'[t].ver = th[t].ver
      BY <1>0, <2>0, <2>1, <2>3, GetMoves
    <3>2. lz[t].cur \in 1 .. len'
      BY <1>0, <1>1, <2>0, <2>2 DEF LocalsOf, Does
    <3>3. th'[t].pc \in {"acquire", "check"} => th'[t].idx = Here(t) /\ th'[t].ver = lz[t].ver
      BY <1>0, <2>0, <3>1 DEF LocalsOf, Does
    <3>. QED
      BY <1>2, <2>1, <2>3, <3>1, <3>2, <3>3 DEF LocalsOf, Does, At, Here, Stays, GetPC
  <2>4. CASE Stops(t)
    BY <2>4 DEF Stops, NoCall, LocalsOf, Does
  <2>5. CASE GoesNext(t, "getting") /\ th'[t].pc = "idle"
    BY <1>2, <2>1, <2>5 DEF GoesNext, LocalsOf, Does, At
  <2>. QED  BY <1>9, <2>3, <2>4, <2>5, OwnMoves
<1>10. ASSUME NEW n \in Amounts, BeginReserve(t, n)
       PROVE  LocalsOf(t)'
  <2>1. lz'[t].pc = "res_len"  BY <1>10, OwnMoves
  <2>2. th'[t].pc = "idle" /\ life = "open"  BY <1>10 DEF BeginReserve, At, vars
  <2>. QED  BY <1>2, <2>1, <2>2 DEF LocalsOf, Does, At
<1>11. CASE ReserveNeeded(t)
  <2>1. /\ lz'[t].pc = "res_vec" /\ lz'[t].from = lz[t].from /\ lz'[t].more = lz[t].more
        /\ len + lz'[t].needed >= lz[t].from + lz[t].more
    BY <1>11, OwnMoves
  <2>2. th'[t] = th[t] /\ len' = len /\ lz[t].pc = "res_len"
    BY <1>11 DEF ReserveNeeded, vars, vecVars, Does
  <2>. QED  BY <1>0, <1>2, <2>1, <2>2 DEF LocalsOf, Does, At
<1>. QED
  BY <1>3, <1>4, <1>5, <1>6, <1>7, <1>8, <1>9, <1>10, <1>11 DEF OwnStep

LEMMA LossyLocalsStep ==
  ASSUME LossySound, KeysInv, NoTagWrap, [LossyNext]_lossyVars
  PROVE  LossyLocals'
<1>1. SUFFICES ASSUME NEW u \in Lossy  PROVE LocalsOf(u)'
  <2>1. LossyLocals' <=> \A t \in Lossy : LocalsOf(t)'
    BY DEF LossyLocals, LocalsOf
  <2>. QED  BY <2>1
<1>2. LocalsOf(u) /\ len' >= len /\ len' \in Nat  BY LossyTyped, LenGrows
<1>3. /\ lz[u].cur \in Nat /\ lz[u].needed \in Nat /\ lz[u].from + lz[u].more \in Nat
      /\ len \in Nat
  BY LocalTypes
<1>4. ASSUME \/ \E t \in Thread : MapStep(t) /\ Aside
             \/ MapEnds /\ Aside
             \/ UNCHANGED lossyVars
      PROVE  LocalsOf(u)'
  <2>1. lz'[u] = lz[u]  BY <1>4 DEF Aside, lossyVars
  <2>2. ~Does(u, "none") => th'[u] = th[u] /\ life' = life  BY <1>4, AsideKeeps
  <2>. QED  BY <1>2, <1>3, <2>1, <2>2, StillLocal
<1>5. ASSUME NEW t \in Lossy, OwnStep(t)  PROVE LocalsOf(u)'
  <2>1. CASE u = t  BY <1>5, <2>1, OwnLocals
  <2>2. CASE u # t
    <3>1. lz'[u] = lz[u] /\ th'[u] = th[u] /\ life' = life  BY <1>5, <2>2, OwnKeeps
    <3>. QED  BY <1>2, <1>3, <3>1, StillLocal
  <2>. QED  BY <2>1, <2>2
<1>. QED  BY <1>4, <1>5, LossySteps

----------------------------------------------------------------------------
(* What an iterator has returned *)

\* An iterator never goes back.
LEMMA GoesForward ==
  ASSUME LossySound, KeysInv, NoTagWrap, NEW t \in Lossy, OwnStep(t),
         Iterating(t)', ~NewIter(t)
  PROVE  /\ Iterating(t) /\ Passed(t) \in Int /\ Passed(t)' \in Int
         /\ \/ Passed(t)' = Passed(t)
            \/ Passed(t)' = Here(t) + 1 /\ Passed(t) = Here(t)
<1>0. lz[t].cur \in Nat  BY LocalTypes
<1>1. /\ ~Stops(t) /\ lz'[t].pc \notin {"res_len", "res_vec"}
  BY DEF Iterating, Stops, NoCall
<1>2. CASE IterNext(t)
  BY <1>0, <1>2, OwnMoves DEF Iterating, Passed, Here, Does
<1>3. CASE IterRead(t)
  BY <1>0, <1>3, OwnMoves DEF Iterating, Passed, Here, Does, GoesNext
<1>4. ASSUME NEW from, NEW to, Stays(t, from, to), from \in {"get", "getting"}, to = "getting"
      PROVE  Iterating(t) /\ Passed(t)' = Passed(t) /\ Passed(t) \in Int
  BY <1>0, <1>4 DEF Stays, Iterating, Passed, Here, Does
<1>5. ASSUME NEW from, GoesNext(t, from), from \in {"get", "getting"}
      PROVE  /\ Iterating(t) /\ Passed(t) \in Int /\ Passed(t)' \in Int
             /\ Passed(t)' = Here(t) + 1 /\ Passed(t) = Here(t)
  BY <1>0, <1>5 DEF GoesNext, Iterating, Passed, Here, Does
<1>6. ASSUME NEW g \in Guard \ OwningGuard, IterGet(t, g)
      PROVE  Stays(t, "get", "getting")
  BY <1>6, OwnMoves
<1>7. CASE IterMiss(t)
  <2>1. GoesNext(t, "get")  BY <1>1, <1>7, OwnMoves
  <2>. QED  BY <1>5, <2>1
<1>8. CASE IterStep(t)
  <2>1. Stays(t, "getting", "getting") \/ GoesNext(t, "getting")
    BY <1>1, <1>8, OwnMoves
  <2>. QED  BY <1>4, <1>5, <2>1
<1>9. ~DropIter(t) /\ ~IterEnd(t) /\ ~ReserveChunks(t) /\ ~ReservePanics(t)
      /\ ~ReserveNeeded(t) /\ \A n \in Amounts : ~BeginReserve(t, n)
  BY <1>1, OwnMoves
<1>. QED  BY <1>2, <1>3, <1>4, <1>6, <1>7, <1>8, <1>9 DEF OwnStep

LEMMA YieldedPassedStep ==
  ASSUME LossySound, KeysInv, NoTagWrap, [LossyNext]_lossyVars
  PROVE  YieldedPassed'
<1>1. SUFFICES ASSUME NEW u \in Lossy, Iterating(u)', NEW v \in yielded'[u]
               PROVE  keyOf'[v] # None /\ keyOf'[v].idx < Passed(u)'
  BY DEF YieldedPassed
<1>2. /\ YieldedOf(u) /\ LocalsOf(u) /\ yielded[u] \subseteq Value /\ u \in Thread
      /\ Core /\ Values
  BY LossyTyped DEF KeysInv, ValuesInv, IInv
<1>3. ASSUME NEW w \in Value, keyOf[w] # None
      PROVE  keyOf'[w] = keyOf[w] /\ keyOf[w].idx \in Int
  <2>1. keyOf[w] \in Key  BY <1>2, <1>3 DEF Core, TypeOK
  <2>2. keyOf[w].idx \in Slot  BY <2>1 DEF Key
  <2>. QED  BY <1>3, <2>2, MapKeeps DEF Slot
<1>4. CASE Iterating(u) /\ v \in yielded[u] /\ Passed(u) \in Int /\ Passed(u)' \in Int
           /\ Passed(u)' >= Passed(u)
  <2>1. v \in Value /\ keyOf[v] # None /\ keyOf[v].idx < Passed(u)
    BY <1>2, <1>4 DEF YieldedOf
  <2>. QED  BY <1>3, <1>4, <2>1
<1>5. lz[u].cur \in Nat  BY LocalTypes
<1>6. CASE lz'[u] = lz[u] /\ yielded'[u] = yielded[u]
  <2>1. Iterating(u) /\ Passed(u)' = Passed(u) /\ Passed(u) \in Int
    BY <1>1, <1>5, <1>6 DEF Iterating, Passed, Does, Here
  <2>. QED  BY <1>1, <1>4, <1>6, <2>1
<1>7. CASE OwnStep(u)
  <2>1. ~NewIter(u)  BY <1>1, <1>7, YieldedMoves
  <2>2. /\ Iterating(u) /\ Passed(u) \in Int /\ Passed(u)' \in Int
        /\ Passed(u)' >= Passed(u)
    <3>1. Here(u) \in Int  BY <1>5 DEF Here
    <3>. QED  BY <1>1, <1>7, <2>1, <3>1, GoesForward
  <2>3. CASE v \in yielded[u]
    BY <1>4, <2>2, <2>3
  <2>4. CASE v \notin yielded[u]
    <3>1. IterStep(u) /\ Yields(u) /\ v = data[th[u].idx] /\ CheckVersion(u)
      BY <1>1, <1>7, <2>1, <2>4, YieldedMoves
    <3>2. v \in Value /\ keyOf[v] = [idx |-> th[u].idx, ver |-> th[u].ver]
      BY <1>2, <3>1, YieldsBound
    <3>3. keyOf[v] # None
      <4>1. v \in Bound  BY <1>2, <3>1, YieldsBound
      <4>. QED  BY <4>1 DEF Bound
    <3>4. th[u].idx = Here(u)
      BY <1>2, <3>1 DEF LocalsOf, IterStep, CheckVersion, At
    <3>5. Passed(u)' = Here(u) + 1
      <4>1. Stops(u) \/ GoesNext(u, "getting")
        BY <1>7, <3>1, OwnMoves DEF Yields
      <4>. QED  BY <1>1, <1>5, <4>1 DEF Stops, NoCall, Iterating, GoesNext, Passed, Does, Here
    <3>6. keyOf[v].idx = Here(u) /\ keyOf'[v] = keyOf[v] /\ Here(u) \in Int
      BY <1>3, <1>5, <3>2, <3>3, <3>4 DEF Here
    <3>. QED  BY <3>3, <3>5, <3>6
  <2>. QED  BY <2>3, <2>4
<1>8. ASSUME NEW t \in Lossy, OwnStep(t), t # u
      PROVE  lz'[u] = lz[u] /\ yielded'[u] = yielded[u]
  BY <1>8, OwnKeeps
<1>9. ASSUME Aside \/ UNCHANGED lossyVars
      PROVE  lz'[u] = lz[u] /\ yielded'[u] = yielded[u]
  BY <1>9 DEF Aside, lossyVars
<1>. QED  BY <1>6, <1>7, <1>8, <1>9, LossySteps

----------------------------------------------------------------------------
(* What stays in the map *)

LEMMA OccupiedBelow ==
  ASSUME Core, NEW s \in Slot, Occupied(s)
  PROVE  s < len
<1>1. s \in Int /\ len \in Int /\ (s >= len => version[s] = 0)
  BY SlotMapAssumption DEF Core, TypeOK, LocalsSound, Slot
<1>2. version[s] # 0  BY DEF Occupied
<1>. QED  BY <1>1, <1>2

\* A value in the map that the iterator is about to pass is not passed over: it
\* is returned, or next panics.
LEMMA NotPassedOver ==
  ASSUME LossySound, KeysInv, NoTagWrap, NoVersionWrap, NEW t \in Lossy, OwnStep(t),
         StayedOf(t), Iterating(t), NEW v \in stayed[t], keyOf[v].idx = Here(t),
         Passed(t)' = Here(t) + 1, Passed(t) = Here(t), Iterating(t)', ~NewIter(t)
  PROVE  v \in yielded'[t]
<1>1. /\ Core /\ Values /\ KeysUnique /\ LocalsOf(t) /\ t \in Thread
      /\ yielded[t] \subseteq Value
  BY LossyTyped DEF KeysInv, ValuesInv, IInv
<1>2. lz[t].cur \in Nat  BY LocalTypes
<1>. DEFINE s == Here(t)
<1>3. /\ v \in Bound /\ s \in Slot /\ Occupied(s) /\ data[s] = v /\ life # "freed"
      /\ version[s] = keyOf[v].ver
  <2>1. v \in Bound  BY DEF StayedOf
  <2>2. /\ keyOf[v].idx \in Slot /\ Occupied(keyOf[v].idx) /\ data[keyOf[v].idx] = v
    BY <1>1, <2>1, BoundSlot
  <2>. QED  BY <2>1, <2>2 DEF Bound
<1>4. s < len  BY <1>1, <1>3, OccupiedBelow
<1>5. ref_count[s] > 0 /\ ref_count[s] \in Nat
  <2>1. ref_count[s] > 0  BY <1>1, <1>3, OccupiedAlive
  <2>. QED  BY <1>1, <1>3, <2>1 DEF Core, TypeOK
<1>6. ~Stops(t) /\ lz'[t].pc \notin {"res_len", "res_vec"}
  BY DEF Iterating, Stops, NoCall
<1>. HIDE DEF s
<1>7. CASE IterNext(t)
  BY <1>2, <1>7, OwnMoves DEF Passed, Here, Does
<1>8. CASE IterRead(t)
  <2>1. lz'[t].pc = "get" => Passed(t)' = Passed(t)
    BY <1>8, OwnMoves DEF GoesNext, Passed, Here, Does
  <2>2. ~(Here(t) < len /\ Occupied(Here(t)))
    BY <1>2, <1>8, <2>1, OwnMoves DEF Here
  <2>. QED  BY <1>3, <1>4, <2>2 DEF s
<1>9. CASE \E g \in Guard \ OwningGuard : IterGet(t, g)
  <2>1. Stays(t, "get", "getting")  BY <1>9, OwnMoves
  <2>2. Passed(t)' = Passed(t)  BY <2>1 DEF Stays, Passed, Here, Does
  <2>. QED  BY <1>2, <2>2 DEF Here
<1>10. CASE IterMiss(t)
  BY <1>5, <1>6, <1>10, OwnMoves DEF s
<1>11. CASE IterStep(t)
  <2>1. CASE Stays(t, "getting", "getting")
    <3>1. Passed(t)' = Passed(t)  BY <2>1 DEF Stays, Passed, Here, Does
    <3>. QED  BY <1>2, <3>1 DEF Here
  <2>2. CASE GoesNext(t, "getting") /\ th'[t].pc = "idle" /\ ~Unwinds(t)
    <3>1. /\ Step(t) /\ Does(t, "getting") /\ th[t].op = "get" /\ th[t].pc \in GetPC
      BY <1>1, <1>11 DEF IterStep, LocalsOf, GetPC
    <3>2. th[t].pc \in {"acquire", "check"}  BY <3>1 DEF StayedOf, Does
    <3>3. th[t].idx = s  BY <1>1, <3>1, <3>2 DEF LocalsOf, s
    <3>4. CASE CheckVersion(t)
      <4>1. Yields(t)  BY <2>2, <3>1, <3>4 DEF Yields, CheckVersion
      <4>2. yielded'[t] = yielded[t] \cup {data[th[t].idx]}
        BY <1>11, <4>1, YieldedMoves
      <4>. QED  BY <1>3, <3>3, <4>2
    <3>5. CASE th[t].pc = "acquire" /\ ~Acquirable(ref_count[th[t].idx])
      <4>1. ref_count[s] > MAX_REFCOUNT
        BY <1>5, <3>3, <3>5, SlotMapAssumption DEF Acquirable
      <4>. QED  BY <2>2, <3>3, <3>5, <4>1 DEF Unwinds, At
    <3>. QED  BY <1>1, <2>2, <3>1, <3>2, <3>4, <3>5, GetMoves
  <2>. QED  BY <1>6, <1>11, <2>1, <2>2, OwnMoves
<1>12. ~DropIter(t) /\ ~IterEnd(t) /\ ~ReserveChunks(t) /\ ~ReservePanics(t)
       /\ ~ReserveNeeded(t) /\ \A n \in Amounts : ~BeginReserve(t, n)
  BY <1>6, OwnMoves
<1>. QED  BY <1>7, <1>8, <1>9, <1>10, <1>11, <1>12 DEF OwnStep

\* The get that is under way at the slot of a value in the map is for its key.
LEMMA AsksForIt ==
  ASSUME LossySound, KeysInv, NoTagWrap, NoVersionWrap, NEW t \in Lossy, OwnStep(t),
         StayedOf(t), Iterating(t), NEW v \in stayed[t],
         lz'[t].pc \in {"get", "getting"}, keyOf[v].idx = Here(t)'
  PROVE  /\ keyOf[v].ver = lz'[t].ver
         /\ lz'[t].pc = "getting" => th'[t].pc \in {"acquire", "check"}
<1>1. /\ Core /\ LocalsOf(t) /\ t \in Thread
  BY LossyTyped DEF KeysInv, ValuesInv, IInv
<1>2. v \in Bound  BY DEF StayedOf
<1>3. version[keyOf[v].idx] = keyOf[v].ver  BY <1>2 DEF Bound
<1>4. CASE IterRead(t)
  BY <1>3, <1>4, OwnMoves DEF GoesNext, Here
<1>5. ASSUME NEW g \in Guard \ OwningGuard, IterGet(t, g)
      PROVE  keyOf[v].ver = lz'[t].ver /\ th'[t].pc = "acquire"
  <2>1. Stays(t, "get", "getting")  BY <1>5, OwnMoves
  <2>2. keyOf[v].ver = lz[t].ver  BY <2>1 DEF StayedOf, Stays, Here
  <2>3. th'[t].pc = "acquire"
    <3>1. th \in [Thread -> ThreadState] /\ th[t] \in ThreadState
      BY <1>1 DEF Core, TypeOK
    <3>. QED  BY <1>1, <1>5, <3>1 DEF IterGet, BeginGet, Become, ThreadState
  <2>. QED  BY <2>1, <2>2, <2>3 DEF Stays
<1>6. CASE IterStep(t)
  <2>1. Stays(t, "getting", "getting") /\ th'[t].pc # "idle"
    BY <1>6, OwnMoves DEF Stops, NoCall, GoesNext
  <2>2. /\ keyOf[v].ver = lz[t].ver /\ th[t].pc \in {"acquire", "check"}
        /\ keyOf[v].idx = Here(t)
    BY <2>1 DEF StayedOf, Stays, Here, Does
  <2>3. th[t].idx = Here(t) /\ th[t].ver = lz[t].ver /\ th[t].op = "get" /\ Step(t)
    BY <1>1, <1>6, <2>1, <2>2 DEF LocalsOf, Stays, Does, IterStep
  <2>4. ~CheckFails(t)  BY <1>3, <2>2, <2>3 DEF CheckFails
  <2>5. th'[t].pc \in {"acquire", "check"}
    BY <1>1, <2>1, <2>2, <2>3, <2>4, GetMoves DEF GetPC
  <2>. QED  BY <2>1, <2>2, <2>5 DEF Stays
<1>7. ~NewIter(t) /\ ~IterNext(t) /\ ~DropIter(t) /\ ~IterEnd(t) /\ ~ReserveChunks(t)
      /\ ~ReservePanics(t) /\ ~ReserveNeeded(t) /\ \A n \in Amounts : ~BeginReserve(t, n)
  BY OwnMoves DEF Stops, NoCall
<1>8. ~IterMiss(t)
  BY OwnMoves DEF Stops, NoCall, GoesNext
<1>. QED  BY <1>4, <1>5, <1>6, <1>7, <1>8 DEF OwnStep

LEMMA StayedAheadStep ==
  ASSUME LossySound, KeysInv, NoTagWrap, NoVersionWrap, StayedAhead, NoTagWrap',
         [LossyNext]_lossyVars
  PROVE  StayedAhead'
<1>1. SUFFICES ASSUME NEW u \in Lossy, Iterating(u)', NEW v \in stayed'[u]
               PROVE  /\ v \in Bound'
                      /\ keyOf'[v].idx < Passed(u)' => v \in yielded'[u]
                      /\ lz'[u].pc \in {"get", "getting"} /\ keyOf'[v].idx = Here(u)' =>
                           /\ keyOf'[v].ver = lz'[u].ver
                           /\ lz'[u].pc = "getting" => th'[u].pc \in {"acquire", "check"}
  BY DEF StayedAhead, Does
<1>2. /\ StayedOf(u) /\ u \in Thread /\ Core /\ lz[u].cur \in Nat
      /\ lz'[u] \in LossyState /\ yielded[u] \subseteq Value
  BY ByThread, LossyTyped, LocalTypes, StateStep DEF KeysInv, ValuesInv, IInv
<1>3. ASSUME NEW w \in Bound  PROVE keyOf'[w] = keyOf[w] /\ keyOf[w].idx \in Int
  <2>1. w \in Value /\ keyOf[w] # None  BY DEF Bound
  <2>2. keyOf[w] \in Key  BY <1>2, <2>1 DEF Core, TypeOK
  <2>3. keyOf[w].idx \in Slot  BY <2>2 DEF Key
  <2>. QED  BY <2>1, <2>3, MapKeeps DEF Slot
\* What was watched before is still in the map and has the key it had.
<1>4. ASSUME Iterating(u), Watch
      PROVE  v \in stayed[u] /\ v \in Bound' /\ v \in Bound
  <2>1. stayed'[u] = stayed[u] \cap Bound'
    BY <1>1, <1>2, <1>4, Watched DEF Iterating, Does
  <2>. QED  BY <1>1, <1>2, <1>4, <2>1 DEF StayedOf
\* The iterator is where it was.
<1>5. ASSUME lz'[u] = lz[u], yielded'[u] = yielded[u], th'[u] = th[u],
             Iterating(u), v \in stayed[u], v \in Bound', v \in Bound
      PROVE  /\ v \in Bound'
             /\ keyOf'[v].idx < Passed(u)' => v \in yielded'[u]
             /\ lz'[u].pc \in {"get", "getting"} /\ keyOf'[v].idx = Here(u)' =>
                  /\ keyOf'[v].ver = lz'[u].ver
                  /\ lz'[u].pc = "getting" => th'[u].pc \in {"acquire", "check"}
  <2>1. Passed(u)' = Passed(u) /\ Here(u)' = Here(u)  BY <1>5 DEF Passed, Here, Does
  <2>2. keyOf'[v] = keyOf[v]  BY <1>3, <1>5
  <2>. QED  BY <1>2, <1>5, <2>1, <2>2 DEF StayedOf, Does
<1>6. ASSUME \/ \E t \in Thread : MapStep(t) /\ Aside
             \/ MapEnds /\ Aside
      PROVE  /\ Watch /\ Iterating(u)
             /\ lz'[u] = lz[u] /\ yielded'[u] = yielded[u] /\ th'[u] = th[u]
  <2>1. Watch /\ lz' = lz  BY <1>6 DEF Aside
  <2>2. Iterating(u)  BY <1>1, <2>1 DEF Iterating
  <2>3. ~Does(u, "none")  BY <2>2 DEF Iterating, Does
  <2>. QED  BY <1>6, <2>1, <2>2, <2>3, AsideKeeps
<1>7. CASE UNCHANGED lossyVars
  <2>1. /\ lz' = lz /\ yielded' = yielded /\ th' = th /\ stayed' = stayed
        /\ UNCHANGED <<version, keyOf, life>>
    BY <1>7 DEF lossyVars, vars, slotVars, mapVars, history
  <2>2. Iterating(u) /\ v \in stayed[u]  BY <1>1, <2>1 DEF Iterating
  <2>3. v \in Bound /\ v \in Bound'
    <3>1. v \in Bound  BY <1>2, <2>2 DEF StayedOf
    <3>. QED  BY <2>1, <3>1 DEF Bound
  <2>. QED  BY <1>5, <2>1, <2>2, <2>3
<1>8. ASSUME NEW t \in Lossy, OwnStep(t), Watch, t # u
      PROVE  /\ Iterating(u)
             /\ lz'[u] = lz[u] /\ yielded'[u] = yielded[u] /\ th'[u] = th[u]
  BY <1>1, <1>8, OwnKeeps DEF Iterating
<1>9. CASE OwnStep(u) /\ Watch /\ NewIter(u)
  <2>1. lz[u].pc = "none" /\ lz'[u].pc = "next" /\ lz'[u].cur = 0
    BY <1>9, OwnMoves
  <2>2. stayed'[u] = Bound  BY <1>1, <1>2, <1>9, <2>1, Watched DEF Does
  <2>3. v \in Bound  BY <1>1, <2>2
  <2>4. v \in Bound'
    BY <1>9, <2>3 DEF NewIter, vars, slotVars, mapVars, history, Bound
  <2>5. ~(keyOf'[v].idx < Passed(u)')
    <3>1. v \in Value /\ keyOf[v] # None  BY <2>3 DEF Bound
    <3>2. keyOf[v] \in Key  BY <1>2, <3>1 DEF Core, TypeOK
    <3>3. keyOf'[v].idx \in Nat  BY <1>3, <2>3, <3>2 DEF Key, Slot
    <3>. QED  BY <2>1, <3>3 DEF Passed, Does
  <2>. QED  BY <2>1, <2>4, <2>5
<1>10. CASE OwnStep(u) /\ Watch /\ ~NewIter(u)
  <2>1. /\ Iterating(u) /\ Passed(u) \in Int /\ Passed(u)' \in Int
        /\ \/ Passed(u)' = Passed(u)
           \/ Passed(u)' = Here(u) + 1 /\ Passed(u) = Here(u)
    BY <1>1, <1>10, GoesForward
  <2>2. v \in stayed[u] /\ v \in Bound' /\ v \in Bound  BY <1>4, <1>10, <2>1
  <2>3. keyOf'[v] = keyOf[v] /\ keyOf[v].idx \in Int  BY <1>3, <2>2
  <2>4. yielded[u] \subseteq yielded'[u]  BY <1>10, YieldedMoves
  <2>5. keyOf[v].idx < Passed(u) => v \in yielded[u]  BY <1>2, <2>1, <2>2 DEF StayedOf
  <2>6. keyOf[v].idx < Passed(u)' => v \in yielded'[u]
    <3>1. CASE Passed(u)' = Here(u) + 1 /\ Passed(u) = Here(u) /\ keyOf[v].idx = Here(u)
      <4>1. v \in yielded'[u]
        BY <1>1, <1>2, <1>10, <2>1, <2>2, <3>1, NotPassedOver
      <4>. QED  BY <4>1
    <3>2. Here(u) \in Int  BY <1>2 DEF Here
    <3>. QED  BY <2>1, <2>3, <2>4, <2>5, <3>1, <3>2
  <2>7. lz'[u].pc \in {"get", "getting"} /\ keyOf[v].idx = Here(u)' =>
          /\ keyOf[v].ver = lz'[u].ver
          /\ lz'[u].pc = "getting" => th'[u].pc \in {"acquire", "check"}
    BY <1>2, <1>10, <2>1, <2>2, AsksForIt
  <2>. QED  BY <2>2, <2>3, <2>6, <2>7
<1>. QED  BY <1>4, <1>5, <1>6, <1>7, <1>8, <1>9, <1>10, LossySteps DEF Aside

----------------------------------------------------------------------------
(* The invariant *)

LossyInv ==
  /\ KeysInv
  /\ NoTagWrap => LossySound
  /\ NoTagWrap /\ NoVersionWrap => StayedAhead

LEMMA LossyInitInv == ASSUME LossyInit  PROVE LossyInv
<1>1. Init /\ \A t \in Lossy : lz[t].pc = "none"
  BY DEF LossyInit, NoCall
<1>2. KeysInv  BY <1>1, InitKeysInv
<1>3. NoTagWrap => TypeOK  BY <1>2 DEF KeysInv, ValuesInv, IInv, Core
<1>4. NoTagWrap => LossyTypeOK
  <2>1. lz \in [Lossy -> LossyState]  BY NoCallState DEF LossyInit
  <2>. QED  BY <1>3, <2>1 DEF LossyTypeOK, LossyInit, LossyState
<1>5. LossyLocals /\ YieldedPassed /\ StayedAhead
  BY <1>1 DEF LossyLocals, YieldedPassed, StayedAhead, Does, Iterating
<1>. QED  BY <1>2, <1>4, <1>5 DEF LossyInv, LossySound

\* The tag does not wrap back.
LEMMA TagWrapped ==
  ASSUME free_head.tag \in Nat, [LossyNext]_lossyVars
  PROVE  free_head'.tag \in Nat /\ free_head'.tag >= free_head.tag
<1>1. CASE [Next]_vars  BY <1>1, TagGrows
<1>2. CASE free_head' = free_head  BY <1>2
<1>3. ASSUME NEW t \in Lossy, OwnStep(t)  PROVE [Next]_vars \/ free_head' = free_head
  <2>1. CASE IterStep(t)  BY <2>1, LossyAssumption DEF IterStep, Next
  <2>2. CASE UNCHANGED vars  BY <2>2
  <2>. QED
    BY <1>3, <2>1, <2>2
       DEF OwnStep, NewIter, DropIter, IterEnd, IterNext, IterRead, IterGet, BeginGet,
           IterMiss, BeginReserve, ReserveNeeded, ReserveChunks, ReservePanics, mapVars
<1>4. ASSUME NEW t \in Thread, MapStep(t)  PROVE [Next]_vars
  BY <1>4 DEF MapStep, Next
<1>5. ASSUME MapEnds  PROVE [Next]_vars
  BY <1>5 DEF MapEnds, Next
<1>6. ASSUME UNCHANGED lossyVars  PROVE [Next]_vars
  BY <1>6 DEF lossyVars
<1>. QED  BY <1>1, <1>2, <1>3, <1>4, <1>5, <1>6, LossySteps

LEMMA LossyStepInv ==
  ASSUME LossyInv, [LossyNext]_lossyVars
  PROVE  LossyInv'
<1>1. CASE ~NoTagWrap
  <2>1. free_head.tag \in Nat  BY DEF LossyInv, KeysInv, ValuesInv, IInv
  <2>2. free_head'.tag \in Nat /\ free_head'.tag >= free_head.tag
    BY <2>1, TagWrapped
  <2>3. ~NoTagWrap'  BY <1>1, <2>1, <2>2, SlotMapAssumption DEF NoTagWrap
  <2>. QED  BY <2>2, <2>3 DEF LossyInv, KeysInv, ValuesInv, IInv
<1>2. CASE NoTagWrap
  <2>1. LossySound /\ KeysInv  BY <1>2 DEF LossyInv
  <2>2. KeysInv' /\ (NoTagWrap' => NoTagWrap) /\ (NoVersionWrap' => NoVersionWrap)
    BY <1>2, <2>1, MapKeeps
  <2>3. NoTagWrap' => LossySound'
    BY <1>2, <2>1, LossyTypesStep, LossyLocalsStep, YieldedPassedStep DEF LossySound
  <2>4. NoTagWrap' /\ NoVersionWrap' => StayedAhead'
    BY <1>2, <2>1, <2>2, StayedAheadStep DEF LossyInv
  <2>. QED  BY <2>2, <2>3, <2>4 DEF LossyInv
<1>. QED  BY <1>1, <1>2

----------------------------------------------------------------------------
(* Theorems *)

\* Until the tag of free_head wraps, the locals of the iterators and reserves
\* have their types; in particular no iterator goes past the largest index.
THEOREM LossyTypes == LossySpec => [](NoTagWrap => LossyTypeOK)
<1>1. LossyInit => LossyInv  BY LossyInitInv
<1>2. LossyInv /\ [LossyNext]_lossyVars => LossyInv'  BY LossyStepInv
<1>3. LossyInv => (NoTagWrap => LossyTypeOK)  BY DEF LossyInv, LossySound
<1>. QED  BY <1>1, <1>2, <1>3, PTL DEF LossySpec

\* Under the same condition what LossyIter::next returns is in the map at the
\* moment it is acquired, and was not returned by that iterator before.
THEOREM YieldsPresent == LossySpec /\ []NoTagWrap => IterYieldsPresent
<1>. DEFINE Present == \A t \in Lossy :
              Yields(t) => data[th[t].idx] \in Bound \ yielded[t]
<1>1. LossyInv /\ NoTagWrap /\ [LossyNext]_lossyVars => [Present]_lossyVars
  <2>1. SUFFICES ASSUME LossySound, KeysInv, NoTagWrap, LossyNext, NEW t \in Lossy, Yields(t)
                 PROVE  data[th[t].idx] \in Bound \ yielded[t]
    BY DEF LossyInv
  <2>2. Core /\ Values /\ LocalsOf(t) /\ YieldedOf(t) /\ t \in Thread
    BY <2>1, LossyTyped DEF KeysInv, ValuesInv, IInv
  <2>3. Does(t, "getting") /\ At(t, "check") /\ th'[t].pc = "idle"
    BY <2>1 DEF Yields
\* Only a step of its own ends the get.
  <2>4. OwnStep(t)
    <3>1. ASSUME \/ \E u \in Thread : MapStep(u) /\ Aside
                 \/ MapEnds /\ Aside
                 \/ UNCHANGED lossyVars
          PROVE  FALSE
      <4>1. th'[t] = th[t]  BY <2>1, <2>3, <3>1, AsideKeeps DEF Does
      <4>. QED  BY <2>3, <4>1 DEF At
    <3>2. ASSUME NEW u \in Lossy, OwnStep(u), u # t  PROVE FALSE
      <4>1. th'[t] = th[t]  BY <2>1, <3>2, OwnKeeps
      <4>. QED  BY <2>3, <4>1 DEF At
    <3>. QED  BY <2>1, <3>1, <3>2, LossySteps
  <2>5. CheckVersion(t)
    <3>1. IterStep(t)
      BY <2>3, <2>4, OwnMoves, <2>1
         DEF Does, OwnStep, NewIter, DropIter, IterEnd, IterNext, IterRead, IterGet,
             IterMiss, BeginReserve, ReserveNeeded, ReserveChunks, ReservePanics
    <3>. QED  BY <2>1, <2>4, <3>1, YieldedMoves
  <2>6. /\ data[th[t].idx] \in Bound
        /\ keyOf[data[th[t].idx]] = [idx |-> th[t].idx, ver |-> th[t].ver]
    BY <2>2, <2>5, YieldsBound
  <2>7. th[t].idx = Here(t) /\ Passed(t) = Here(t) /\ Iterating(t) /\ Here(t) \in Int
    BY <2>1, <2>2, <2>3, LocalTypes DEF LocalsOf, At, Does, Passed, Iterating, Here
  <2>8. data[th[t].idx] \notin yielded[t]
    <3>1. keyOf[data[th[t].idx]].idx = Here(t)  BY <2>6, <2>7
    <3>. QED  BY <2>2, <2>7, <3>1 DEF YieldedOf
  <2>. QED  BY <2>6, <2>8
<1>2. LossyInit => LossyInv  BY LossyInitInv
<1>3. LossyInv /\ [LossyNext]_lossyVars => LossyInv'  BY LossyStepInv
<1>4. LossySpec /\ []NoTagWrap => [][Present]_lossyVars
  <2>. HIDE DEF Present
  <2>. QED  BY <1>1, <1>2, <1>3, PTL DEF LossySpec
<1>. QED  BY <1>4 DEF IterYieldsPresent, Present

\* As long as neither the tag nor a slot's version has wrapped, an iterator that
\* runs to its end has returned everything that was in the map all along.
THEOREM IterCompletes ==
  LossySpec /\ [](NoTagWrap /\ NoVersionWrap) => IterComplete
<1>. DEFINE Complete == \A t \in Lossy : IterEnd(t) => stayed[t] \subseteq yielded[t]
<1>1. LossyInv /\ NoTagWrap /\ NoVersionWrap => Complete
  <2>1. SUFFICES ASSUME LossySound, KeysInv, NoTagWrap, NoVersionWrap, StayedAhead,
                        NEW t \in Lossy, IterEnd(t), NEW v \in stayed[t]
                 PROVE  v \in yielded[t]
    BY DEF LossyInv
  <2>2. /\ Core /\ Values /\ KeysUnique /\ StayedOf(t) /\ lz[t].cur \in Nat /\ len \in Nat
    BY <2>1, ByThread, LocalTypes DEF KeysInv, ValuesInv, IInv
  <2>3. lz[t].pc = "next" /\ lz[t].cur >= len  BY <2>1 DEF IterEnd, Does
  <2>4. Iterating(t) /\ Passed(t) = lz[t].cur  BY <2>3 DEF Iterating, Passed, Does
  <2>5. v \in Bound /\ (keyOf[v].idx < Passed(t) => v \in yielded[t])
    BY <2>1, <2>2, <2>4 DEF StayedOf
  <2>6. keyOf[v].idx \in Slot /\ Occupied(keyOf[v].idx)  BY <2>2, <2>5, BoundSlot
  <2>7. keyOf[v].idx < len  BY <2>2, <2>6, OccupiedBelow
  <2>8. keyOf[v].idx \in Int  BY <2>6 DEF Slot
  <2>. QED  BY <2>2, <2>3, <2>4, <2>5, <2>7, <2>8
<1>2. LossyInit => LossyInv  BY LossyInitInv
<1>3. LossyInv /\ [LossyNext]_lossyVars => LossyInv'  BY LossyStepInv
<1>4. LossySpec /\ [](NoTagWrap /\ NoVersionWrap) => [][Complete]_lossyVars
  <2>. HIDE DEF Complete
  <2>. QED  BY <1>1, <1>2, <1>3, PTL DEF LossySpec
<1>. QED  BY <1>4 DEF IterComplete, Complete

\* As long as the tag has not wrapped, a reserve that returns has made room for
\* additional elements beyond those lossy_len counted when it was called.
THEOREM Delivers == LossySpec /\ []NoTagWrap => ReserveDelivers
<1>. DEFINE Delivered == \A t \in Lossy : ReserveChunks(t) =>
              ChunksFor(lz[t].from + lz[t].more) \subseteq chunks'
<1>1. LossyInv /\ NoTagWrap => Delivered
  <2>1. SUFFICES ASSUME LossySound, NEW t \in Lossy, ReserveChunks(t)
                 PROVE  ChunksFor(lz[t].from + lz[t].more) \subseteq chunks'
    BY DEF LossyInv
  <2>. DEFINE sum == lz[t].from + lz[t].more
  <2>2. sum \in Nat /\ Target(t) \in Nat /\ Target(t) >= sum
    <3>1. sum \in Nat /\ len \in Nat /\ lz[t].needed \in Nat /\ LocalsOf(t)
      BY <2>1, LocalTypes, LossyTyped
    <3>. QED  BY <2>1, <3>1 DEF ReserveChunks, LocalsOf, Target
  <2>3. chunks' = chunks \cup ChunksFor(Target(t))  BY <2>1 DEF ReserveChunks
  <2>. HIDE DEF sum
  <2>4. ChunksFor(sum) \subseteq ChunksFor(Target(t))
    <3>1. 0 .. sum - 1 \subseteq 0 .. Target(t) - 1  BY <2>2
    <3>. QED  BY <3>1 DEF ChunksFor
  <2>. QED  BY <2>3, <2>4 DEF sum
<1>2. LossyInit => LossyInv  BY LossyInitInv
<1>3. LossyInv /\ [LossyNext]_lossyVars => LossyInv'  BY LossyStepInv
<1>4. LossySpec /\ []NoTagWrap => [][Delivered]_lossyVars
  <2>. HIDE DEF Delivered
  <2>. QED  BY <1>1, <1>2, <1>3, PTL DEF LossySpec
<1>. QED  BY <1>4 DEF ReserveDelivers, Delivered

\* The lossy methods do the map no harm: beside them too a guard reads its
\* value, a key finds it, and every value is destroyed at most once.
THEOREM MapUnharmed ==
  LossySpec => [](NoTagWrap => GuardsReadable /\ OccupiedReadable /\ DestroyedOnce)
<1>1. LossyInit => LossyInv  BY LossyInitInv
<1>2. LossyInv /\ [LossyNext]_lossyVars => LossyInv'  BY LossyStepInv
<1>3. ASSUME LossyInv, NoTagWrap
      PROVE  GuardsReadable /\ OccupiedReadable /\ DestroyedOnce
  <2>1. Core /\ Values  BY <1>3 DEF LossyInv, KeysInv, ValuesInv, IInv
  <2>2. GuardsReadable
    <3>1. ASSUME NEW g \in Guard, Held(g)
          PROVE  LET v == data[guard[g].idx]
                 IN  v \in Value /\ keyOf[v] = guard[g] /\ drops[v] = 0
      BY <2>1, <3>1, GuardAlive DEF Values, Held, Alive
    <3>. QED  BY <3>1 DEF GuardsReadable
  <2>3. OccupiedReadable  BY <2>1, OccupiedAlive DEF OccupiedReadable, Alive
  <2>. QED  BY <2>1, <2>2, <2>3 DEF Values
<1>. QED  BY <1>1, <1>2, <1>3, PTL DEF LossySpec

=============================================================================
