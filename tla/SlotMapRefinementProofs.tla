----------------------- MODULE SlotMapRefinementProofs -----------------------
(***************************************************************************)
(* AtomicSlotMap implements KeyedStore, for any number of threads, guards, *)
(* values and slots: each step of a thread is one call of the store, or    *)
(* none of its business.  The steps that matter are the publication, the   *)
(* exchange of the version by a removal, the comparison of the version by  *)
(* a get, the guards' own and the destructors.                             *)
(***************************************************************************)
EXTENDS SlotMapRefinement, SlotMapValueProofs

----------------------------------------------------------------------------
(* What the store does not see *)

\* A guard that stays holds what it held, whatever is written to other slots.
LEMMA HoldsStays ==
  ASSUME Core, Values, NEW t \in Thread, Call(t) \/ Step(t),
         NEW g \in Guard, guard'[g] = guard[g]
  PROVE  Holds'[g] = Holds[g]
<1>1. stranded' = stranded  BY DataStep
<1>2. Held(g)' <=> Held(g)  BY <1>1 DEF Held
<1>3. ASSUME Held(g)  PROVE data'[guard[g].idx] = data[guard[g].idx]
  <2>. DEFINE s == guard[g].idx
  <2>1. guard[g] # None /\ life # "freed"  BY <1>3, ThreadValues DEF Held
  <2>2. /\ Alive(s) /\ ref_count[s] > 0 /\ guard[g] \in Key
    BY <2>1, GuardAlive
  <2>3. s \in Slot  BY <2>2 DEF Key
  <2>. HIDE DEF s
  <2>4. WriteValue(t) \/ DropStep(t) => th[t].idx # s  BY <2>2, WriterOwns
  <2>5. ValuesInHand /\ (At(t, "drop_value") => Alive(th[t].idx))
    BY <2>1 DEF Values, SlotsAlive
  <2>6. data'[s] = data[s]  BY <2>2, <2>3, <2>4, <2>5, StaysAlive
  <2>. QED  BY <2>6 DEF s
<1>. QED  BY <1>2, <1>3 DEF Holds, Held

\* A value is bound exactly while it is the one in the occupied slot of its key.
LEMMA BoundSlot ==
  ASSUME Core, Values, KeysUnique, NEW v \in Bound
  PROVE  /\ v \in Value /\ keyOf[v].idx \in Slot /\ Occupied(keyOf[v].idx)
         /\ data[keyOf[v].idx] = v /\ drops[v] = 0
<1>1. /\ v \in Value /\ life # "freed" /\ keyOf[v] # None
      /\ version[keyOf[v].idx] = keyOf[v].ver
  BY DEF Bound
<1>2. keyOf[v] \in Key  BY <1>1 DEF Core, TypeOK
<1>. DEFINE s == keyOf[v].idx
<1>3. s \in Slot /\ Occupied(s) /\ keyOf[v] = [idx |-> s, ver |-> version[s]]
  BY <1>1, <1>2 DEF Key, Occupied
<1>. HIDE DEF s
<1>4. Alive(s) /\ keyOf[data[s]] = [idx |-> s, ver |-> version[s]]
  BY <1>1, <1>3, OccupiedAlive
<1>5. data[s] = v  BY <1>1, <1>3, <1>4 DEF Alive, KeysUnique
<1>. QED  BY <1>1, <1>3, <1>4, <1>5 DEF Alive, s

LEMMA BoundStays ==
  ASSUME UNCHANGED <<version, keyOf>>, life # "freed", life' # "freed"
  PROVE  Bound' = Bound
BY DEF Bound

----------------------------------------------------------------------------
(* The steps of the threads *)

\* storing the version is insert.
LEMMA PublishInserts ==
  ASSUME Core, Values, KeysInOrder, NEW t \in Thread, StoreVersion(t)
  PROVE  \E v \in Value, k \in Key : Store!Insert(v, k)
<1>. DEFINE s == th[t].idx  v == th[t].val  k == [idx |-> s, ver |-> th[t].ver]
<1>1. /\ th[t].pc = "store_version"
      /\ version' = [version EXCEPT ![s] = th[t].ver]
      /\ keyOf' = [keyOf EXCEPT ![v] = k]
      /\ UNCHANGED <<data, drops, guard, life, stranded>>
  BY DEF StoreVersion, At, mapVars, lossVars
<1>2. Step(t) /\ life # "freed"
  <2>1. Step(t)  BY DEF Step, InsertStep
  <2>. QED  BY <2>1, ThreadValues
<1>3. /\ s \in Slot /\ k \in Key /\ v \in Value /\ th[t].ver \in Nat
      /\ version \in [Slot -> Version] /\ \A r \in Slot : version[r] \in Nat
      /\ keyOf \in [Value -> Key \cup {None}]
  <2>1. /\ s \in Slot /\ k \in Key /\ th[t].ver \in Nat
    BY <1>1 DEF Core, TypeOK, ThreadState, LocalsSound, Key, Version
  <2>2. v \in Value
    BY <1>1 DEF Core, TypeOK, ThreadState, Values, ValuesInHand, InsertPC
  <2>. QED  BY <2>1, <2>2 DEF Core, TypeOK, Version
<1>4. keyOf[v] = None /\ drops[v] = 0
  BY <1>1 DEF Values, ValuesInHand, InsertPC
<1>5. version[s] < th[t].ver /\ ~Occupied(s)
  BY <1>1, <1>3 DEF KeysInOrder, Core, ExclusiveOwner, Owns, OwnerPC
<1>6. \A w \in Value : keyOf[w] # None => /\ keyOf[w].idx \in Slot /\ keyOf[w].ver \in Nat
                                          /\ keyOf[w].ver <= version[keyOf[w].idx]
                                          /\ keyOf[w].ver % 2 = 1
  BY <1>3 DEF KeysInOrder, Key, Version
<1>7. k # None /\ k.idx = s /\ k.ver = th[t].ver  BY <1>3, SlotMapAssumption
<1>. HIDE DEF s, v, k
<1>8. \A w \in Value : keyOf[w] # k
  BY <1>3, <1>5, <1>6, <1>7
<1>9. \A w \in Value : keyOf'[w] = IF w = v THEN k ELSE keyOf[w]  BY <1>1, <1>3
<1>10. \A r \in Slot : version'[r] = IF r = s THEN th[t].ver ELSE version[r]  BY <1>1, <1>3 DEF s
<1>11. ASSUME NEW w \in Value  PROVE w \in Bound' <=> w \in Bound \cup {v}
  <2>1. CASE w = v
    <3>1. keyOf'[w] = k /\ version'[k.idx] = k.ver  BY <1>3, <1>7, <1>9, <1>10, <2>1
    <3>. QED  BY <1>1, <1>2, <1>7, <2>1, <3>1 DEF Bound
  <2>2. CASE w # v /\ keyOf[w] # None /\ keyOf[w].idx = s
    <3>1. keyOf[w].ver # version[s] /\ keyOf[w].ver # version'[s]
      BY <1>3, <1>5, <1>6, <1>10, <2>2 DEF Occupied
    <3>. QED  BY <1>9, <2>2, <3>1 DEF Bound
  <2>3. CASE w # v /\ keyOf[w] # None /\ keyOf[w].idx # s
    <3>1. keyOf'[w] = keyOf[w] /\ version'[keyOf[w].idx] = version[keyOf[w].idx]
      BY <1>6, <1>9, <1>10, <2>3
    <3>. QED  BY <1>1, <2>3, <3>1 DEF Bound
  <2>4. CASE w # v /\ keyOf[w] = None
    <3>1. keyOf'[w] = None  BY <1>9, <2>4
    <3>. QED  BY <2>4, <3>1 DEF Bound
  <2>. QED  BY <2>1, <2>2, <2>3, <2>4
<1>12. Bound' = Bound \cup {v}
  <2>1. Bound' \subseteq Value /\ Bound \subseteq Value  BY DEF Bound
  <2>. QED  BY <1>3, <1>11, <2>1
<1>13. Holds' = Holds  BY <1>1 DEF Holds, Held
<1>14. Store!Insert(v, k)
  BY <1>1, <1>4, <1>8, <1>12, <1>13 DEF Store!Insert, Store!Outside
<1>. QED  BY <1>3, <1>14

\* A closure that fails rejects its value.
LEMMA FailureRejects ==
  ASSUME Core, Values, NEW t \in Thread, CallErr(t) \/ CallPanics(t)
  PROVE  \E v \in Value : Store!Reject(v)
<1>. DEFINE v == th[t].val
<1>1. /\ th[t].pc = "call"
      /\ drops' = [drops EXCEPT ![v] = @ + 1]
      /\ UNCHANGED <<version, keyOf, data, guard, life, stranded>>
  BY DEF CallErr, CallPanics, At, slotVars, mapVars, lossVars
<1>2. v \in Value /\ keyOf[v] = None /\ drops[v] = 0
  BY <1>1 DEF Core, TypeOK, ThreadState, Values, ValuesInHand, InsertPC
<1>. HIDE DEF v
<1>3. drops' = [drops EXCEPT ![v] = 1]  BY <1>1, <1>2
<1>4. Bound' = Bound /\ Holds' = Holds  BY <1>1 DEF Bound, Holds, Held
<1>. QED  BY <1>1, <1>2, <1>3, <1>4 DEF Store!Reject, Store!Outside

\* The exchange of the version is remove.
LEMMA ExchangeRemoves ==
  ASSUME Core, Values, KeysUnique, NEW t \in Thread, RemoveSwap(t)
  PROVE  \E v \in Value : Store!Remove(v)
<1>. DEFINE s == th[t].idx  v == data[s]
<1>1. /\ th[t].pc = "rem_swap" /\ version[s] = th[t].ver
      /\ version' = [version EXCEPT ![s] = (version[s] + 1) % VersionMod]
      /\ UNCHANGED <<keyOf, data, drops, guard, life, stranded>>
  BY DEF RemoveSwap, At, mapVars, history, lossVars
<1>2. Step(t) /\ life # "freed"
  <2>1. Step(t)  BY DEF Step, RemoveStep
  <2>. QED  BY <2>1, ThreadValues
<1>3. /\ s \in Slot /\ version \in [Slot -> Version] /\ version[s] % 2 = 1
      /\ keyOf \in [Value -> Key \cup {None}]
  BY <1>1 DEF Core, TypeOK, ThreadState, LocalsSound
<1>. HIDE DEF s
<1>4. v \in Value /\ keyOf[v] # None /\ keyOf[v] = [idx |-> s, ver |-> version[s]]
  BY <1>2, <1>3, OccupiedAlive DEF Occupied, Alive
<1>5. version'[s] % 2 = 0
  <2>1. ((version[s] + 1) % VersionMod) % 2 = 0  BY <1>3, Unoccupy
  <2>. QED  BY <1>1, <1>3, <2>1
<1>. HIDE DEF v
<1>6. ASSUME NEW w \in Value  PROVE w \in Bound' <=> w \in Bound \ {v}
  <2>1. CASE keyOf[w] # None /\ keyOf[w].idx = s
    <3>1. keyOf[w] \in Key /\ keyOf[w].ver % 2 = 1  BY <1>3, <2>1 DEF Key
    <3>2. keyOf[w].ver # version'[s]  BY <1>5, <3>1
    <3>3. w \notin Bound'  BY <1>1, <2>1, <3>2 DEF Bound
    <3>4. ASSUME w \in Bound  PROVE w = v
      <4>1. keyOf[w] = [idx |-> s, ver |-> version[s]]  BY <2>1, <3>1, <3>4 DEF Bound, Key
      <4>. QED  BY <1>4, <2>1, <4>1 DEF KeysUnique
    <3>. QED  BY <3>3, <3>4
  <2>2. CASE keyOf[w] # None /\ keyOf[w].idx # s
    <3>1. version'[keyOf[w].idx] = version[keyOf[w].idx]
      BY <1>1, <1>3, <2>2 DEF Key
    <3>. QED  BY <1>1, <1>4, <2>2, <3>1 DEF Bound
  <2>3. CASE keyOf[w] = None  BY <1>1, <2>3 DEF Bound
  <2>. QED  BY <2>1, <2>2, <2>3
<1>7. v \in Bound  BY <1>2, <1>4 DEF Bound
<1>8. Bound' = Bound \ {v}
  <2>1. Bound' \subseteq Value /\ Bound \subseteq Value  BY DEF Bound
  <2>. QED  BY <1>6, <2>1
<1>9. Holds' = Holds  BY <1>1 DEF Holds, Held
<1>. QED  BY <1>1, <1>4, <1>7, <1>8, <1>9 DEF Store!Remove

\* A comparison of the version that succeeds is get.
LEMMA ComparisonAcquires ==
  ASSUME Core, Values, NEW t \in Thread, CheckVersion(t)
  PROVE  \E v \in Value, g \in Guard : Store!Acquire(v, g)
<1>. DEFINE s == th[t].idx  g == th[t].out  v == data[s]
            k == [idx |-> s, ver |-> th[t].ver]
<1>1. /\ th[t].pc = "check" /\ version[s] = th[t].ver
      /\ guard' = [guard EXCEPT ![g] = k]
      /\ UNCHANGED <<version, keyOf, data, drops, life, stranded>>
  BY DEF CheckVersion, At, slotVars, history, lossVars
<1>2. Step(t) /\ life # "freed"
  <2>1. Step(t)  BY DEF Step, GetStep
  <2>. QED  BY <2>1, ThreadValues
<1>3. /\ s \in Slot /\ Occupied(s) /\ k \in Key /\ g \in Guard /\ guard[g] = None
      /\ guard \in [Guard -> Key \cup {None}]
  BY <1>1 DEF Core, TypeOK, ThreadState, LocalsSound, GuardsReserved, Key, Occupied
<1>4. k # None /\ k.idx = s  BY <1>3, SlotMapAssumption
<1>. HIDE DEF s, g, k
<1>5. v \in Value /\ keyOf[v] = [idx |-> s, ver |-> version[s]] /\ keyOf[v] # None
  BY <1>2, <1>3, OccupiedAlive DEF Alive
<1>6. v \in Bound  BY <1>2, <1>5 DEF Bound
<1>7. g \notin stranded  BY <1>3 DEF Values, StrandedKept
<1>8. Holds[g] = None  BY <1>3 DEF Holds, Held
<1>9. Holds' = [Holds EXCEPT ![g] = v]
  <2>1. guard'[g] = k /\ \A h \in Guard : h # g => guard'[h] = guard[h]  BY <1>1, <1>3
  <2>2. ASSUME NEW h \in Guard
        PROVE  (IF Held(h) THEN data[guard[h].idx] ELSE None)'
               = IF h = g THEN v ELSE IF Held(h) THEN data[guard[h].idx] ELSE None
    <3>1. CASE h = g  BY <1>1, <1>4, <1>7, <2>1, <3>1 DEF Held
    <3>2. CASE h # g  BY <1>1, <2>1, <3>2 DEF Held
    <3>. QED  BY <3>1, <3>2
  <2>. HIDE DEF v
  <2>. QED  BY <2>2 DEF Holds
<1>10. Bound' = Bound  BY <1>1 DEF Bound
<1>. QED  BY <1>1, <1>3, <1>5, <1>6, <1>8, <1>9, <1>10 DEF Store!Acquire

\* Dropping a guard releases its value.
LEMMA DropReleases ==
  ASSUME Core, Values, NEW t \in Thread, NEW g \in Guard, DropGuard(t, g)
  PROVE  Store!Release(g)
<1>1. /\ guard[g] # None /\ g \notin stranded
      /\ guard' = [guard EXCEPT ![g] = None]
      /\ UNCHANGED <<version, keyOf, data, drops, life, stranded>>
  BY DEF DropGuard, history, lossVars
<1>2. guard \in [Guard -> Key \cup {None}]  BY DEF Core, TypeOK
<1>3. Holds[g] # None
  <2>1. life # "freed"  BY <1>1 DEF Values, Held
  <2>2. data[guard[g].idx] \in Value  BY <1>1, <2>1, GuardAlive DEF Alive
  <2>. QED  BY <1>1, <2>2, SlotMapAssumption DEF Holds, Held
<1>4. Holds' = [Holds EXCEPT ![g] = None]
  <2>1. ASSUME NEW h \in Guard
        PROVE  (IF Held(h) THEN data[guard[h].idx] ELSE None)'
               = IF h = g THEN None ELSE IF Held(h) THEN data[guard[h].idx] ELSE None
    <3>1. CASE h = g
      <4>1. guard'[h] = None  BY <1>1, <1>2, <3>1
      <4>. QED  BY <3>1, <4>1 DEF Held
    <3>2. CASE h # g
      <4>1. guard'[h] = guard[h]  BY <1>1, <1>2, <3>2
      <4>. QED  BY <1>1, <3>2, <4>1 DEF Held
    <3>. QED  BY <3>1, <3>2
  <2>. QED  BY <2>1 DEF Holds
<1>5. Bound' = Bound  BY <1>1 DEF Bound
<1>. QED  BY <1>1, <1>3, <1>4, <1>5 DEF Store!Release

\* A destructor destroys a value no one can reach any more.
LEMMA DestructorDestroys ==
  ASSUME Core, Values, NEW t \in Thread, DropStep(t)
  PROVE  \E v \in Value : Store!Destroy(v)
<1>. DEFINE s == th[t].idx  v == data[s]
<1>1. /\ th[t].pc = "drop_value"
      /\ drops' = [drops EXCEPT ![v] = @ + 1]
      /\ UNCHANGED <<version, keyOf, data, guard, life, stranded>>
  BY DEF DropStep, DropValue, DropValuePanics, Destroy, At, slotVars, mapVars, lossVars
<1>2. Step(t) /\ life # "freed"
  <2>1. Step(t)  BY DEF Step
  <2>. QED  BY <2>1, ThreadValues
<1>3. Owns(t, s) /\ s \in Slot /\ ref_count[s] = 0  BY WriterOwns
<1>4. Alive(s)  BY <1>1, <1>2 DEF Values, SlotsAlive, At
<1>5. ~Occupied(s)  BY <1>3 DEF Core, ExclusiveOwner
<1>. HIDE DEF s
<1>6. v \in Value /\ drops[v] = 0 /\ keyOf[v] # None /\ keyOf[v].idx = s
  BY <1>4 DEF Alive
<1>7. v \notin Bound
  <2>1. keyOf[v] \in Key  BY <1>6 DEF Core, TypeOK
  <2>2. keyOf[v].ver % 2 = 1  BY <2>1 DEF Key
  <2>3. version[s] # keyOf[v].ver  BY <1>5, <2>2 DEF Occupied
  <2>. QED  BY <1>6, <2>3 DEF Bound
<1>8. ASSUME NEW g \in Guard  PROVE Holds[g] # v
  <2>1. CASE Held(g)
    <3>1. guard[g] # None  BY <2>1 DEF Held
    <3>2. /\ keyOf[data[guard[g].idx]] = guard[g] /\ ref_count[guard[g].idx] > 0
      BY <1>2, <3>1, GuardAlive
    <3>3. data[guard[g].idx] # v
      <4>1. SUFFICES ASSUME data[guard[g].idx] = v  PROVE FALSE  OBVIOUS
      <4>2. guard[g].idx = s  BY <1>6, <3>2, <4>1
      <4>. QED  BY <1>3, <3>2, <4>2
    <3>. QED  BY <2>1, <3>3 DEF Holds
  <2>2. CASE ~Held(g)
    <3>1. Holds[g] = None  BY <2>2 DEF Holds
    <3>. QED  BY <1>6, <3>1, SlotMapAssumption
  <2>. QED  BY <2>1, <2>2
<1>. HIDE DEF v
<1>9. drops' = [drops EXCEPT ![v] = 1]  BY <1>1, <1>6
<1>10. Bound' = Bound /\ Holds' = Holds  BY <1>1 DEF Bound, Holds, Held
<1>. QED  BY <1>1, <1>6, <1>7, <1>8, <1>9, <1>10 DEF Store!Destroy, Store!Unheld

\* All other steps of a thread are hidden from the store.
LEMMA OthersHidden ==
  ASSUME Core, Values, NEW t \in Thread, Call(t) \/ Step(t),
         ~StoreVersion(t), ~CallErr(t), ~CallPanics(t), ~RemoveSwap(t),
         ~CheckVersion(t), ~DropStep(t), \A g \in Guard : ~DropGuard(t, g)
  PROVE  UNCHANGED Store!vars
<1>1. keyOf' = keyOf /\ drops' = drops /\ life' = life  BY DataStep
<1>2. \A s \in Slot : version'[s] = version[s]  BY VersionMoves
<1>3. Bound' = Bound
  <2>1. \A v \in Value : keyOf[v] # None => keyOf[v].idx \in Slot
    BY DEF Core, TypeOK, Key
  <2>. QED  BY <1>1, <1>2, <2>1 DEF Bound
<1>4. Holds' = Holds
  <2>1. \A g \in Guard : Holds'[g] = Holds[g]  BY GuardMoves, HoldsStays
  <2>. QED  BY <2>1 DEF Holds
<1>. QED  BY <1>1, <1>3, <1>4 DEF Store!vars

----------------------------------------------------------------------------
(* The steps of clones and of the map's end *)

\* A clone shares the value, unless it panics: then no one has the clone.
LEMMA CloneShares ==
  ASSUME Core, Values, NEW g \in Guard, NEW h \in Guard, CloneGuard(g, h)
  PROVE  Store!Share(g, h) \/ UNCHANGED Store!vars
<1>1. /\ guard[g] # None /\ g \notin stranded /\ guard[h] = None
      /\ guard' = [guard EXCEPT ![h] = guard[g]]
      /\ stranded' \in {stranded, stranded \cup {h}}
      /\ UNCHANGED <<version, keyOf, data, drops, life>>
  BY DEF CloneGuard, Unused
<1>2. guard \in [Guard -> Key \cup {None}]  BY DEF Core, TypeOK
<1>3. Bound' = Bound  BY <1>1 DEF Bound
<1>4. Holds[h] = None /\ h \notin stranded  BY <1>1 DEF Holds, Held, Values, StrandedKept
<1>5. Holds[g] = data[guard[g].idx] /\ Holds[g] # None
  <2>1. life # "freed"  BY <1>1 DEF Values, Held
  <2>2. data[guard[g].idx] \in Value  BY <1>1, <2>1, GuardAlive DEF Alive
  <2>. QED  BY <1>1, <2>2, SlotMapAssumption DEF Holds, Held
<1>6. guard'[h] = guard[g] /\ \A x \in Guard : x # h => guard'[x] = guard[x]
  BY <1>1, <1>2
<1>7. ASSUME NEW x \in Guard, x # h
      PROVE  (IF Held(x) THEN data[guard[x].idx] ELSE None)'
             = IF Held(x) THEN data[guard[x].idx] ELSE None
  BY <1>1, <1>6, <1>7 DEF Held
<1>8. CASE stranded' = stranded
  <2>1. (IF Held(h) THEN data[guard[h].idx] ELSE None)' = Holds[g]
    BY <1>1, <1>4, <1>5, <1>6, <1>8 DEF Held
  <2>2. Holds' = [Holds EXCEPT ![h] = Holds[g]]
    BY <1>7, <2>1 DEF Holds
  <2>. QED  BY <1>1, <1>3, <1>4, <1>5, <2>2 DEF Store!Share
<1>9. CASE stranded' = stranded \cup {h}
  <2>1. (IF Held(h) THEN data[guard[h].idx] ELSE None)' = None  BY <1>9 DEF Held
  <2>2. (IF Held(h) THEN data[guard[h].idx] ELSE None) = None  BY <1>1 DEF Held
  <2>3. Holds' = Holds  BY <1>7, <2>1, <2>2 DEF Holds
  <2>. QED  BY <1>1, <1>3, <2>3 DEF Store!vars
<1>. QED  BY <1>1, <1>8, <1>9

\* The drop of the vector destroys exactly what is still bound.
LEMMA DropCloses ==
  ASSUME Core, Values, KeysUnique, DropMap
  PROVE  Store!Close
<1>1. /\ life = "closed" /\ life' = "freed"
      /\ \A g \in Guard \ stranded : guard[g] = None
      /\ UNCHANGED <<version, data, guard, keyOf, stranded>>
  BY DEF DropMap, slotVars, lossVars
<1>2. \A g \in Guard : Holds[g] = None  BY <1>1 DEF Holds, Held
<1>3. Holds' = Holds  BY <1>1 DEF Holds, Held
<1>4. Bound' = {}  BY <1>1 DEF Bound
<1>5. ASSUME NEW v \in Value  PROVE drops'[v] = IF v \in Bound THEN 1 ELSE drops[v]
  <2>1. drops[v] \in Nat  BY DEF Core, TypeOK
  <2>2. CASE v \in Bound
    <3>1. Dying(v) # {} /\ drops[v] = 0  BY <2>2, BoundSlot, DyingOnce
    <3>. QED  BY <2>2, <3>1, DyingOnce
  <2>3. CASE v \notin Bound
    <3>1. Dying(v) = {}  BY <1>1, <2>3, DyingOnce DEF Bound
    <3>. QED  BY <2>1, <2>3, <3>1, DyingOnce
  <2>. QED  BY <2>2, <2>3
<1>6. drops' = [v \in Value |-> IF v \in Bound THEN 1 ELSE drops[v]]
  BY <1>5 DEF DropMap
<1>. QED  BY <1>1, <1>2, <1>3, <1>4, <1>6 DEF Store!Close

----------------------------------------------------------------------------
(* The refinement *)

LEMMA StoreInit == Init => Store!Init
<1>. SUFFICES ASSUME Init  PROVE Store!Init
  OBVIOUS
<1>1. /\ keyOf = [v \in Value |-> None] /\ drops = [v \in Value |-> 0]
      /\ \A g \in Guard : guard[g] = None
  BY DEF Init
<1>2. Bound = {}  BY <1>1 DEF Bound
<1>3. Holds = [g \in Guard |-> None]  BY <1>1 DEF Holds, Held
<1>. QED  BY <1>1, <1>2, <1>3 DEF Store!Init

LEMMA StoreStep ==
  ASSUME KeysInv, KeysInv', NoTagWrap, NoVersionWrap, [Next]_vars
  PROVE  [Store!Next]_(Store!vars)
<1>1. Core /\ Values /\ KeysInOrder /\ KeysUnique
  BY DEF KeysInv, ValuesInv, IInv
<1>2. ASSUME NEW t \in Thread, Call(t) \/ Step(t)
      PROVE  [Store!Next]_(Store!vars)
  <2>1. CASE StoreVersion(t)  BY <1>1, <2>1, PublishInserts DEF Store!Next
  <2>2. CASE CallErr(t) \/ CallPanics(t)  BY <1>1, <2>2, FailureRejects DEF Store!Next
  <2>3. CASE RemoveSwap(t)  BY <1>1, <2>3, ExchangeRemoves DEF Store!Next
  <2>4. CASE CheckVersion(t)  BY <1>1, <2>4, ComparisonAcquires DEF Store!Next
  <2>5. CASE DropStep(t)  BY <1>1, <2>5, DestructorDestroys DEF Store!Next
  <2>6. CASE \E g \in Guard : DropGuard(t, g)
    BY <1>1, <2>6, DropReleases DEF Store!Next
  <2>. QED  BY <1>1, <1>2, <2>1, <2>2, <2>3, <2>4, <2>5, <2>6, OthersHidden
<1>3. ASSUME NEW g \in Guard, NEW h \in Guard, CloneGuard(g, h)
      PROVE  [Store!Next]_(Store!vars)
  BY <1>1, <1>3, CloneShares DEF Store!Next
<1>4. CASE DropMap  BY <1>1, <1>4, DropCloses DEF Store!Next
<1>5. CASE CloseMap
  <2>1. /\ UNCHANGED <<version, keyOf, data, drops, guard, stranded>>
        /\ life = "open" /\ life' = "closed"
    BY <1>5 DEF CloseMap, slotVars, history, lossVars
  <2>2. Bound' = Bound /\ Holds' = Holds  BY <2>1 DEF Bound, Holds, Held
  <2>. QED  BY <2>1, <2>2 DEF Store!vars
<1>6. CASE UNCHANGED vars
  BY <1>6 DEF vars, Store!vars, Bound, Holds, Held, slotVars, mapVars, history, lossVars
<1>. QED  BY <1>2, <1>3, <1>4, <1>5, <1>6 DEF Next, Freed

\* As long as neither the tag of free_head nor the version of a slot has wrapped,
\* the slot map is the keyed store: calls of any number of threads that share its
\* words look like calls that take effect at once, a guard keeps its value, and a
\* removed value is destroyed when no guard holds it.
THEOREM Implements == Spec /\ [](NoTagWrap /\ NoVersionWrap) => ImplementsKeyedStore
<1>1. KeysInv /\ KeysInv' /\ (NoTagWrap /\ NoVersionWrap) /\ [Next]_vars
        => [Store!Next]_(Store!vars)
  BY StoreStep
<1>2. Init => KeysInv  BY InitKeysInv
<1>3. KeysInv /\ [Next]_vars => KeysInv'  BY StepKeysInv
<1>. QED  BY <1>1, <1>2, <1>3, StoreInit, PTL DEF Spec, ImplementsKeyedStore, Store!Spec

----------------------------------------------------------------------------
(* Misses *)

LEMMA MissStep ==
  ASSUME IInv, NoTagWrap, [Next]_vars, NEW t \in Thread, Missing(t)
  PROVE  version[th[t].idx] # th[t].ver \/ ref_count[th[t].idx] > MAX_REFCOUNT
<1>1. Core  BY DEF IInv
<1>2. Call(t) \/ Step(t)
  <2>1. th'[t] # th[t]  BY DEF Missing, At
  <2>2. ASSUME NEW u \in Thread, Call(u) \/ Step(u)  PROVE u = t
    BY <1>1, <2>1, <2>2, Others
  <2>3. ASSUME NEW g \in Guard, NEW h \in Guard, CloneGuard(g, h)  PROVE FALSE
    BY <2>1, <2>3 DEF CloneGuard
  <2>4. ASSUME CloseMap \/ DropMap \/ UNCHANGED vars  PROVE FALSE
    BY <2>1, <2>4 DEF CloseMap, DropMap, vars
  <2>. QED  BY <2>2, <2>3, <2>4 DEF Next, Freed
<1>3. CASE At(t, "acquire") /\ th'[t].pc = "idle"
  <2>1. AcquireRetry(t)
    BY <1>1, <1>2, <1>3, InsertMoves, OtherMoves, CallMoves
    DEF At, Call, Step, InsertStep, PopStep, GetStep, RemoveStep, PushStep, DropStep, Goes
  <2>. DEFINE s == th[t].idx
  <2>2. /\ s \in Slot /\ ref_count[s] \in Nat /\ th \in [Thread -> ThreadState]
        /\ th[t] \in ThreadState /\ th[t].ver % 2 = 1 /\ MAX_REFCOUNT \in Nat
    BY <1>1, <1>3, SlotMapAssumption DEF Core, TypeOK, ThreadState, LocalsSound, At
  <2>3. ~Acquirable(ref_count[s])
    <3>1. SUFFICES ASSUME Acquirable(ref_count[s])  PROVE FALSE  OBVIOUS
    <3>2. th'[t] = [th[t] EXCEPT !.rc = ref_count[s]]
      BY <2>1, <2>2, <3>1 DEF AcquireRetry, Become
    <3>3. th'[t].pc = th[t].pc  BY <2>2, <3>2 DEF ThreadState
    <3>. QED  BY <1>3, <3>3 DEF At
  <2>4. ref_count[s] = 0 => version[s] # th[t].ver
    <3>1. ref_count[s] = 0 => ~Occupied(s)  BY <1>1, <2>2, Referenced DEF Core
    <3>. QED  BY <2>2, <3>1 DEF Occupied
  <2>. QED  BY <2>2, <2>3, <2>4 DEF Acquirable
<1>4. CASE At(t, "check") /\ th'[t].pc = "undo"
  <2>1. CheckFails(t)
    BY <1>1, <1>2, <1>4, InsertMoves, OtherMoves, CallMoves
    DEF At, Call, Step, InsertStep, PopStep, GetStep, RemoveStep, PushStep, DropStep, Goes
  <2>. QED  BY <2>1 DEF CheckFails
<1>. QED  BY <1>3, <1>4 DEF Missing

\* As long as the tag has not wrapped, a get that gives up does so at a moment
\* when its key leads to nothing or the count is over the cap: no race hides a
\* value that is there.
THEOREM Misses == Spec /\ []NoTagWrap => MissesJustified
<1>. DEFINE Justified == \A t \in Thread : Missing(t) =>
              \/ version[th[t].idx] # th[t].ver
              \/ ref_count[th[t].idx] > MAX_REFCOUNT
<1>1. IInv /\ NoTagWrap /\ [Next]_vars => [Justified]_vars
  BY MissStep
<1>2. Init => IInv  BY InitInv
<1>3. IInv /\ [Next]_vars => IInv'  BY StepInv
<1>4. Spec /\ []NoTagWrap => [][Justified]_vars
  <2>. HIDE DEF Justified
  <2>. QED  BY <1>1, <1>2, <1>3, PTL DEF Spec
<1>. QED  BY <1>4 DEF MissesJustified, Justified

=============================================================================
