------------------------- MODULE SlotMapCountProofs -------------------------
(***************************************************************************)
(* What AtomicSlotMap counts, for any number of threads, guards and slots: *)
(* num_elems is the number of occupied slots but for the calls in between, *)
(* and the references in use on a slot stay below the cap.                 *)
(***************************************************************************)
EXTENDS SlotMapValueProofs

----------------------------------------------------------------------------
(* Counting modulo the width of a word *)

LEMMA Division ==
  ASSUME NEW a \in Int
  PROVE  \E q \in Int : a = CountMod * q + (a % CountMod) /\ a % CountMod \in 0 .. CountMod - 1
<1>1. CountMod \in Nat \ {0}  BY SlotMapAssumption
<1>2. /\ a = CountMod * (a \div CountMod) + (a % CountMod)
      /\ a % CountMod \in 0 .. CountMod - 1 /\ a \div CountMod \in Int
  BY <1>1
<1>. QED  BY <1>2

LEMMA Remainder ==
  ASSUME NEW q \in Int, NEW p \in Int,
         NEW r \in 0 .. CountMod - 1, NEW s \in 0 .. CountMod - 1,
         CountMod * q + r = CountMod * p + s
  PROVE  r = s
<1>0. CountMod \in Nat \ {0}  BY SlotMapAssumption
<1>1. CountMod * (q - p) = s - r  BY <1>0
<1>2. CASE q - p >= 1
  <2>1. CountMod * (q - p) >= CountMod  BY <1>0, <1>2
  <2>. QED  BY <1>0, <1>1, <2>1
<1>3. CASE q - p <= -1
  <2>1. CountMod * (p - q) >= CountMod  BY <1>0, <1>3
  <2>. QED  BY <1>0, <1>1, <2>1
<1>4. CASE q = p  BY <1>0, <1>4
<1>. QED  BY <1>2, <1>3, <1>4

\* A counter that wraps may be reduced before or after a change.
LEMMA Wrapped ==
  ASSUME NEW a \in Int, NEW k \in Int
  PROVE  ((a % CountMod) + k) % CountMod = (a + k) % CountMod
<1>0. CountMod \in Nat \ {0}  BY SlotMapAssumption
<1>1. PICK q \in Int : a = CountMod * q + (a % CountMod) /\ a % CountMod \in 0 .. CountMod - 1
  BY Division
<1>. DEFINE b == (a % CountMod) + k
<1>2. b \in Int /\ a + k = CountMod * q + b  BY <1>0, <1>1
<1>. HIDE DEF b
<1>3. PICK p \in Int : b = CountMod * p + (b % CountMod) /\ b % CountMod \in 0 .. CountMod - 1
  BY <1>2, Division
<1>. DEFINE c == a + k
<1>4. c \in Int /\ c = CountMod * q + b  BY <1>2
<1>. HIDE DEF c
<1>5. PICK o \in Int : c = CountMod * o + (c % CountMod) /\ c % CountMod \in 0 .. CountMod - 1
  BY <1>4, Division
<1>. DEFINE x == b % CountMod  y == c % CountMod
<1>6. /\ x \in 0 .. CountMod - 1 /\ y \in 0 .. CountMod - 1
      /\ b = CountMod * p + x /\ c = CountMod * o + y
  BY <1>3, <1>5
<1>. HIDE DEF x, y
<1>7. CountMod * (q + p) + x = CountMod * o + y
  BY <1>0, <1>4, <1>6
<1>8. x = y  BY <1>6, <1>7, Remainder
<1>. QED  BY <1>8 DEF x, y, b, c

----------------------------------------------------------------------------
(* Calls *)

\* A step ends its call, or goes on in the same call.
EndsCall(t) == th'[t].pc = "idle" /\ th'[t].op = "none"
KeepsCall(t) == th'[t].pc # "idle" /\ th'[t].op = th[t].op

LEMMA OpMoves ==
  ASSUME Core, CallsSound, NEW t \in Thread, Step(t)
  PROVE  EndsCall(t) \/ KeepsCall(t)
<1>1. /\ th \in [Thread -> ThreadState] /\ th[t] \in ThreadState
  BY DEF Core, TypeOK
<1>2. ASSUME NEW r, Become(t, r)  PROVE th'[t] = r
  BY <1>1, <1>2 DEF Become
<1>3. CASE Return(t)
  BY <1>2, <1>3 DEF Return, Idle, EndsCall
<1>. USE <1>1, <1>2 DEF KeepsCall, At, ThreadState
<1>4. CASE PopStep(t)
  BY <1>4 DEF PopStep, PopReadNext, PopSwap, PopRetry, PopTarget
<1>5. CASE PushZeroed(t) \/ EnsureChunk(t) \/ LoadVersion(t) \/ WriteValue(t) \/ StoreRef(t)
  BY <1>5 DEF PushZeroed, EnsureChunk, LoadVersion, WriteValue, StoreRef
<1>6. CASE CallErr(t)  BY <1>6 DEF CallErr
<1>7. CASE StoreVersion(t)
  <2>1. th'[t] = [Idle EXCEPT !.pc = "count_up", !.op = "insert"] /\ th[t].pc = "store_version"
    BY <1>7 DEF StoreVersion
  <2>2. th[t].op = "insert"  BY <2>1 DEF CallsSound, InsertPC
  <2>3. th'[t].pc = "count_up" /\ th'[t].op = "insert"  BY <2>1 DEF Idle
  <2>. QED  BY <2>2, <2>3
<1>8. CASE CallPanics(t) \/ CountUp(t) \/ CheckVersion(t) \/ RemoveFails(t)
           \/ CountDown(t) \/ DropValuePanics(t)
  BY <1>3, <1>8 DEF CallPanics, CountUp, CheckVersion, RemoveFails, CountDown,
                    DropValuePanics
<1>9. CASE AcquireSwap(t) \/ CheckFails(t) \/ RemoveSwap(t) \/ RemoveDec(t)
  BY <1>9 DEF AcquireSwap, CheckFails, RemoveSwap, RemoveDec
<1>10. CASE AcquireRetry(t) \/ UndoAcquire(t)
  BY <1>3, <1>10 DEF AcquireRetry, UndoAcquire
<1>11. CASE DropValue(t) \/ PushLoad(t) \/ PushStoreNext(t) \/ PushRetry(t)
  BY <1>11 DEF DropValue, PushLoad, PushStoreNext, PushRetry
<1>12. CASE PushSwap(t)
  <2>1. CASE th[t].op = "remove"
    <3>1. th'[t] = [Idle EXCEPT !.pc = "count_down", !.op = "remove"]
      BY <1>12, <2>1 DEF PushSwap
    <3>2. th'[t].pc = "count_down" /\ th'[t].op = "remove"  BY <3>1 DEF Idle
    <3>. QED  BY <2>1, <3>2
  <2>2. CASE th[t].op # "remove"
    BY <1>12, <2>2 DEF PushSwap, Idle, EndsCall
  <2>. QED  BY <2>1, <2>2
<1>. QED
  BY <1>4, <1>5, <1>6, <1>7, <1>8, <1>9, <1>10, <1>11, <1>12
  DEF Step, InsertStep, GetStep, RemoveStep, PushStep, DropStep

LEMMA OpCalls ==
  ASSUME Core, NEW t \in Thread
  PROVE  /\ \A v \in Value : BeginInsert(t, v) => th'[t].op = "insert"
         /\ \A k \in Key, g \in Guard : BeginGet(t, k, g) =>
              th'[t].op = "get" /\ th'[t].rc <= MAX_REFCOUNT
         /\ \A k \in Key : BeginRemove(t, k) => th'[t].op = "remove"
         /\ \A g \in Guard : DropGuard(t, g) =>
              th'[t] = th[t] \/ (th'[t].op = "drop" /\ th'[t].pc = "drop_value")
<1>1. /\ th \in [Thread -> ThreadState] /\ th[t] \in ThreadState /\ MAX_REFCOUNT \in Nat
  BY SlotMapAssumption DEF Core, TypeOK
<1>2. ASSUME NEW r, Become(t, r)  PROVE th'[t] = r
  BY <1>1, <1>2 DEF Become
<1>. USE <1>1, <1>2 DEF ThreadState
<1>3. ASSUME NEW v \in Value, BeginInsert(t, v)  PROVE th'[t].op = "insert"
  BY <1>3 DEF BeginInsert
<1>4. ASSUME NEW k \in Key, NEW g \in Guard, BeginGet(t, k, g)
      PROVE  th'[t].op = "get" /\ th'[t].rc <= MAX_REFCOUNT
  <2>1. /\ th'[t] = [th[t] EXCEPT !.pc = "acquire", !.op = "get", !.idx = k.idx,
                                 !.ver = k.ver, !.rc = ref_count[k.idx], !.out = g]
        /\ Acquirable(ref_count[k.idx])
    BY <1>4 DEF BeginGet
  <2>2. th'[t].op = "get" /\ th'[t].rc = ref_count[k.idx]  BY <2>1
  <2>3. ref_count[k.idx] <= MAX_REFCOUNT  BY <2>1 DEF Acquirable
  <2>. QED  BY <2>2, <2>3
<1>5. ASSUME NEW k \in Key, BeginRemove(t, k)  PROVE th'[t].op = "remove"
  BY <1>5 DEF BeginRemove
<1>6. ASSUME NEW g \in Guard, DropGuard(t, g)
      PROVE  th'[t] = th[t] \/ (th'[t].op = "drop" /\ th'[t].pc = "drop_value")
  BY <1>6 DEF DropGuard
<1>. QED  BY <1>3, <1>4, <1>5, <1>6

LEMMA CallsStep ==
  ASSUME Core, CallsSound, NEW t \in Thread, Call(t) \/ Step(t)
  PROVE  CallsSound'
<1>. DEFINE Mine ==
       /\ th'[t].op = "none" <=> th'[t].pc = "idle"
       /\ th'[t].pc \in InsertPC \cup {"count_up"} => th'[t].op = "insert"
       /\ th'[t].pc \in {"acquire", "check", "undo"} => th'[t].op = "get"
       /\ th'[t].pc \in {"rem_swap", "rem_dec", "count_down"} => th'[t].op = "remove"
<1>1. ASSUME Mine  PROVE CallsSound'
  <2>1. \A u \in Thread \ {t} : th'[u] = th[u]  BY Others
  <2>. QED  BY <1>1, <2>1 DEF CallsSound, At
<1>2. ASSUME Step(t)  PROVE Mine
  <2>1. CASE EndsCall(t)  BY <2>1 DEF EndsCall, InsertPC
  <2>2. ASSUME KeepsCall(t)  PROVE Mine
    <3>1. th[t].pc # "idle"
      BY <1>2, InsertMoves, OtherMoves
      DEF Step, InsertStep, PopStep, GetStep, RemoveStep, PushStep, DropStep, Goes
    <3>2. th'[t].pc \in InsertPC \cup {"count_up"} => th[t].pc \in InsertPC
      BY <1>2, InsertMoves, OtherMoves
      DEF Step, InsertStep, PopStep, GetStep, RemoveStep, PushStep, DropStep, Goes,
          PopTarget, InsertPC
    <3>3. th'[t].pc \in {"acquire", "check", "undo"} => th[t].pc \in {"acquire", "check", "undo"}
      BY <1>2, InsertMoves, OtherMoves
      DEF Step, InsertStep, PopStep, GetStep, RemoveStep, PushStep, DropStep, Goes, PopTarget
    <3>4. th'[t].pc \in {"rem_swap", "rem_dec", "count_down"} =>
            th[t].pc \in {"rem_swap", "rem_dec"} \/ PushSwap(t)
      BY <1>2, InsertMoves, OtherMoves
      DEF Step, InsertStep, PopStep, GetStep, RemoveStep, PushStep, DropStep, Goes, PopTarget
    <3>5. PushSwap(t) /\ th[t].op # "remove" => th'[t].pc = "idle"
      BY DEF PushSwap, Become, Core, TypeOK, Idle
    <3>. QED  BY <2>2, <3>1, <3>2, <3>3, <3>4, <3>5 DEF KeepsCall, CallsSound, At
  <2>. QED  BY <1>2, <2>1, <2>2, OpMoves
<1>3. ASSUME Call(t)  PROVE Mine
  <2>1. ASSUME NEW v \in Value, BeginInsert(t, v)  PROVE Mine
    BY <2>1, OpCalls, CallMoves DEF Goes, PopTarget, InsertPC
  <2>2. ASSUME NEW k \in Key, NEW g \in Guard, BeginGet(t, k, g)  PROVE Mine
    BY <2>2, OpCalls, CallMoves DEF InsertPC
  <2>3. ASSUME NEW k \in Key, BeginRemove(t, k)  PROVE Mine
    BY <2>3, OpCalls, CallMoves DEF InsertPC
  <2>4. ASSUME NEW g \in Guard, DropGuard(t, g)  PROVE Mine
    BY <2>4, OpCalls DEF InsertPC, CallsSound, At
  <2>. QED  BY <1>3, <2>1, <2>2, <2>3, <2>4 DEF Call
<1>. QED  BY <1>1, <1>2, <1>3

----------------------------------------------------------------------------
(* num_elems *)

OccupiedSlots == {s \in Slot : Occupied(s)}

\* What num_elems counts, before it is reduced to the width of its word.
Elements == Cardinality(OccupiedSlots) - Cardinality(Counting)
              + Cardinality(Removing) + uncounted

One(b) == IF b THEN 1 ELSE 0

\* The elements change by what happens to the one slot of the step and to the
\* one thread that takes it.
LEMMA Difference ==
  ASSUME Core, NEW t \in Thread, Call(t) \/ Step(t), NEW x \in Slot, x = th[t].idx,
         uncounted' \in Nat
  PROVE  /\ Elements \in Int /\ Elements' \in Int
         /\ Elements' = Elements + (One(Occupied(x))' - One(Occupied(x)))
                                 - (One(t \in Counting)' - One(t \in Counting))
                                 + (One(t \in Removing)' - One(t \in Removing))
                                 + (uncounted' - uncounted)
<1>1. IsFiniteSet(Slot) /\ IsFiniteSet(Thread)
  <2>1. 0 \in Int /\ MaxSlots - 1 \in Int /\ IsFiniteSet(Thread)  BY SlotMapAssumption
  <2>2. IsFiniteSet(0 .. MaxSlots - 1)  BY <2>1, FS_Interval
  <2>. QED  BY <2>1, <2>2 DEF Slot
<1>2. IsFiniteSet(OccupiedSlots) /\ IsFiniteSet(Counting) /\ IsFiniteSet(Removing)
  BY <1>1, FS_Subset DEF OccupiedSlots, Counting, Removing
<1>3. OccupiedSlots \ {x} = OccupiedSlots' \ {x}
  <2>1. \A s \in Slot : s # x => version'[s] = version[s]  BY VersionMoves
  <2>. QED  BY <2>1 DEF OccupiedSlots, Occupied
<1>4. Counting \ {t} = Counting' \ {t} /\ Removing \ {t} = Removing' \ {t}
  <2>1. \A u \in Thread \ {t} : th'[u] = th[u]  BY Others
  <2>. QED  BY <2>1 DEF Counting, Removing, At
<1>5. /\ x \in OccupiedSlots <=> Occupied(x)
      /\ x \in OccupiedSlots' <=> Occupied(x)'
  BY DEF OccupiedSlots
<1>6. /\ Cardinality(OccupiedSlots) \in Nat /\ Cardinality(OccupiedSlots') \in Nat
      /\ Cardinality(OccupiedSlots') =
           Cardinality(OccupiedSlots) - One(Occupied(x)) + One(Occupied(x))'
  <2>1. /\ Cardinality(OccupiedSlots) \in Nat /\ Cardinality(OccupiedSlots') \in Nat
        /\ Cardinality(OccupiedSlots') = Cardinality(OccupiedSlots)
                                       - (IF x \in OccupiedSlots THEN 1 ELSE 0)
                                       + (IF x \in OccupiedSlots' THEN 1 ELSE 0)
    BY <1>2, <1>3, OneMore
  <2>. QED  BY <1>5, <2>1 DEF One
<1>7. /\ Cardinality(Counting) \in Nat /\ Cardinality(Counting') \in Nat
      /\ Cardinality(Counting') =
           Cardinality(Counting) - One(t \in Counting) + One(t \in Counting)'
  BY <1>2, <1>4, OneMore DEF One
<1>8. /\ Cardinality(Removing) \in Nat /\ Cardinality(Removing') \in Nat
      /\ Cardinality(Removing') =
           Cardinality(Removing) - One(t \in Removing) + One(t \in Removing)'
  BY <1>2, <1>4, OneMore DEF One
<1>9. uncounted \in Nat  BY DEF Core, TypeOK
<1>10. /\ One(Occupied(x)) \in Int /\ One(Occupied(x))' \in Int
       /\ One(t \in Counting) \in Int /\ One(t \in Counting)' \in Int
       /\ One(t \in Removing) \in Int /\ One(t \in Removing)' \in Int
  BY DEF One
<1>. QED  BY <1>6, <1>7, <1>8, <1>9, <1>10 DEF Elements

\* Where a call that ends was, if it does not concern num_elems.
LEMMA EndMoves ==
  ASSUME Core, CallsSound, NEW t \in Thread, Step(t), EndsCall(t),
         ~CountUp(t), ~CountDown(t), ~DropValuePanics(t)
  PROVE  t \notin Counting /\ t \notin Removing
<1>1. \/ CallPanics(t) \/ AcquireRetry(t) \/ CheckVersion(t) \/ UndoAcquire(t)
      \/ RemoveFails(t) \/ PushSwap(t)
  BY InsertMoves, OtherMoves
  DEF Step, InsertStep, PopStep, GetStep, RemoveStep, PushStep, DropStep, Goes,
      PopTarget, EndsCall
<1>2. th[t].pc \in {"call", "acquire", "check", "undo", "rem_swap", "push_swap"}
  BY <1>1, InsertMoves, OtherMoves DEF Goes
<1>3. CASE PushSwap(t)
  <2>1. th[t].op # "remove"
    <3>1. SUFFICES ASSUME th[t].op = "remove"  PROVE FALSE  OBVIOUS
    <3>2. th'[t] = [Idle EXCEPT !.pc = "count_down", !.op = "remove"]
      BY <1>3, <3>1 DEF PushSwap, Become, Core, TypeOK
    <3>3. th'[t].pc = "count_down"  BY <3>2 DEF Idle
    <3>. QED  BY <3>3 DEF EndsCall
  <2>. QED  BY <1>2, <2>1 DEF Counting, Removing, At
<1>4. CASE ~PushSwap(t)
  <2>1. th[t].pc \in {"call", "acquire", "check", "undo", "rem_swap"}
    BY <1>1, <1>4, InsertMoves, OtherMoves DEF Goes
  <2>. QED  BY <2>1 DEF Counting, Removing, At, CallsSound, InsertPC
<1>. QED  BY <1>3, <1>4

\* A step changes what num_elems counts exactly as it changes num_elems.
LEMMA ElementsStep ==
  ASSUME Core, CallsSound, NEW t \in Thread, Call(t) \/ Step(t)
  PROVE  /\ Elements \in Int /\ Elements' \in Int
         /\ \/ Elements' = Elements /\ num_elems' = num_elems
            \/ Elements' = Elements + 1 /\ num_elems' = (num_elems + 1) % CountMod
            \/ Elements' = Elements - 1 /\ num_elems' = (num_elems - 1) % CountMod
<1>0. PICK x \in Slot : x = th[t].idx  BY DEF Core, TypeOK, ThreadState
<1>1. /\ th \in [Thread -> ThreadState] /\ th[t] \in ThreadState
      /\ x \in Slot /\ x = th[t].idx
      /\ uncounted \in Nat /\ uncounted' \in Nat /\ version \in [Slot -> Version]
  BY <1>0, TypeStep DEF Core, TypeOK
<1>2. /\ Elements \in Int /\ Elements' \in Int
      /\ Elements' = Elements + (One(Occupied(x))' - One(Occupied(x)))
                              - (One(t \in Counting)' - One(t \in Counting))
                              + (One(t \in Removing)' - One(t \in Removing))
                              + (uncounted' - uncounted)
  BY <1>1, Difference
<1>3. /\ num_elems' = num_elems \/ CountUp(t) \/ CountDown(t)
      /\ uncounted' = uncounted \/ DropValuePanics(t)
  BY DEF Call, Step, InsertStep, PopStep, GetStep, RemoveStep, PushStep, DropStep,
       BeginInsert, BeginGet, BeginRemove, DropGuard, PopReadNext, PopSwap, PopRetry,
       PushZeroed, EnsureChunk, LoadVersion, WriteValue, CallErr, CallPanics, StoreRef,
       StoreVersion, CountUp, AcquireSwap, AcquireRetry, CheckVersion, CheckFails,
       UndoAcquire, RemoveSwap, RemoveFails, RemoveDec, CountDown, DropValue,
       DropValuePanics, PushLoad, PushStoreNext, PushSwap, PushRetry,
       vecVars, slotVars, mapVars, history, lossVars
<1>4. ASSUME ~StoreVersion(t), ~RemoveSwap(t)  PROVE Occupied(x)' <=> Occupied(x)
  BY <1>1, <1>4, VersionMoves DEF Occupied
<1>5. CASE StoreVersion(t)
  <2>1. /\ version' = [version EXCEPT ![x] = th[t].ver] /\ th[t].pc = "store_version"
        /\ th[t].op = "insert" /\ th'[t] = [Idle EXCEPT !.pc = "count_up", !.op = "insert"]
        /\ num_elems' = num_elems /\ uncounted' = uncounted
    BY <1>1, <1>5 DEF StoreVersion, At, Become, CallsSound, InsertPC, mapVars, lossVars
  <2>2. ~Occupied(x) /\ Occupied(x)'
    BY <1>1, <2>1 DEF Core, ExclusiveOwner, Owns, OwnerPC, LocalsSound, Occupied
  <2>3. th'[t].pc = "count_up" /\ th'[t].op = "insert"  BY <2>1 DEF Idle
  <2>4. /\ t \notin Counting /\ t \in Counting'
        /\ t \notin Removing /\ t \notin Removing'
    BY <2>1, <2>3 DEF Counting, Removing, At
  <2>. QED  BY <1>1, <1>2, <2>1, <2>2, <2>4 DEF One
<1>6. CASE RemoveSwap(t)
  <2>1. /\ th[t].pc = "rem_swap" /\ th'[t].pc = "rem_dec"
        /\ num_elems' = num_elems /\ uncounted' = uncounted /\ version[x] = th[t].ver
        /\ th[t].op = "remove"
    BY <1>1, <1>6, OtherMoves DEF RemoveSwap, At, Goes, mapVars, history, lossVars, CallsSound
  <2>2. version[x] % 2 = 1  BY <1>1, <2>1 DEF Core, LocalsSound
  <2>3. th'[t].op = "remove"
    BY <1>6, <2>1, OpMoves DEF EndsCall, KeepsCall, Step, RemoveStep
  <2>4. Occupied(x) /\ ~Occupied(x)'
    <3>1. version'[x] = (version[x] + 1) % VersionMod  BY <1>1, <1>6 DEF RemoveSwap
    <3>. QED  BY <1>1, <2>2, <3>1, Unoccupy DEF Occupied
  <2>5. /\ t \notin Counting /\ t \notin Counting'
        /\ t \notin Removing /\ t \in Removing'
    BY <2>1, <2>3 DEF Counting, Removing, At
  <2>. QED  BY <1>1, <1>2, <2>1, <2>4, <2>5 DEF One
<1>7. CASE CountUp(t)
  <2>1. /\ th[t].pc = "count_up" /\ num_elems' = (num_elems + 1) % CountMod
        /\ uncounted' = uncounted /\ th'[t] = Idle /\ version' = version /\ th[t].op = "insert"
    BY <1>1, <1>7 DEF CountUp, At, Return, Become, history, lossVars, slotVars, CallsSound
  <2>2. /\ t \in Counting /\ t \notin Counting'
        /\ t \notin Removing /\ t \notin Removing'
    BY <2>1 DEF Counting, Removing, At, Idle
  <2>3. Occupied(x)' <=> Occupied(x)  BY <2>1 DEF Occupied
  <2>. QED  BY <1>1, <1>2, <2>1, <2>2, <2>3 DEF One
<1>8. CASE CountDown(t)
  <2>1. /\ th[t].pc = "count_down" /\ num_elems' = (num_elems - 1) % CountMod
        /\ uncounted' = uncounted /\ th'[t] = Idle /\ version' = version /\ th[t].op = "remove"
    BY <1>1, <1>8 DEF CountDown, At, Return, Become, history, lossVars, slotVars, CallsSound
  <2>2. /\ t \notin Counting /\ t \notin Counting'
        /\ t \in Removing /\ t \notin Removing'
    BY <2>1 DEF Counting, Removing, At, Idle
  <2>3. Occupied(x)' <=> Occupied(x)  BY <2>1 DEF Occupied
  <2>. QED  BY <1>1, <1>2, <2>1, <2>2, <2>3 DEF One
<1>9. CASE DropValuePanics(t)
  <2>1. /\ th[t].pc = "drop_value" /\ num_elems' = num_elems /\ th'[t] = Idle
        /\ version' = version
        /\ uncounted' = uncounted + (IF th[t].op = "remove" THEN 1 ELSE 0)
    BY <1>1, <1>9 DEF DropValuePanics, At, Return, Become, slotVars, mapVars
  <2>2. /\ t \notin Counting /\ t \notin Counting'
        /\ t \in Removing <=> th[t].op = "remove"
        /\ t \notin Removing'
    BY <2>1 DEF Counting, Removing, At, Idle
  <2>3. Occupied(x)' <=> Occupied(x)  BY <2>1 DEF Occupied
  <2>. QED  BY <1>1, <1>2, <2>1, <2>2, <2>3 DEF One
<1>10. ASSUME ~StoreVersion(t), ~RemoveSwap(t), ~CountUp(t), ~CountDown(t), ~DropValuePanics(t)
       PROVE  Elements' = Elements /\ num_elems' = num_elems
  <2>1. /\ t \in Counting' <=> t \in Counting
        /\ t \in Removing' <=> t \in Removing
    <3>1. ASSUME Step(t), EndsCall(t)
          PROVE  /\ t \notin Counting /\ t \notin Removing
                 /\ t \notin Counting' /\ t \notin Removing'
      BY <1>10, <3>1, EndMoves DEF EndsCall, Counting, Removing, At
    <3>2. ASSUME Step(t), KeepsCall(t)
          PROVE  /\ t \in Counting' <=> t \in Counting
                 /\ t \in Removing' <=> t \in Removing
      <4>1. th[t].pc \notin {"count_up", "rem_swap"} /\ th'[t].pc \notin {"count_up", "rem_swap"}
        BY <1>10, <3>2, InsertMoves, OtherMoves
        DEF Step, InsertStep, PopStep, GetStep, RemoveStep, PushStep, DropStep, Goes,
            PopTarget, KeepsCall
      <4>. QED  BY <3>2, <4>1 DEF KeepsCall, Counting, Removing, At
    <3>3. ASSUME Call(t)
          PROVE  /\ t \in Counting' <=> t \in Counting
                 /\ t \in Removing' <=> t \in Removing
      <4>1. th[t].pc = "idle" /\ th'[t].pc # "count_up"
        BY <3>3, CallMoves DEF Call, Goes, PopTarget
      <4>2. th[t].op = "none"  BY <4>1 DEF CallsSound, At
      <4>3. th'[t].op = "remove" => th'[t].pc = "rem_swap"
        BY <3>3, <4>2, OpCalls, CallMoves DEF Call
      <4>. QED  BY <4>1, <4>2, <4>3 DEF Counting, Removing, At
    <3>. QED  BY <3>1, <3>2, <3>3, OpMoves
  <2>2. Occupied(x)' <=> Occupied(x)  BY <1>4, <1>10
  <2>3. num_elems' = num_elems /\ uncounted' = uncounted  BY <1>3, <1>10
  <2>. QED  BY <1>1, <1>2, <2>1, <2>2, <2>3 DEF One
<1>. QED  BY <1>2, <1>5, <1>6, <1>7, <1>8, <1>9, <1>10

LEMMA CountStep ==
  ASSUME Core, CallsSound, CountExact, NEW t \in Thread, Call(t) \/ Step(t)
  PROVE  CountExact'
<1>1. num_elems = Elements % CountMod  BY DEF CountExact, Elements, OccupiedSlots
<1>2. /\ Elements \in Int /\ Elements' \in Int
      /\ \/ Elements' = Elements /\ num_elems' = num_elems
         \/ Elements' = Elements + 1 /\ num_elems' = (num_elems + 1) % CountMod
         \/ Elements' = Elements - 1 /\ num_elems' = (num_elems - 1) % CountMod
  BY ElementsStep
<1>. DEFINE e == Elements  n == Elements'
<1>3. n % CountMod = num_elems'
  <2>1. e \in Int /\ n \in Int  BY <1>2
  <2>2. ((e % CountMod) + 1) % CountMod = (e + 1) % CountMod
    <3>. HIDE DEF e
    <3>. QED  BY <2>1, Wrapped
  <2>3. ((e % CountMod) + -1) % CountMod = (e + -1) % CountMod
    <3>. HIDE DEF e
    <3>. QED  BY <2>1, Wrapped
  <2>4. e % CountMod \in Int /\ CountMod \in Nat \ {0}
    <3>. HIDE DEF e
    <3>. QED  BY <2>1, Division, SlotMapAssumption
  <2>5. \/ n = e /\ num_elems' = e % CountMod
        \/ n = e + 1 /\ num_elems' = ((e % CountMod) + 1) % CountMod
        \/ n = e - 1 /\ num_elems' = ((e % CountMod) - 1) % CountMod
    BY <1>1, <1>2
  <2>. HIDE DEF e, n
  <2>6. (e % CountMod) - 1 = (e % CountMod) + -1 /\ e - 1 = e + -1  BY <2>1, <2>4
  <2>. QED  BY <2>2, <2>3, <2>5, <2>6
<1>. QED  BY <1>3 DEF CountExact, Elements, OccupiedSlots

----------------------------------------------------------------------------
(* The cap on references *)

LEMMA CapStep ==
  ASSUME Core, CapRespected, NEW t \in Thread, Call(t) \/ Step(t)
  PROVE  CapRespected'
<1>1. /\ th \in [Thread -> ThreadState] /\ th[t] \in ThreadState
      /\ \A u \in Thread \ {t} : th'[u] = th[u]
  BY Others DEF Core, TypeOK
<1>2. ASSUME th'[t].pc = "acquire"  PROVE th'[t].rc <= MAX_REFCOUNT
  <2>1. ASSUME Call(t)  PROVE \E k \in Key, g \in Guard : BeginGet(t, k, g)
    BY <1>2, <2>1, CallMoves DEF Call, Goes, PopTarget
  <2>2. CASE Call(t)  BY <2>1, <2>2, OpCalls
  <2>3. CASE Step(t)
    <3>1. AcquireRetry(t) /\ th[t].pc = "acquire"
      BY <1>2, <2>3, InsertMoves, OtherMoves
      DEF Step, InsertStep, PopStep, GetStep, RemoveStep, PushStep, DropStep, Goes, PopTarget
    <3>. DEFINE count == ref_count[th[t].idx]
    <3>2. Acquirable(count) /\ th'[t] = [th[t] EXCEPT !.rc = count]
      BY <1>1, <1>2, <3>1 DEF AcquireRetry, Become, Return, Idle
    <3>3. th'[t].rc = count  BY <1>1, <3>2 DEF ThreadState
    <3>. QED  BY <3>2, <3>3, SlotMapAssumption DEF Acquirable
  <2>. QED  BY <2>2, <2>3
<1>. QED  BY <1>1, <1>2 DEF CapRespected, At

\* How a step may raise a reference count.
LEMMA RefGrows ==
  ASSUME Core, CapRespected, NEW t \in Thread, Call(t) \/ Step(t), NEW s \in Slot
  PROVE  ref_count'[s] <= ref_count[s] \/ ref_count'[s] <= MAX_REFCOUNT + 1
<1>1. /\ th[t] \in ThreadState /\ th[t].idx \in Slot /\ ref_count \in [Slot -> Nat]
      /\ guard \in [Guard -> Key \cup {None}] /\ MAX_REFCOUNT \in Nat /\ MAX_REFCOUNT >= 1
  BY SlotMapAssumption DEF Core, TypeOK, ThreadState
<1>2. CASE ref_count' = ref_count  BY <1>1, <1>2
<1>3. CASE StoreRef(t)  BY <1>1, <1>3 DEF StoreRef
<1>4. CASE AcquireSwap(t)
  <2>1. /\ ref_count' = [ref_count EXCEPT ![th[t].idx] = @ + 1]
        /\ ref_count[th[t].idx] <= MAX_REFCOUNT
    BY <1>4 DEF AcquireSwap, CapRespected
  <2>. QED  BY <1>1, <2>1
<1>5. CASE UndoAcquire(t) \/ RemoveDec(t)
  <2>1. ref_count' = [ref_count EXCEPT ![th[t].idx] = @ - 1]
    BY <1>5 DEF UndoAcquire, RemoveDec, DecRefCount
  <2>. QED  BY <1>1, <2>1
<1>6. ASSUME NEW g \in Guard, DropGuard(t, g)  PROVE ref_count'[s] <= ref_count[s]
  <2>1. ref_count' = [ref_count EXCEPT ![guard[g].idx] = @ - 1]
    BY <1>6 DEF DropGuard, DecRefCount
  <2>. QED  BY <1>1, <2>1
<1>7. \/ ref_count' = ref_count \/ StoreRef(t) \/ AcquireSwap(t)
      \/ UndoAcquire(t) \/ RemoveDec(t) \/ \E g \in Guard : DropGuard(t, g)
  BY DEF Call, Step, InsertStep, PopStep, GetStep, RemoveStep, PushStep, DropStep,
         BeginInsert, BeginGet, BeginRemove, PopReadNext, PopSwap, PopRetry,
         PushZeroed, EnsureChunk, LoadVersion, WriteValue, CallErr, CallPanics,
         StoreVersion, CountUp, AcquireRetry, CheckVersion, CheckFails,
         RemoveSwap, RemoveFails, CountDown, DropValue,
         DropValuePanics, PushLoad, PushStoreNext, PushSwap, PushRetry,
         vecVars, slotVars, mapVars, history, lossVars
<1>. QED  BY <1>2, <1>3, <1>4, <1>5, <1>6, <1>7

Stuck(s) == RefGuards(s) \cap stranded

LEMMA StuckFinite ==
  ASSUME NEW s \in Slot
  PROVE  /\ IsFiniteSet(Stuck(s)) /\ Cardinality(Stuck(s)) \in Nat
         /\ IsFiniteSet(Stuck(s)') /\ Cardinality(Stuck(s)') \in Nat
<1>1. IsFiniteSet(Guard) /\ Stuck(s) \subseteq Guard /\ Stuck(s)' \subseteq Guard
  BY SlotMapAssumption DEF Stuck, RefGuards
<1>. QED  BY <1>1, FS_Subset, FS_CardinalityType

LEMMA BoundedStep ==
  ASSUME Core, CapRespected, ReferencesBounded, NEW t \in Thread, Call(t) \/ Step(t)
  PROVE  ReferencesBounded'
<1>1. /\ ref_count \in [Slot -> Nat] /\ ref_count' \in [Slot -> Nat] /\ MAX_REFCOUNT \in Nat
  BY TypeStep, SlotMapAssumption DEF Core, TypeOK
<1>2. ASSUME NEW s \in Slot
      PROVE  ref_count'[s] - Cardinality(Stuck(s)') <= MAX_REFCOUNT + 1
  <2>1. Stuck(s) \subseteq Stuck(s)'
    <3>1. ASSUME NEW g \in Stuck(s)  PROVE g \in Stuck(s)'
      <4>1. g \in Guard /\ guard[g] # None /\ guard[g].idx = s /\ g \in stranded
        BY DEF Stuck, RefGuards
      <4>2. ~(CheckVersion(t) /\ g = th[t].out)
        BY <4>1 DEF CheckVersion, At, Core, GuardsReserved
      <4>3. guard'[g] = guard[g]  BY <4>1, <4>2, GuardMoves
      <4>. QED  BY <4>1, <4>3, DataStep DEF Stuck, RefGuards
    <3>. QED  BY <3>1
  <2>2. Cardinality(Stuck(s)) <= Cardinality(Stuck(s)')
    BY <2>1, StuckFinite, FS_Subset
  <2>3. ref_count[s] - Cardinality(Stuck(s)) <= MAX_REFCOUNT + 1
    BY DEF ReferencesBounded, Stuck
  <2>4. ref_count'[s] <= ref_count[s] \/ ref_count'[s] <= MAX_REFCOUNT + 1  BY RefGrows
  <2>. QED  BY <1>1, <2>2, <2>3, <2>4, StuckFinite
<1>. QED  BY <1>2 DEF ReferencesBounded, Stuck

\* A clone over the cap adds to the references of no one.
LEMMA BoundedClone ==
  ASSUME Core, ReferencesBounded, NEW g \in Guard, NEW h \in Guard, CloneGuard(g, h)
  PROVE  ReferencesBounded'
<1>1. /\ ref_count \in [Slot -> Nat] /\ MAX_REFCOUNT \in Nat
      /\ guard \in [Guard -> Key \cup {None}]
  BY SlotMapAssumption DEF Core, TypeOK
<1>2. /\ guard[g] # None /\ guard[h] = None
      /\ ref_count' = [ref_count EXCEPT ![guard[g].idx] = @ + 1]
      /\ guard' = [guard EXCEPT ![h] = guard[g]]
      /\ stranded' = IF ref_count[guard[g].idx] > MAX_REFCOUNT
                     THEN stranded \cup {h} ELSE stranded
  BY DEF CloneGuard, Unused
<1>3. guard'[h] = guard[g] /\ \A x \in Guard : x # h => guard'[x] = guard[x]  BY <1>1, <1>2
<1>4. ASSUME NEW s \in Slot
      PROVE  ref_count'[s] - Cardinality(Stuck(s)') <= MAX_REFCOUNT + 1
  <2>1. ref_count[s] - Cardinality(Stuck(s)) <= MAX_REFCOUNT + 1
    BY DEF ReferencesBounded, Stuck
  <2>2. Stuck(s) \subseteq Stuck(s)'
    BY <1>2, <1>3 DEF Stuck, RefGuards
  <2>3. Cardinality(Stuck(s)) <= Cardinality(Stuck(s)')
    BY <2>2, StuckFinite, FS_Subset
  <2>4. CASE guard[g].idx # s
    <3>1. ref_count'[s] = ref_count[s]  BY <1>1, <1>2, <2>4
    <3>. QED  BY <1>1, <2>1, <2>3, <3>1, StuckFinite
  <2>5. CASE guard[g].idx = s /\ ref_count[s] <= MAX_REFCOUNT
    <3>1. ref_count'[s] = ref_count[s] + 1  BY <1>1, <1>2, <2>5
    <3>. QED  BY <1>1, <2>5, <3>1, StuckFinite
  <2>6. CASE guard[g].idx = s /\ ref_count[s] > MAX_REFCOUNT
    <3>1. ref_count'[s] = ref_count[s] + 1  BY <1>1, <1>2, <2>6
    <3>2. h \notin Stuck(s) /\ h \in Stuck(s)'
      BY <1>2, <1>3, <2>6 DEF Stuck, RefGuards
    <3>3. Stuck(s) \ {h} = Stuck(s)' \ {h}
      BY <1>2, <1>3, <2>6 DEF Stuck, RefGuards
    <3>4. Cardinality(Stuck(s)') = Cardinality(Stuck(s)) + 1
      BY <3>2, <3>3, StuckFinite, OneMore
    <3>. QED  BY <1>1, <2>1, <3>1, <3>4, StuckFinite
  <2>. QED  BY <1>1, <2>4, <2>5, <2>6
<1>. QED  BY <1>4 DEF ReferencesBounded, Stuck

----------------------------------------------------------------------------
(* The theorems *)

Counts == CallsSound /\ CountExact /\ CapRespected /\ ReferencesBounded
CountInv == IInv /\ (NoTagWrap => Counts)

LEMMA InitCountInv == ASSUME Init  PROVE CountInv
<1>1. /\ \A t \in Thread : th[t] = Idle
      /\ \A s \in Slot : ref_count[s] = 0 /\ version[s] = 0
      /\ num_elems = 0 /\ uncounted = 0 /\ stranded = {}
  BY DEF Init
<1>2. Idle.pc = "idle" /\ Idle.op = "none"  BY DEF Idle
<1>3. CallsSound /\ CapRespected
  BY <1>1, <1>2 DEF CallsSound, CapRespected, At, InsertPC
<1>4. CountExact
  <2>1. \A s \in Slot : ~Occupied(s)  BY <1>1 DEF Occupied
  <2>2. {s \in Slot : Occupied(s)} = {} /\ Counting = {} /\ Removing = {}
    BY <1>1, <1>2, <2>1 DEF Counting, Removing, At
  <2>3. 0 % CountMod = 0  BY SlotMapAssumption
  <2>. QED  BY <1>1, <2>2, <2>3, FS_EmptySet DEF CountExact
<1>5. ReferencesBounded
  <2>1. \A s \in Slot : RefGuards(s) \cap stranded = {}  BY <1>1
  <2>2. MAX_REFCOUNT \in Nat  BY SlotMapAssumption
  <2>. QED  BY <1>1, <2>1, <2>2, FS_EmptySet DEF ReferencesBounded
<1>. QED  BY <1>3, <1>4, <1>5, InitInv DEF CountInv, Counts

LEMMA StepCountInv ==
  ASSUME CountInv, [Next]_vars
  PROVE  CountInv'
<1>1. IInv'  BY StepInv DEF CountInv
<1>2. ASSUME NoTagWrap'  PROVE Counts'
  <2>1. NoTagWrap
    <3>1. free_head.tag \in Nat /\ free_head'.tag \in Nat /\ free_head'.tag >= free_head.tag
      BY TagGrows DEF CountInv, IInv
    <3>. QED  BY <1>2, <3>1, SlotMapAssumption DEF NoTagWrap
  <2>2. Core /\ CallsSound /\ CountExact /\ CapRespected /\ ReferencesBounded
    BY <2>1 DEF CountInv, Counts, IInv
  <2>3. ASSUME NEW t \in Thread, Call(t) \/ Step(t)  PROVE Counts'
    BY <2>2, <2>3, CallsStep, CountStep, CapStep, BoundedStep DEF Counts
  <2>4. ASSUME UNCHANGED <<th, version, num_elems, uncounted>>
        PROVE  CallsSound' /\ CountExact' /\ CapRespected'
    BY <2>2, <2>4 DEF CallsSound, CountExact, CapRespected, At, Occupied, Counting, Removing
  <2>5. ASSUME NEW g \in Guard, NEW h \in Guard, CloneGuard(g, h)  PROVE Counts'
    <3>1. UNCHANGED <<th, version, num_elems, uncounted>>  BY <2>5 DEF CloneGuard
    <3>. QED  BY <2>2, <2>4, <2>5, <3>1, BoundedClone DEF Counts
  <2>6. CASE CloseMap \/ DropMap \/ UNCHANGED vars
    <3>1. UNCHANGED <<th, version, num_elems, uncounted, ref_count, guard, stranded>>
      BY <2>6 DEF CloseMap, DropMap, vars, slotVars, mapVars, history, lossVars
    <3>2. ReferencesBounded'  BY <2>2, <3>1 DEF ReferencesBounded, RefGuards
    <3>. QED  BY <2>4, <3>1, <3>2 DEF Counts
  <2>. QED  BY <2>3, <2>5, <2>6 DEF Next, Freed
<1>. QED  BY <1>1, <1>2 DEF CountInv

\* As long as the tag of free_head has not wrapped, num_elems is the number of
\* occupied slots, but for the calls that published or removed and did not count
\* yet, and the removals whose decrement a panicking destructor skipped
\* (lossy_len; insert and remove count after they take effect).
THEOREM ElementsCounted == Spec => [](NoTagWrap => CountExact)
<1>1. Init => CountInv  BY InitCountInv
<1>2. CountInv /\ [Next]_vars => CountInv'  BY StepCountInv
<1>3. CountInv => (NoTagWrap => CountExact)  BY DEF CountInv, Counts
<1>. QED  BY <1>1, <1>2, <1>3, PTL DEF Spec

\* Under the same condition at most one reference more than MAX_REFCOUNT is in
\* use on a slot: gets check before they count, and a clone that counts first
\* panics (slot.rs, acquire_guard; owning_guard.rs, Clone).
THEOREM Capped == Spec => [](NoTagWrap => ReferencesBounded)
<1>1. Init => CountInv  BY InitCountInv
<1>2. CountInv /\ [Next]_vars => CountInv'  BY StepCountInv
<1>3. CountInv => (NoTagWrap => ReferencesBounded)  BY DEF CountInv, Counts
<1>. QED  BY <1>1, <1>2, <1>3, PTL DEF Spec

\* Under the same condition a reference count reaches the width of its word only
\* after as many clones over the cap as the cap leaves room for: 255 in the
\* source, each of which panicked (slot.rs:6-9, "prevent leaked references from
\* overflowing the reference count").
THEOREM Fits ==
  Spec => [](NoTagWrap /\ MAX_REFCOUNT + 1 + Cardinality(stranded) < RefMod => RefCountFits)
<1>1. Init => CountInv  BY InitCountInv
<1>2. CountInv /\ [Next]_vars => CountInv'  BY StepCountInv
<1>3. CountInv => (NoTagWrap /\ MAX_REFCOUNT + 1 + Cardinality(stranded) < RefMod
                     => RefCountFits)
  <2>1. ASSUME Core, ReferencesBounded, MAX_REFCOUNT + 1 + Cardinality(stranded) < RefMod,
               NEW s \in Slot
        PROVE  ref_count[s] < RefMod
    <3>1. ref_count[s] \in Nat /\ MAX_REFCOUNT \in Nat /\ RefMod \in Nat
      BY <2>1, SlotMapAssumption DEF Core, TypeOK
    <3>2. IsFiniteSet(stranded) /\ Cardinality(stranded) \in Nat
      BY <2>1, SlotMapAssumption, FS_Subset, FS_CardinalityType DEF Core, TypeOK
    <3>3. Cardinality(Stuck(s)) <= Cardinality(stranded) /\ Cardinality(Stuck(s)) \in Nat
      BY <3>2, StuckFinite, FS_Subset DEF Stuck
    <3>4. ref_count[s] - Cardinality(Stuck(s)) <= MAX_REFCOUNT + 1
      BY <2>1 DEF ReferencesBounded, Stuck
    <3>. QED  BY <2>1, <3>1, <3>2, <3>3, <3>4
  <2>. QED  BY <2>1 DEF CountInv, Counts, IInv, RefCountFits
<1>. QED  BY <1>1, <1>2, <1>3, PTL DEF Spec

=============================================================================
