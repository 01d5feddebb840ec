------------------------------ MODULE SlotMap ------------------------------
(***************************************************************************)
(* AtomicSlotMap: threads insert, get, clone, drop guards and remove       *)
(* through shared atomic words, without a lock.  Every load, store and     *)
(* compare-exchange of a shared word is one step; what a thread does with  *)
(* its own locals is part of the step before it.  Steps interleave in      *)
(* every order (sequential consistency).                                   *)
(*                                                                         *)
(* A call that returns having read without writing anything (get or remove *)
(* of a key the first load already refutes, contains_key) is a stuttering  *)
(* step and has no action.                                                 *)
(***************************************************************************)
EXTENDS Integers, Sequences, FiniteSets, Location

CONSTANTS
  Thread,        \* threads that share the map
  Guard,         \* names for the SlotGuards and OwningSlotGuards alive at once
  OwningGuard,   \* those that are OwningSlotGuards
  Value,         \* the values moved into insert: each is moved in once
  MaxSlots,      \* bound on the length of the vector (u32::MAX in the source)
  TagMod,        \* the tag of free_head wraps here (2^32 in the source)
  VersionMod,    \* the version of a slot wraps here (2^32)
  CountMod,      \* num_elems wraps here (2^32)
  MAX_REFCOUNT,  \* the cap on the reference count (0xFFFFFF00)
  RefMod,        \* ref_count wraps here (2^32); the model counts on
  Capacity,      \* what with_capacity was called with
  MayPanic,      \* whether insert's closure and V's destructor may panic
  None           \* no value, no guard, no key

Slot == 0 .. MaxSlots - 1
SENTINEL == MaxSlots              \* "no index": one past every valid index
Version == 0 .. VersionMod - 1
Key == [idx : Slot, ver : {v \in Version : v % 2 = 1}]

ASSUME SlotMapAssumption ==
  /\ IsFiniteSet(Thread) /\ IsFiniteSet(Guard) /\ OwningGuard \subseteq Guard
  /\ MaxSlots \in Nat \ {0}
  /\ TagMod \in Nat \ {0} /\ CountMod \in Nat \ {0}
  /\ RefMod \in Nat /\ MAX_REFCOUNT \in 1 .. RefMod - 1 /\ Capacity \in 0 .. MaxSlots
  /\ VersionMod \in Nat \ {0} /\ VersionMod % 2 = 0
  /\ MayPanic \in BOOLEAN
  /\ None \notin Value /\ None \notin Guard /\ None \notin Key

VARIABLES
  len, chunks,                            \* AtomicVec: length, allocated chunks
  free_head,                              \* head of the free list and its tag
  num_elems,
  next_free, ref_count, version, data,    \* the fields of each Slot
  guard,                                  \* the key each live guard holds
  life,                                   \* "open", "closed" (all handles gone), "freed"
  th,                                     \* each thread's program counter and locals
  \* History, read by no guard of the code:
  stack,       \* the free list, its head last
  keyOf,       \* the key each value was published under
  drops,       \* how often each value's destructor ran
  leaked,      \* slots a panic left outside of the map and of the free list
  stranded,    \* guards counted by a clone that panicked: no one holds them
  uncounted    \* removals whose decrement of num_elems a panic skipped

vecVars   == <<len, chunks>>
slotVars  == <<next_free, ref_count, version, data>>
mapVars   == <<free_head, num_elems, life, guard>>
lossVars  == <<leaked, stranded, uncounted>>
history   == <<stack, keyOf, drops, lossVars>>
vars      == <<vecVars, slotVars, mapVars, th, history>>

----------------------------------------------------------------------------
(* Threads *)

\* The places a thread can be suspended at, named after the next access.
PC == {"idle", "pop_next", "pop_swap", "push_zeroed", "ensure_chunk",
       "load_version", "call", "store_ref", "store_version", "count_up",
       "acquire", "check", "undo", "rem_swap", "rem_dec", "count_down",
       "drop_value", "push_load", "push_next", "push_swap"}

FreeHead == [tag : Nat, idx : Slot \cup {SENTINEL}]

Idle == [pc |-> "idle", op |-> "none", idx |-> 0, ver |-> 0, val |-> None,
         head |-> [tag |-> 0, idx |-> SENTINEL], next |-> SENTINEL,
         rc |-> 0, out |-> None]

\* Thread t goes on in state r; all others stay where they are.
Become(t, r) == th' = [th EXCEPT ![t] = r]

Return(t) == Become(t, Idle)

At(t, pc) == th[t].pc = pc

\* A guard name is free when no guard has it and no get is about to use it.
Unused(g) == guard[g] = None /\ \A t \in Thread : th[t].out # g

\* A value is fresh until insert takes it.
Fresh(v) == keyOf[v] = None /\ drops[v] = 0 /\ \A t \in Thread : th[t].val # v

\* The slots an operation on the map can reach: AtomicVec::get and
\* get_unchecked spin until the chunk of an index below len is there (the spin
\* is in SlotMapLiveness).
Reachable(s) == s < len /\ ChunkOf(s) \in chunks

\* Mutant: the exchange compares the index alone, as a list without a tag.
SameWord_NoTag(h1, h2) == h1.idx = h2.idx

\* free_head packs the tag into 32 bits, so a compare-exchange sees the tag
\* modulo TagMod; the model keeps the full count to state properties with.
SameWord(h1, h2) == h1.tag % TagMod = h2.tag % TagMod /\ h1.idx = h2.idx

\* The chunks that AtomicVec::reserve sees to.
ChunksFor(target_cap) == {ChunkOf(i) : i \in 0 .. target_cap - 1}

Init ==
  /\ len = 0 /\ chunks = ChunksFor(Capacity)
  /\ free_head = [tag |-> 0, idx |-> SENTINEL]
  /\ num_elems = 0
  /\ next_free = [s \in Slot |-> 0] /\ ref_count = [s \in Slot |-> 0]
  /\ version = [s \in Slot |-> 0] /\ data = [s \in Slot |-> None]
  /\ guard = [g \in Guard |-> None]
  /\ life = "open"
  /\ th = [t \in Thread |-> Idle]
  /\ stack = <<>>
  /\ keyOf = [v \in Value |-> None] /\ drops = [v \in Value |-> 0]
  /\ leaked = {} /\ stranded = {} /\ uncounted = 0

----------------------------------------------------------------------------
(* try_insert_with_key *)

PopTarget(h) == IF h.idx = SENTINEL THEN "push_zeroed" ELSE "pop_next"

\* pop_free_index loads free_head; an empty list means a new slot is pushed.
BeginInsert(t, v) ==
  /\ life = "open" /\ At(t, "idle") /\ Fresh(v)
  /\ Become(t, [th[t] EXCEPT !.pc = PopTarget(free_head), !.op = "insert",
                            !.val = v, !.head = free_head])
  /\ UNCHANGED <<vecVars, slotVars, mapVars, history>>

PopReadNext(t) ==
  /\ At(t, "pop_next")
  /\ Become(t, [th[t] EXCEPT !.next = next_free[th[t].head.idx], !.pc = "pop_swap"])
  /\ UNCHANGED <<vecVars, slotVars, mapVars, history>>

PopSwap(t) ==
  /\ At(t, "pop_swap") /\ SameWord(free_head, th[t].head)
  /\ free_head' = [tag |-> free_head.tag + 1, idx |-> th[t].next]
  /\ stack' = SubSeq(stack, 1, Len(stack) - 1)
  /\ Become(t, [th[t] EXCEPT !.pc = "load_version", !.idx = th[t].head.idx,
                            !.head = Idle.head, !.next = SENTINEL])
  /\ UNCHANGED <<vecVars, slotVars, num_elems, life, guard, keyOf, drops, lossVars>>

\* compare_exchange_weak failed, on another head or spuriously.
PopRetry(t) ==
  /\ At(t, "pop_swap")
  /\ Become(t, [th[t] EXCEPT !.pc = PopTarget(free_head), !.head = free_head,
                            !.next = SENTINEL])
  /\ UNCHANGED <<vecVars, slotVars, mapVars, history>>

\* Mutant: a reused slot is given the version of a fresh one.
LoadVersion_First(t) ==
  /\ At(t, "load_version")
  /\ Become(t, [th[t] EXCEPT !.pc = "call", !.ver = 1])
  /\ UNCHANGED <<vecVars, slotVars, mapVars, history>>

LoadVersion(t) ==
  /\ At(t, "load_version")
  /\ LET cur == version[th[t].idx]
         occupied_version == IF cur % 2 = 0 THEN cur + 1 ELSE cur
     IN  Become(t, [th[t] EXCEPT !.pc = "call", !.ver = occupied_version])
  /\ UNCHANGED <<vecVars, slotVars, mapVars, history>>

\* push_zeroed takes the index first and makes sure of its chunk afterwards.
PushZeroed(t) ==
  /\ At(t, "push_zeroed") /\ len < MaxSlots
  /\ len' = len + 1
  /\ Become(t, [th[t] EXCEPT !.pc = "ensure_chunk", !.idx = len, !.ver = 1,
                            !.head = Idle.head])
  /\ UNCHANGED <<chunks, slotVars, mapVars, history>>

\* Mutant: the chunk of the index before is ensured.
EnsureChunk_Before(t) ==
  /\ At(t, "ensure_chunk")
  /\ chunks' = chunks \cup {ChunkOf(IF th[t].idx = 0 THEN 0 ELSE th[t].idx - 1)}
  /\ Become(t, [th[t] EXCEPT !.pc = "call"])
  /\ UNCHANGED <<len, slotVars, mapVars, history>>

EnsureChunk(t) ==
  /\ At(t, "ensure_chunk")
  /\ chunks' = chunks \cup {ChunkOf(th[t].idx)}
  /\ Become(t, [th[t] EXCEPT !.pc = "call"])
  /\ UNCHANGED <<len, slotVars, mapVars, history>>

\* Mutant: the map's own reference is never stored.
WriteValue_NoRef(t) ==
  /\ At(t, "call")
  /\ data' = [data EXCEPT ![th[t].idx] = th[t].val]
  /\ Become(t, [th[t] EXCEPT !.pc = "store_version"])
  /\ UNCHANGED <<vecVars, next_free, ref_count, version, mapVars, history>>

\* The closure f returns Ok: the value is written into the slot.
WriteValue(t) ==
  /\ At(t, "call")
  /\ data' = [data EXCEPT ![th[t].idx] = th[t].val]
  /\ Become(t, [th[t] EXCEPT !.pc = "store_ref"])
  /\ UNCHANGED <<vecVars, next_free, ref_count, version, mapVars, history>>

\* Mutant: the slot of a failed insertion is forgotten.
CallErr_NoPush(t) ==
  /\ At(t, "call")
  /\ drops' = [drops EXCEPT ![th[t].val] = @ + 1]
  /\ Return(t)
  /\ UNCHANGED <<vecVars, slotVars, mapVars, stack, keyOf, lossVars>>

\* f returns Err: it consumed what it would have inserted, and the slot goes
\* back to the free list.
CallErr(t) ==
  /\ At(t, "call")
  /\ drops' = [drops EXCEPT ![th[t].val] = @ + 1]
  /\ Become(t, [th[t] EXCEPT !.pc = "push_load", !.val = None, !.ver = 0])
  /\ UNCHANGED <<vecVars, slotVars, mapVars, stack, keyOf, lossVars>>

\* f panics: the call unwinds and nothing returns the slot to the free list.
CallPanics(t) ==
  /\ At(t, "call") /\ MayPanic
  /\ drops' = [drops EXCEPT ![th[t].val] = @ + 1]
  /\ leaked' = leaked \cup {th[t].idx}
  /\ Return(t)
  /\ UNCHANGED <<vecVars, slotVars, mapVars, stack, keyOf, stranded, uncounted>>

StoreRef(t) ==
  /\ At(t, "store_ref")
  /\ ref_count' = [ref_count EXCEPT ![th[t].idx] = 1]
  /\ Become(t, [th[t] EXCEPT !.pc = "store_version"])
  /\ UNCHANGED <<vecVars, next_free, version, data, mapVars, history>>

\* From here on the key finds the value: the insertion takes effect.
StoreVersion(t) ==
  /\ At(t, "store_version")
  /\ version' = [version EXCEPT ![th[t].idx] = th[t].ver]
  /\ keyOf' = [keyOf EXCEPT ![th[t].val] = [idx |-> th[t].idx, ver |-> th[t].ver]]
  /\ Become(t, [Idle EXCEPT !.pc = "count_up", !.op = "insert"])
  /\ UNCHANGED <<vecVars, next_free, ref_count, data, mapVars, stack, drops, lossVars>>

CountUp(t) ==
  /\ At(t, "count_up")
  /\ num_elems' = (num_elems + 1) % CountMod
  /\ Return(t)
  /\ UNCHANGED <<vecVars, slotVars, free_head, life, guard, history>>

----------------------------------------------------------------------------
(* get, get_owning: acquire_guard *)

\* Mutant: no cap on the count.
Acquirable_NoCap(count) == count > 0

\* The counts acquire_guard goes on from: zero is a failed get, and a count
\* over the cap is a failed assertion; both leave the slot as it is.
Acquirable(count) == count \in 1 .. MAX_REFCOUNT

\* Any key may be asked for, a stale or a forged one too.
BeginGet(t, k, g) ==
  /\ life = "open" /\ At(t, "idle") /\ Unused(g) /\ Reachable(k.idx)
  /\ Acquirable(ref_count[k.idx])
  /\ Become(t, [th[t] EXCEPT !.pc = "acquire", !.op = "get", !.idx = k.idx,
                            !.ver = k.ver, !.rc = ref_count[k.idx], !.out = g])
  /\ UNCHANGED <<vecVars, slotVars, mapVars, history>>

\* Mutant: a plain fetch_add, which may revive a count that dropped to zero.
AcquireSwap_FetchAdd(t) ==
  /\ At(t, "acquire")
  /\ ref_count' = [ref_count EXCEPT ![th[t].idx] = @ + 1]
  /\ Become(t, [th[t] EXCEPT !.pc = "check", !.rc = 0])
  /\ UNCHANGED <<vecVars, next_free, version, data, mapVars, history>>

AcquireSwap(t) ==
  /\ At(t, "acquire") /\ ref_count[th[t].idx] = th[t].rc
  /\ ref_count' = [ref_count EXCEPT ![th[t].idx] = @ + 1]
  /\ Become(t, [th[t] EXCEPT !.pc = "check", !.rc = 0])
  /\ UNCHANGED <<vecVars, next_free, version, data, mapVars, history>>

\* Mutant: a lost race for the count is taken for a missing key.
AcquireRetry_GiveUp(t) ==
  /\ At(t, "acquire")
  /\ Return(t)
  /\ UNCHANGED <<vecVars, slotVars, mapVars, history>>

\* The count changed (or the weak exchange failed spuriously, which repeats).
AcquireRetry(t) ==
  /\ At(t, "acquire")
  /\ LET count == ref_count[th[t].idx]
     IN  IF Acquirable(count) THEN Become(t, [th[t] EXCEPT !.rc = count]) ELSE Return(t)
  /\ UNCHANGED <<vecVars, slotVars, mapVars, history>>

\* Mutant: the version is not looked at again once the reference is held.
CheckVersion_Any(t) ==
  /\ At(t, "check")
  /\ guard' = [guard EXCEPT ![th[t].out] = [idx |-> th[t].idx, ver |-> th[t].ver]]
  /\ Return(t)
  /\ UNCHANGED <<vecVars, slotVars, free_head, num_elems, life, history>>

\* The reference is held: does the slot still carry the version of the key?
CheckVersion(t) ==
  /\ At(t, "check") /\ version[th[t].idx] = th[t].ver
  /\ guard' = [guard EXCEPT ![th[t].out] = [idx |-> th[t].idx, ver |-> th[t].ver]]
  /\ Return(t)
  /\ UNCHANGED <<vecVars, slotVars, free_head, num_elems, life, history>>

\* Mutant: a get that meets an insertion between its two stores waits for it.
CheckFails_Wait(t) ==
  /\ At(t, "check") /\ version[th[t].idx] # th[t].ver
  /\ Become(t, IF \E u \in Thread : At(u, "store_version") /\ th[u].idx = th[t].idx
               THEN [th[t] EXCEPT !.rc = 1 - @]
               ELSE [th[t] EXCEPT !.pc = "undo", !.rc = 0, !.ver = 0, !.out = None])
  /\ UNCHANGED <<vecVars, slotVars, mapVars, history>>

CheckFails(t) ==
  /\ At(t, "check") /\ version[th[t].idx] # th[t].ver
  /\ Become(t, [th[t] EXCEPT !.pc = "undo", !.ver = 0, !.out = None])
  /\ UNCHANGED <<vecVars, slotVars, mapVars, history>>

\* dec_ref_count, and where the caller goes with its result: to drop the
\* value if this was the last reference, or on to otherwise.
DecRefCount(s) == ref_count' = [ref_count EXCEPT ![s] = @ - 1]
LastRef(s) == ref_count[s] = 1

\* Mutant: a stale get leaves it to others to destroy the value.
UndoAcquire_Ignore(t) ==
  /\ At(t, "undo")
  /\ DecRefCount(th[t].idx)
  /\ Return(t)
  /\ UNCHANGED <<vecVars, next_free, version, data, mapVars, history>>

\* The stale reference may have become the last one: then get, not remove,
\* destroys the value.
UndoAcquire(t) ==
  /\ At(t, "undo")
  /\ DecRefCount(th[t].idx)
  /\ IF LastRef(th[t].idx) THEN Become(t, [th[t] EXCEPT !.pc = "drop_value"]) ELSE Return(t)
  /\ UNCHANGED <<vecVars, next_free, version, data, mapVars, history>>

----------------------------------------------------------------------------
(* Guards *)

\* Drop of a guard; out remembers which kind it was while the drop runs.
DropGuard(t, g) ==
  /\ At(t, "idle") /\ guard[g] # None /\ g \notin stranded
  /\ LET s == guard[g].idx
     IN  /\ DecRefCount(s)
         /\ Become(t, IF LastRef(s)
                      THEN [th[t] EXCEPT !.pc = "drop_value", !.op = "drop",
                                         !.idx = s, !.out = g]
                      ELSE th[t])
  /\ guard' = [guard EXCEPT ![g] = None]
  /\ UNCHANGED <<vecVars, next_free, version, data, free_head, num_elems, life, history>>

\* Clone increments first and asserts afterwards: a clone over the cap panics
\* with its reference already counted.
CloneGuard(g, h) ==
  /\ g \in OwningGuard /\ guard[g] # None /\ g \notin stranded
  /\ h \in OwningGuard /\ Unused(h)
  /\ ref_count' = [ref_count EXCEPT ![guard[g].idx] = @ + 1]
  /\ guard' = [guard EXCEPT ![h] = guard[g]]
  /\ stranded' = IF ref_count[guard[g].idx] > MAX_REFCOUNT
                 THEN stranded \cup {h} ELSE stranded
  /\ UNCHANGED <<vecVars, next_free, version, data, free_head, num_elems, life,
                 th, stack, keyOf, drops, leaked, uncounted>>

----------------------------------------------------------------------------
(* remove *)

BeginRemove(t, k) ==
  /\ life = "open" /\ At(t, "idle") /\ Reachable(k.idx) /\ version[k.idx] = k.ver
  /\ Become(t, [th[t] EXCEPT !.pc = "rem_swap", !.op = "remove",
                            !.idx = k.idx, !.ver = k.ver])
  /\ UNCHANGED <<vecVars, slotVars, mapVars, history>>

\* Mutant: the version is stored without a comparison.
RemoveSwap_Store(t) ==
  /\ At(t, "rem_swap")
  /\ version' = [version EXCEPT ![th[t].idx] = (th[t].ver + 1) % VersionMod]
  /\ Become(t, [th[t] EXCEPT !.pc = "rem_dec", !.ver = 0])
  /\ UNCHANGED <<vecVars, next_free, ref_count, data, mapVars, history>>

\* The removal takes effect: the key finds nothing from here on.
RemoveSwap(t) ==
  /\ At(t, "rem_swap") /\ version[th[t].idx] = th[t].ver
  /\ version' = [version EXCEPT ![th[t].idx] = (@ + 1) % VersionMod]
  /\ Become(t, [th[t] EXCEPT !.pc = "rem_dec", !.ver = 0])
  /\ UNCHANGED <<vecVars, next_free, ref_count, data, mapVars, history>>

\* Another thread removed the key first.
RemoveFails(t) ==
  /\ At(t, "rem_swap") /\ version[th[t].idx] # th[t].ver
  /\ Return(t)
  /\ UNCHANGED <<vecVars, slotVars, mapVars, history>>

\* Mutant: only the removal that destroys the value is counted.
RemoveDec_Uncounted(t) ==
  /\ At(t, "rem_dec")
  /\ DecRefCount(th[t].idx)
  /\ IF LastRef(th[t].idx) THEN Become(t, [th[t] EXCEPT !.pc = "drop_value"]) ELSE Return(t)
  /\ UNCHANGED <<vecVars, next_free, version, data, mapVars, history>>

RemoveDec(t) ==
  /\ At(t, "rem_dec")
  /\ DecRefCount(th[t].idx)
  /\ Become(t, [th[t] EXCEPT !.pc = IF LastRef(th[t].idx) THEN "drop_value" ELSE "count_down"])
  /\ UNCHANGED <<vecVars, next_free, version, data, mapVars, history>>

CountDown(t) ==
  /\ At(t, "count_down")
  /\ num_elems' = (num_elems - 1) % CountMod
  /\ Return(t)
  /\ UNCHANGED <<vecVars, slotVars, free_head, life, guard, history>>

----------------------------------------------------------------------------
(* drop_inner_value and push_free_index, called by get, remove and Drop *)

Destroy(s) == drops' = [drops EXCEPT ![data[s]] = @ + 1]

DropValue(t) ==
  /\ At(t, "drop_value")
  /\ Destroy(th[t].idx)
  /\ Become(t, [th[t] EXCEPT !.pc = "push_load"])
  /\ UNCHANGED <<vecVars, slotVars, mapVars, stack, keyOf, lossVars>>

\* The destructor of V panics: the slot is not pushed, and a remove does not
\* get to its decrement of num_elems.
DropValuePanics(t) ==
  /\ At(t, "drop_value") /\ MayPanic
  /\ Destroy(th[t].idx)
  /\ leaked' = leaked \cup {th[t].idx}
  /\ uncounted' = uncounted + (IF th[t].op = "remove" THEN 1 ELSE 0)
  /\ Return(t)
  /\ UNCHANGED <<vecVars, slotVars, mapVars, stack, keyOf, stranded>>

PushLoad(t) ==
  /\ At(t, "push_load")
  /\ Become(t, [th[t] EXCEPT !.pc = "push_next", !.head = free_head])
  /\ UNCHANGED <<vecVars, slotVars, mapVars, history>>

PushStoreNext(t) ==
  /\ At(t, "push_next")
  /\ next_free' = [next_free EXCEPT ![th[t].idx] = th[t].head.idx]
  /\ Become(t, [th[t] EXCEPT !.pc = "push_swap"])
  /\ UNCHANGED <<vecVars, ref_count, version, data, mapVars, history>>

PushSwap(t) ==
  /\ At(t, "push_swap") /\ SameWord(free_head, th[t].head)
  /\ free_head' = [tag |-> free_head.tag + 1, idx |-> th[t].idx]
  /\ stack' = Append(stack, th[t].idx)
  /\ Become(t, IF th[t].op = "remove"
               THEN [Idle EXCEPT !.pc = "count_down", !.op = "remove"] ELSE Idle)
  /\ UNCHANGED <<vecVars, slotVars, num_elems, life, guard, keyOf, drops, lossVars>>

PushRetry(t) ==
  /\ At(t, "push_swap")
  /\ Become(t, [th[t] EXCEPT !.pc = "push_next", !.head = free_head])
  /\ UNCHANGED <<vecVars, slotVars, mapVars, history>>

----------------------------------------------------------------------------
(* The end of the map *)

\* The last handle goes away.  A SlotGuard borrows the handle, and so does
\* every call but the drop of an OwningSlotGuard.
CloseMap ==
  /\ life = "open"
  /\ \A t \in Thread : th[t].op = "none" \/ (th[t].op = "drop" /\ th[t].out \in OwningGuard)
  /\ \A g \in Guard \ stranded : guard[g] # None => g \in OwningGuard
  /\ life' = "closed"
  /\ UNCHANGED <<vecVars, slotVars, free_head, num_elems, guard, th, history>>

\* Once the last OwningSlotGuard and its Arc are gone the vector is dropped:
\* every slot below len destroys its value if its version is odd.
DropMap ==
  /\ life = "closed"
  /\ \A t \in Thread : At(t, "idle")
  /\ \A g \in Guard \ stranded : guard[g] = None
  /\ life' = "freed"
  /\ drops' = [v \in Value |->
                 drops[v] + Cardinality({s \in Slot : /\ Reachable(s)
                                                      /\ version[s] % 2 = 1
                                                      /\ data[s] = v})]
  /\ UNCHANGED <<vecVars, slotVars, free_head, num_elems, guard, th, stack, keyOf, lossVars>>

----------------------------------------------------------------------------
\* The steps of a call that has begun.
PopStep(t)    == PopReadNext(t) \/ PopSwap(t) \/ PopRetry(t)
InsertStep(t) == \/ PopStep(t) \/ PushZeroed(t) \/ EnsureChunk(t) \/ LoadVersion(t)
                 \/ WriteValue(t) \/ CallErr(t) \/ CallPanics(t)
                 \/ StoreRef(t) \/ StoreVersion(t) \/ CountUp(t)
GetStep(t)    == \/ AcquireSwap(t) \/ AcquireRetry(t)
                 \/ CheckVersion(t) \/ CheckFails(t) \/ UndoAcquire(t)
RemoveStep(t) == RemoveSwap(t) \/ RemoveFails(t) \/ RemoveDec(t) \/ CountDown(t)
PushStep(t)   == PushLoad(t) \/ PushStoreNext(t) \/ PushSwap(t) \/ PushRetry(t)
DropStep(t)   == DropValue(t) \/ DropValuePanics(t)

Step(t) == InsertStep(t) \/ GetStep(t) \/ RemoveStep(t) \/ PushStep(t) \/ DropStep(t)

\* The calls a client makes.
Call(t) ==
  \/ \E v \in Value : BeginInsert(t, v)
  \/ \E k \in Key, g \in Guard : BeginGet(t, k, g)
  \/ \E k \in Key : BeginRemove(t, k)
  \/ \E g \in Guard : DropGuard(t, g)

\* Once freed, the map is gone and nothing runs.
Freed == life = "freed" /\ UNCHANGED vars

Next ==
  \/ \E t \in Thread : Call(t) \/ Step(t)
  \/ \E g, h \in Guard : CloneGuard(g, h)
  \/ CloseMap
  \/ DropMap
  \/ Freed

Spec == Init /\ [][Next]_vars
=============================================================================
