-------------------------- MODULE SlotMapInvariants -------------------------
(***************************************************************************)
(* What must hold of AtomicSlotMap in every reachable state.               *)
(***************************************************************************)
EXTENDS SlotMap

----------------------------------------------------------------------------
(* Types *)

ThreadState ==
  [pc : PC, op : {"none", "insert", "get", "remove", "drop"},
   idx : Slot, ver : Version, val : Value \cup {None},
   head : FreeHead, next : Slot \cup {SENTINEL}, rc : Nat, out : Guard \cup {None}]

\* The shared words, the locals of the threads and the history have their
\* types; in particular no reference count goes below zero and every index
\* that is kept or linked is one of the vector or the sentinel.
TypeOK ==
  /\ len \in 0 .. MaxSlots
  /\ chunks \subseteq {ChunkOf(s) : s \in Slot}
  /\ free_head \in FreeHead
  /\ num_elems \in 0 .. CountMod - 1
  /\ next_free \in [Slot -> Slot \cup {SENTINEL}]
  /\ ref_count \in [Slot -> Nat]
  /\ version \in [Slot -> Version]
  /\ data \in [Slot -> Value \cup {None}]
  /\ guard \in [Guard -> Key \cup {None}]
  /\ life \in {"open", "closed", "freed"}
  /\ th \in [Thread -> ThreadState]
  /\ stack \in Seq(Slot)
  /\ keyOf \in [Value -> Key \cup {None}]
  /\ drops \in [Value -> Nat]
  /\ leaked \subseteq Slot /\ stranded \subseteq Guard /\ uncounted \in Nat

----------------------------------------------------------------------------
(* References *)

Occupied(s) == version[s] % 2 = 1

\* The threads that hold a counted reference to slot s in the middle of a
\* call: insert before it publishes (the map's own reference), remove before
\* it gives the map's reference up, and get while it checks the version.
RefPC == {"store_version", "rem_dec", "check", "undo"}
RefThreads(s) == {t \in Thread : th[t].pc \in RefPC /\ th[t].idx = s}
RefGuards(s) == {g \in Guard : guard[g] # None /\ guard[g].idx = s}
MapRef(s) == IF Occupied(s) THEN 1 ELSE 0

\* The reference count of a slot is exact: it counts the map itself while the
\* slot is occupied, every guard, and every thread in the middle of a call
\* that took a reference, and nothing else (Slot::ref_count, slot.rs:26-29).
RefCountExact ==
  \A s \in Slot : ref_count[s] =
    MapRef(s) + Cardinality(RefGuards(s)) + Cardinality(RefThreads(s))

\* However many gets and clones race near the cap, at most one reference more
\* than MAX_REFCOUNT is ever in use on a slot (slot.rs:6-9): a get or a clone
\* that finds the count over the cap does not return a guard.
ReferencesBounded ==
  \A s \in Slot :
    ref_count[s] - Cardinality(RefGuards(s) \cap stranded) <= MAX_REFCOUNT + 1

\* The count never reaches the width of its word: the cap is there "to prevent
\* leaked references from overflowing the reference count" (slot.rs:6-8).
RefCountFits == \A s \in Slot : ref_count[s] < RefMod

----------------------------------------------------------------------------
(* Ownership *)

\* A thread owns a slot from popping or pushing it until it has published it,
\* and from taking the last reference away until the slot is on the free list.
OwnerPC == {"ensure_chunk", "load_version", "call", "store_ref", "store_version",
            "drop_value", "push_load", "push_next", "push_swap"}
Owns(t, s) == th[t].pc \in OwnerPC /\ th[t].idx = s
OnFreeList(s) == \E i \in 1 .. Len(stack) : stack[i] = s

\* A slot with an owner has no other owner, is not on the free list, is not
\* occupied, and has no reference until its owner stores one: what the code
\* asserts in debug_assert_exclusively_owned and its SAFETY comments rely on.
ExclusiveOwner ==
  \A t \in Thread, s \in Slot : Owns(t, s) =>
    /\ s < len /\ ~Occupied(s) /\ ~OnFreeList(s)
    /\ th[t].pc # "store_version" => ref_count[s] = 0
    /\ \A u \in Thread \ {t} : ~Owns(u, s)

\* The free list is linked from free_head through next_free to the sentinel,
\* without a repetition, and every slot on it is unoccupied, unreferenced and
\* below len: what pop_free_index promises of the index it returns.
FreeListSound ==
  /\ free_head.idx = IF stack = <<>> THEN SENTINEL ELSE stack[Len(stack)]
  /\ \A i \in 1 .. Len(stack) :
       /\ next_free[stack[i]] = IF i = 1 THEN SENTINEL ELSE stack[i - 1]
       /\ stack[i] < len /\ ~Occupied(stack[i]) /\ ref_count[stack[i]] = 0
       /\ \A j \in 1 .. Len(stack) : stack[i] = stack[j] => i = j

\* No slot is lost: each slot below len is occupied, referenced, on the free
\* list or owned by a thread, unless a panic in the closure of an insertion or
\* in a destructor left it behind.
NoSlotLost ==
  \A s \in Slot : s < len =>
    \/ Occupied(s) \/ ref_count[s] > 0 \/ OnFreeList(s) \/ s \in leaked
    \/ \E t \in Thread : Owns(t, s)

\* What a thread read of the free list is still so if the tag has not moved
\* since: the head it compares with is the head, and the successor it is about
\* to install is the successor ("we completely alleviate the ABA", lib.rs:576).
ReadsCurrent ==
  \A t \in Thread :
    /\ th[t].pc \in {"pop_next", "pop_swap"} => th[t].head.idx # SENTINEL
    /\ th[t].pc \in {"pop_next", "pop_swap", "push_next", "push_swap"} =>
         /\ th[t].head.tag <= free_head.tag
         /\ th[t].head.tag = free_head.tag => th[t].head.idx = free_head.idx
    /\ th[t].pc = "pop_swap" /\ th[t].head.tag = free_head.tag =>
         th[t].next = next_free[th[t].head.idx]
    /\ th[t].pc = "push_swap" => next_free[th[t].idx] = th[t].head.idx

\* The versions kept for an occupied slot are odd, a count that was read for an
\* exchange was not zero, and a slot not pushed yet is zeroed.
LocalsSound ==
  /\ \A t \in Thread :
       /\ th[t].pc \in {"ensure_chunk", "call", "store_ref", "store_version",
                        "acquire", "check", "rem_swap"} => th[t].ver % 2 = 1
       /\ th[t].pc = "acquire" => th[t].rc >= 1
  /\ \A s \in Slot : s >= len => version[s] = 0 /\ ref_count[s] = 0

\* A guard that a get is about to return, or that is being dropped, is not yet,
\* or no longer, alive, and no two calls have the same guard in hand.
GuardsReserved ==
  \A t \in Thread :
    /\ th[t].pc \in {"acquire", "check"} => th[t].out # None
    /\ th[t].out # None => /\ guard[th[t].out] = None
                           /\ \A u \in Thread \ {t} : th[u].out # th[t].out

\* The invariant the proofs carry from step to step.
Core ==
  /\ TypeOK /\ LocalsSound /\ GuardsReserved
  /\ RefCountExact /\ ExclusiveOwner
  /\ FreeListSound /\ ReadsCurrent /\ NoSlotLost

\* It holds as long as the tag of free_head has not wrapped around.
NoTagWrap == free_head.tag < TagMod
IInv == free_head.tag \in Nat /\ (NoTagWrap => Core)

----------------------------------------------------------------------------
(* Values *)

Held(g) == guard[g] # None /\ g \notin stranded

\* A guard can be read for as long as it is held: its slot still contains the
\* value that was inserted under the guard's key, and that value's destructor
\* has not run, whatever removed the key meanwhile.
GuardsReadable ==
  \A g \in Guard : Held(g) =>
    LET v == data[guard[g].idx]
    IN  v \in Value /\ keyOf[v] = guard[g] /\ drops[v] = 0

\* A key the map still answers for leads to the value inserted under it,
\* alive and with a reference that keeps it so.
OccupiedReadable ==
  life # "freed" =>
    \A s \in Slot : Occupied(s) =>
      /\ ref_count[s] > 0
      /\ data[s] \in Value /\ drops[data[s]] = 0
      /\ keyOf[data[s]] = [idx |-> s, ver |-> version[s]]

\* A thread about to run a destructor has a value to run it on that was not
\* destroyed before.
DestroysLiveValue ==
  \A t \in Thread : At(t, "drop_value") =>
    data[th[t].idx] \in Value /\ drops[data[th[t].idx]] = 0

\* No value is destroyed twice, and when the map is gone every value that was
\* moved into it has been destroyed exactly once (the fuzz target's and
\* check_drops' drop counters), but for those a panicked clone still counts.
DestroyedOnce ==
  \A v \in Value :
    /\ drops[v] <= 1
    /\ (life = "freed" /\ ~Fresh(v) /\ stranded = {}) => drops[v] = 1

\* No two values are ever published under the same key.
KeysUnique ==
  \A v, w \in Value : keyOf[v] # None /\ keyOf[v] = keyOf[w] => v = w

\* What the proofs carry of the values.  A thread that inserts has a value in
\* hand, of its own, that is in no slot but the one it is writing.
InsertPC == {"pop_next", "pop_swap", "push_zeroed", "ensure_chunk", "load_version",
             "call", "store_ref", "store_version"}
ValuesInHand ==
  \A t \in Thread :
    /\ th[t].val # None <=> th[t].pc \in InsertPC
    /\ th[t].val # None => /\ keyOf[th[t].val] = None /\ drops[th[t].val] = 0
                           /\ \A u \in Thread \ {t} : th[u].val # th[t].val
    /\ th[t].pc \in {"store_ref", "store_version"} => data[th[t].idx] = th[t].val

\* A slot contains a value that was published in it and not destroyed.
Alive(s) ==
  /\ data[s] \in Value /\ drops[data[s]] = 0
  /\ keyOf[data[s]] # None /\ keyOf[data[s]].idx = s

\* A slot someone refers to is alive, but for the one an insertion is about to
\* publish, and stays so until the last reference has destroyed the value.
SlotsAlive ==
  /\ \A s \in Slot :
       /\ ref_count[s] > 0 =>
            Alive(s) \/ \E t \in Thread : At(t, "store_version") /\ th[t].idx = s
       /\ Occupied(s) => keyOf[data[s]].ver = version[s]
  /\ \A t \in Thread : At(t, "drop_value") => Alive(th[t].idx)

\* Every guard, a stranded one too, has the key of the value in its slot.
GuardsAlive ==
  \A g \in Guard : guard[g] # None =>
    /\ keyOf[data[guard[g].idx]] = guard[g]
    /\ \A t \in Thread : At(t, "store_version") => th[t].idx # guard[g].idx

\* A value that is published and not destroyed is in the slot of its key, and
\* someone is left to destroy it.
NotForgotten ==
  \A v \in Value : keyOf[v] # None /\ drops[v] = 0 =>
    /\ data[keyOf[v].idx] = v
    /\ \/ ref_count[keyOf[v].idx] > 0
       \/ \E t \in Thread : At(t, "drop_value") /\ th[t].idx = keyOf[v].idx

\* Whoever finds no chunk for an index below len, and spins for it, waits for the
\* very insertion that pushed the index and has yet to install the chunk ("the
\* short time in which the chunk_idx is (potentially) unallocated", vec.rs:90-92,
\* 316-318): no chunk is missing with nobody at work on it, and an insertion
\* goes on only when its chunk is there.  (Here allocations succeed: AtomicVec
\* has the others.)
ChunksThere ==
  \A s \in Slot : s < len =>
    ChunkOf(s) \in chunks \/ \E t \in Thread : At(t, "ensure_chunk") /\ th[t].idx = s

\* A stranded guard has its key for ever.
StrandedKept == \A g \in stranded : guard[g] # None

Values ==
  /\ ValuesInHand /\ ChunksThere /\ DestroyedOnce /\ StrandedKept
  /\ life # "freed" => SlotsAlive /\ GuardsAlive /\ NotForgotten
  /\ life = "freed" => /\ \A t \in Thread : At(t, "idle")
                       /\ \A g \in Guard : ~Held(g)

\* No slot has been given its last version, after which they start again.
NoVersionWrap == \A v \in Value : keyOf[v] # None => keyOf[v].ver < VersionMod - 1

\* Until then the keys of a slot get ever larger versions.
KeysInOrder ==
  /\ \A v \in Value : keyOf[v] # None => keyOf[v].ver <= version[keyOf[v].idx]
  /\ \A t \in Thread :
       th[t].pc \in {"ensure_chunk", "call", "store_ref", "store_version"} =>
         version[th[t].idx] < th[t].ver

----------------------------------------------------------------------------
(* The number of elements *)

Counting == {t \in Thread : At(t, "count_up")}
Removing == {t \in Thread : th[t].op = "remove" /\ th[t].pc # "rem_swap"}

\* num_elems, modulo its width, is the number of occupied slots, less the
\* insertions published and not yet counted, plus the removals done and not
\* yet counted, plus those a panicking destructor will never count.
CountExact ==
  num_elems = (Cardinality({s \in Slot : Occupied(s)}) - Cardinality(Counting)
               + Cardinality(Removing) + uncounted) % CountMod

\* What the proofs carry of the calls: a program counter belongs to one kind of
\* call, apart from the tail that destroys and recycles.
CallsSound ==
  \A t \in Thread :
    /\ th[t].op = "none" <=> th[t].pc = "idle"
    /\ th[t].pc \in InsertPC \cup {"count_up"} => th[t].op = "insert"
    /\ th[t].pc \in {"acquire", "check", "undo"} => th[t].op = "get"
    /\ th[t].pc \in {"rem_swap", "rem_dec", "count_down"} => th[t].op = "remove"

\* A count that was read for an exchange was not over the cap.
CapRespected == \A t \in Thread : At(t, "acquire") => th[t].rc <= MAX_REFCOUNT

Inserting == {t \in Thread : th[t].op = "insert" /\ ~At(t, "count_up")}

\* "The slot map will never allocate if it contains less keys than `capacity`"
\* (lib.rs:157): it allocates a chunk only when the keys in the map and those
\* being inserted are more than the capacity it was made with.
NeverAllocates ==
  [][chunks' # chunks =>
       Cardinality({s \in Slot : Occupied(s)}) + Cardinality(Inserting) > Capacity]_vars
=============================================================================
