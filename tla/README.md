# A verification of atomic_slotmap

`atomic_slotmap` is a slot map shared by threads without a lock: `insert` moves
a value in and returns a key, `get` lends the value to a guard, `remove` makes
the key invalid, and whoever gives up the last reference to a removed value
destroys it and recycles its slot. This directory models the crate in TLA+,
checks the models with TLC and proves the main invariants with TLAPS.

Paths below are those of the repository (`src/lib.rs` is the crate's own file).

## The system

| Component | State | Operations | Talks to |
|---|---|---|---|
| `AtomicSlotMap` (`src/lib.rs`) | `free_head` (tag and index in 64 bits), `num_elems` | `insert`, `insert_with_key`, `try_insert_with_key`, `remove`, `get`, `get_owning`, `contains_key`, `pop_free_index`, `push_free_index`, `reserve`, `lossy_len`, `capacity`, `lossy_iter` | its vector of slots; the client's closure and `V`'s destructor |
| `Slot` (`src/slot.rs`) | `data`, `next_free`, `ref_count`, `version` | `acquire_guard`, `inc_ref_count_for_clone`, `dec_ref_count`, `drop_inner_value`, `Drop` | called by the map and the guards |
| `SlotGuard`, `OwningSlotGuard` (`src/guard.rs`, `src/owning_guard.rs`) | key, pointer to the value, the map by reference or by `Arc` | `new`, `Drop`, `Clone` (owning only), reads | `Slot`, `push_free_index` |
| `AtomicVec` (`src/vec.rs`) | `len`, 15 chunk pointers | `push_zeroed`, `get`, `get_unchecked`, `reserve`, `capacity`, `Drop` | the allocator |
| chunk arithmetic (`get_location`) | none | index to chunk and offset | `AtomicVec` |
| `LossyIter` (`src/iter.rs`) | `current_idx` | `next` | `AtomicVec::get`, `AtomicSlotMap::get` |
| `KeyDataRead`, `AtomicGetExclusive` (`src/util.rs`) | none | reads | |

Everything is shared memory: the components interact through atomic words and
calls, with no messages, no timeouts and nothing persisted. What is hard is:

* **Interleaving.** A thread that holds no lock acts on words it read before
  others changed them: a pop that has read a stale successor, a get whose key is
  removed (and whose slot is reused) between the count and the version, two
  removes of one key, a stale get whose reference turns out to be the last.
* **Order of two writes.** `insert` stores the count before the version;
  `remove` changes the version before it gives its reference up; `push_zeroed`
  raises `len` before the chunk is there; `num_elems` is counted after both.
* **Failure in the middle.** The closure or a destructor panics with a slot in
  hand; an allocation fails; a clone asserts after it has counted.
* **Numeric edges.** The 32-bit tag, version, length and count.
* **Weak memory.** Every access is Relaxed, Acquire or Release: a thread may read
  a word as it was a while ago, and a plain read of a value is safe only if the
  annotations order it with the writes.
* **Progress.** Exchange loops, the spin on a chunk, "eventually dropped".

`PROJECT.json` lists each of these at its line under `hazards`.

### What makes each component correct

* `AtomicSlotMap`: it is a keyed store whose calls are atomic; keys are unique; a
  slot is in one place at a time (occupied, referenced, owned by a call, or on the
  free list); no slot is lost; calls return however long others are suspended.
* `Slot`: the count is exact; the count never leaves zero but by its owner; the
  value is destroyed once, by whoever takes the last reference away.
* Guards: a guard reads the value its key was returned for until it is dropped.
* `AtomicVec`: an index is handed out once, and what it leads to never moves.
* `LossyIter`: what stays in the map is returned, what is returned is in the map.
* `reserve`: it leaves room for what it counted, and panics only for want of room.
* Orderings: whatever a thread may read, values are not raced on, plain stores
  agree on one order, and the free list is not corrupted.

## Modules

| Module | What it models |
|---|---|
| `Location` | `AtomicVec::get_location`: chunk and offset of an index |
| `LocationProofs` | the theorems about it: the `STARTS` table, every 32-bit index |
| `SlotMap` | the map, its slots, guards and threads, one atomic access per step |
| `SlotMapInvariants` | type invariant, safety invariants, the inductive invariant |
| `KeyedStore` | abstract specification: what a client may rely on |
| `SlotMapRefinement` | the mapping from `SlotMap` to `KeyedStore`; justified misses |
| `SlotMapLiveness` | readers that wait for a chunk, fairness, and progress |
| `MC_SlotMap` | instances for TLC (symmetry sets) |
| `SlotMapProofs` | counts, owners, free list: the theorems and their proofs |
| `SlotMapValueProofs` | guards, keys and destructors: the theorems and their proofs |
| `SlotMapRefinementProofs` | that `SlotMap` implements `KeyedStore` |
| `SlotMapCountProofs` | `num_elems` and the cap: the theorems and their proofs |
| `SlotMapLossy` | `LossyIter` and `reserve` beside every step of `SlotMap`, and their properties |
| `MC_SlotMapLossy` | instances for TLC (symmetry sets) |
| `SlotMapLossyProofs` | the theorems about it and their proofs |
| `Orderings` | the same algorithms over a weak memory, one definition per ordering of the source, and what the orderings must ensure |
| `MC_Orderings` | instances for TLC: what a behaviour may spend |
| `OrderingsInvariants` | the inductive invariant: the words as they were last written, and who has seen what |
| `OrderingsProofs` | the theorems about `Orderings` and their proofs |
| `AtomicVec` | the vector: races for a chunk, failing allocations, spinning readers, `reserve`, `capacity`, the width of `len` |
| `AtomicVecInvariants` | its type invariant, safety and liveness properties, the inductive invariant |
| `CellArray` | abstract specification: an array that grows in place |
| `AtomicVecRefinement` | the mapping from `AtomicVec` to `CellArray` |
| `MC_AtomicVec` | instances for TLC (symmetry sets) |
| `AtomicVecProofs` | the theorems about it and their proofs |

### How `SlotMap` corresponds to the code

A thread is a record in `th`: a program counter named after the next shared
access, and the locals that survive to it (`idx`, `ver`, the head it read, the
successor it read, the count it read, the guard or the value it is about). Each
load, store, `fetch_add`, `fetch_sub` or compare-exchange of a shared word is an
action of its own, together with the thread-local code after it:

| Code | Actions |
|---|---|
| `pop_free_index` | `BeginInsert` (load of the head), `PopReadNext`, `PopSwap`, `PopRetry` |
| `try_insert_with_key` | `LoadVersion` or `PushZeroed`, `EnsureChunk`; then `WriteValue`, `CallErr` or `CallPanics` for the closure; `StoreRef`, `StoreVersion`, `CountUp` |
| `acquire_guard`, `SlotGuard::new` | `BeginGet`, `AcquireSwap`, `AcquireRetry`, `CheckVersion`, `CheckFails`, `UndoAcquire` |
| `Drop` of a guard | `DropGuard`, and the shared tail |
| `Clone` of an owning guard | `CloneGuard` |
| `remove` | `BeginRemove`, `RemoveSwap`, `RemoveFails`, `RemoveDec`, `CountDown`, and the shared tail |
| tail: `drop_inner_value`, `push_free_index` | `DropValue`, `DropValuePanics`, `PushLoad`, `PushStoreNext`, `PushSwap`, `PushRetry` |
| drop of the last handle, `AtomicVec::drop`, `Slot::drop` | `CloseMap`, `DropMap` |

Decisions a reader should know of:

* Calls that read and return without writing (a get of a zero count, a remove of
  a version that does not match, `contains_key`) are stuttering steps.
* `compare_exchange_weak` may fail for no reason: `PopRetry`, `PushRetry` and
  `AcquireRetry` need no other head or count.
* Any key may be asked for, also stale and forged ones; versions of keys are odd
  because `slotmap::KeyData` makes them so.
* The tag is kept as a natural number and compared modulo `TagMod`
  (`SameWord`), so that "has not wrapped yet" can be said; versions and
  `num_elems` wrap for real.
* A panic unwinds out of the call. In the model the value that the closure would
  have inserted is destroyed when the closure fails or panics.
* A closure or destructor that calls the map again is a call of another thread
  while this one stands still.
* History variables (`stack`, `keyOf`, `drops`, `leaked`, `stranded`,
  `uncounted`) are read by no guard that stands for code; `keyOf` and `drops`
  only keep a value from being moved in twice.

### How `AtomicVec` corresponds to the code

`SlotMap` treats the vector coarsely: `EnsureChunk` is one step that succeeds,
and it has no get or remove of an index whose chunk is missing (`Reachable`), as
such a call has done nothing yet but wait. `SlotMapLiveness` has these calls: a
thread in `wait_for_chunk` is one in `waiting` (`BeginWait`, `Spin`, and `Resume`
when the chunk is there). `AtomicVec` looks inside:

| Code | Actions |
|---|---|
| `push_zeroed`, `reserve` | `BeginPush` (`fetch_add`), `BeginReserve` (load of `len`), then `ensure_chunk_exists` for one chunk or for all up to the last (`Proceed`) |
| `ensure_chunk_exists` | `FindChunk` or `MissChunk` (the load), `Allocate`, `AllocateNull` or `AllocatePanics`, `InstallChunk` or `LoseRace` (the exchange, and the deallocation) |
| `get`, `get_unchecked`, `wait_for_chunk` | `BeginGet`, `Spin`, `EndGet` |
| `capacity` | `BeginCapacity`, `ReadCapacity` once per chunk pointer, `EndCapacity` |
| `Drop` | `Drop` (it has the vector to itself) |

The allocator is external: it returns an address that is not in use (`live`), or,
if `MayFail`, a null pointer, which the code does not look at. A panic while
the layout is computed leaves `len` raised. `CellArray` justifies the coarse
view of `SlotMap`: an index is handed out once, its cell neither moves nor is
shared, and by `PushedReady` the index an insertion got is reachable when
`push_zeroed` returns. The history variables `handed`, `pushed`, `promised` and
`failed` (an allocation failed) are read by no guard.

### How `SlotMapLossy` corresponds to the code

A thread in `Lossy` has, beside its record in `th`, one in `lz`: the iterator or
the reserve it is in.

| Code | Actions |
|---|---|
| `lossy_iter`, drop of the iterator | `NewIter`, `DropIter` |
| `LossyIter::next` | `IterNext` or `IterEnd` (load of the length), `IterRead` (length and version), `IterGet`, then the steps of an ordinary get (`IterStep`), or `IterMiss` |
| `reserve` | `BeginReserve` (`lossy_len`), `ReserveNeeded` (length), then the vector's reserve, which reads the length again: `ReserveChunks` or `ReservePanics` |

The guard that `next` returns is a guard of `SlotMap` like any other. `next` is
called again at any later time, or not at all; the thread makes no call of its
own in between, as the other threads do, but anyone may drop or clone the guards.
The chunks of one reserve appear in one step (`AtomicVec` has them one by one).
`lossy_len`, `lossy_is_empty` and `capacity` read and return.

### How `Orderings` corresponds to the code

`Orderings` is the map over a memory in which a thread may read outdated words. A
word is the sequence of the messages written to it; a thread's view says how far
into each word it has read, and a load returns any message that is not older. A
Release write leaves its writer's view in the message, an Acquire read takes it
over, a read-modify-write reads the last message and passes its view on (release
sequences), and the fence of `dec_ref_count` makes up for the Relaxed half of its
decrement. Each ordering of the source is a definition (`PopLoad`,
`RefStore`, ...). Plain memory, that is the value of a slot and the zeroing of
the chunk, has no messages but the clocks of its accesses, with which races are
stated.

What the model leaves out: behaviours in which a load sees a store that a thread
has yet to make (load buffering); stores that go before another thread's earlier
store to the same word (`WritesInOrder` shows that there is no room for them); spurious
failures, which repeat a step; the relaxed loads before an exchange that decide
only how often it is tried; `num_elems`, `len` and the loads of the debug
assertions, which order nothing; and the second chunk, whose pointer is as the
first. Panics, stale counts over the cap and the end of the map are in `SlotMap`.

## Runs

Every configuration of `MC_SlotMap` is named `SlotMap_<run>.cfg`; `live` runs
`SlotMapLiveness` itself, with `SlotMapLiveness.cfg`. Where no number is said
otherwise: two threads, `FirstChunk = 1` (so that a second slot is in a second
chunk), versions modulo 8, counts modulo 8, tag modulo 64, which the bounded
number of values keeps from wrapping.

| Run | Bounds | Question and answer |
|---|---|---|
| `threads` | 3 threads, 2 owning guards, 2 values, 2 slots | Does every guard and every key lead to its live value while three threads race for two slots? Are counts exact and owners exclusive? Yes. |
| `freelist` | 4 values, 4 slots, no guards | Does the free list survive stale successors; are keys unique; is someone at work on every chunk that a reader can wait for? Yes. |
| `refines` | panics, `MAX_REFCOUNT = 2`, two owning guards and a borrowing one | Does the map implement `KeyedStore`, and does a get miss only for a reason? Is a slot lost, a value destroyed twice or never, an element miscounted, the cap overshot? Yes; only what a panic explains; the cap by one. |
| `live` | `LiveSpec`, versions modulo 4, 2 owning guards, 2 values, 2 slots, no symmetry | Do calls return while other threads are suspended in theirs? Yes, but for readers in `wait_for_chunk`. Is a removed value destroyed, a slot recycled, when all threads are scheduled? Yes. |
| `tagwrap` | tag modulo 3 | *Violated*: `lib.rs:576` "we completely alleviate the ABA". |
| `capacity` | 1 thread, capacity 1, 1 borrowing guard | *Violated*: `lib.rs:157` "will never allocate if it contains less keys than `capacity`". |
| `clones` | `MAX_REFCOUNT = 1`, count modulo 4, 3 owning guards | *Violated*: `slot.rs:6` "to prevent leaked references from overflowing the reference count". |

`MC_SlotMapLossy`:

| Run | Bounds | Question and answer |
|---|---|---|
| `lossy` | 2 threads, one of them also iterating and reserving (1 more), 2 owning guards and a borrowing one, `MAX_REFCOUNT = 2`, 2 values, 2 slots | Does an iterator return what was in the map throughout, and only what is in the map when it returns it, once? Does a reserve provide for what it counted? Yes. |
| `reserve` | 2 threads, 4 slots, 1 value, counts modulo 4, reserve of 2 | *Violated*: `lib.rs:693` "Panics if the new allocation size overflows [`u32`]". |

`MC_Orderings`: 3 threads, 2 guards, one chunk, keys of versions 1, 3 and 5 (`Asked`;
no budget has a fourth insertion, so no slot has a later version). A
behaviour has one of five budgets of inserts, of gets, clones and hand-overs, and of
slots (`MCBudgets`): one slot used again by two or three insertions while guards
go round, and two slots on the free list under three insertions.

| Run | Question and answer |
|---|---|
| `orderings` | Is every access to a value ordered with its destruction and its replacement; does a guard see its own value; is the zeroing of a chunk seen; do the debug assertions hold of everything a thread may read; do plain stores agree on one order; is a successor that is installed the current one? Yes. |

Replacing an ordering by Relaxed, one at a time, breaks a property within these
bounds for those of the first line and none for those of the second:

| | |
|---|---|
| needed | `PopLoad` (also the failure ordering of the pop's exchange), the Release of `PushSwapOrder`, `RefStore`, `VersionStore`, `AcquireOrder`, `DecOrder`, `DecFence`, `RemoveLoad`, `ChunkLoad`, `ChunkSwap` |
| redundant here | `PopSwapOrder`, `NextLoad`, `NextStore`, `VersionLoad`, `CheckLoad`, `RemoveSwapOrder` |

Those of the second line follow from another on every path: a pop has acquired
the head it exchanges when it loaded it, a get has acquired at its exchange. This
is an observation and not advice to relax them; see "The orderings" below for what is
proved of it.

`MC_AtomicVec`: two threads, `FirstChunk = 1` and a `LenMod` of 5, that is indices
below 5 in two chunks, of 1 and 4 cells.

| Run | Bounds | Question and answer |
|---|---|---|
| `vec` | `FairSpec`, 2 pushes, reserve of 4, 3 addresses, failing allocations | Who owns each allocation; is a returned index ready; does a capacity cover every finished reserve; does the vector implement `CellArray`; does every call return if no allocation fails? One owner; yes to all. |
| `vec_wait` | `FairSpec`, 2 pushes, reserve of 0, failing allocations | *Violated*: `vec.rs:316`, a chunk is missing only "for a short while". |

In `vec` two pushes cross the chunk boundary, so that they race for two chunks,
and a reserve of 4 races with both; at a length of 2 it is beyond the width and
panics, as documented. No more than three allocations can be alive at once.
`MaxLen` bounds the pushes and keeps `len` from wrapping. Threads, values and
guards of one kind are interchangeable, which is the symmetry used, except in
runs with liveness properties (`live`, `vec`, `vec_wait`). `refines` and `lossy`
use symmetry although they check temporal formulas: these are properties of
states and steps and symmetric themselves.

**Why the bounds are enough to matter.** Two values and two slots suffice for
reuse, as a slot whose value was removed takes the second value; three threads
let a getter, a remover and an inserter meet on one slot; four values give a free
list of several slots, popped, reused and pushed again under a stalled pop; a cap
of two lets two gets pass the check and three guards exceed it. The values bound
the behaviours: each is moved in once, so the tag (at most two operations per
value and failed insertion) and the versions stay below their moduli, except where
`tagwrap` makes the tag wrap on purpose. (Versions wrap in the code too, after
2^31 insertions into one slot, and then a key comes back: `KeysUnique` holds, and
is checked, short of that.) `MaxSlots` is never less than the number of
values in the passing runs of `SlotMap`, so it blocks no insertion.

**Fairness.** Nothing is assumed of the client: no call need begin, no guard need be
dropped. Of the scheduler each property assumes as little as it can:

* `LockFree` is checked under `LiveSpec`, which says only that *some* thread that is
  in a call runs; all others may be suspended wherever they are, for ever. A map
  behind a spinlock would fail it, as would a get that waits for an insertion
  between its two stores (the mutant `CheckFails_Wait`). It does not claim that each
  call returns, and the code does not promise it.
* `RemovedDestroyed` and `SlotsRecycled` need that every thread in a call is
  scheduled, which they state as their hypothesis (`Scheduled`).
* `AtomicVec`'s `FairSpec` assumes weak fairness of each thread's `Step(t)`, for
  `CallsReturn` and `GetsReturn`.

A weak exchange that fails spuriously for ever is excluded by the properties
themselves (`Spurious`), as it would stop any such loop. `RemovedDestroyed` is
stated for slots that no get is passing through: an endless relay of gets with stale
keys, each taking its reference before the previous one gives its up, can keep a
removed value alive.

**Where the map is not lock-free.** `lib.rs:110` speaks of "the lock-free-ness of this
slotmap" and `vec.rs:28` calls `get` "completely lockfree". Without exception that
is false: `push_zeroed` raises `len` before the chunk is there, and if that thread is
then suspended, whoever looks at the new index spins for as long as the suspension
lasts. No valid key of that chunk exists yet, so this is the iterator, or a get or
remove of a key from another map or a forged one. Without its last disjunct `LockFree` is violated by such a
reader after four states. `vec.rs:316-318` states the wait, so the
disjunct makes it part of the property: `PushAwaited` says which push is waited
for, and that nothing but spinning goes on. `ChunksThere`, which is proved, is the
safety half: the push exists and has yet to install the chunk. When an allocation has
failed nobody is at work on it, and this is the violation of `vec_wait`.

## Proofs

A theorem holds for all values of the constants that the assumption of its module
admits: for the map, any finite number of threads and guards, any values, any
number of slots, any even `VersionMod`, any cap below the width of the count.
`PROJECT.json` lists the theorems beside the properties of the runs they state.

### Counts, owners and the free list

`SlotMapProofs`:

* `Types`: `Spec => [](NoTagWrap => TypeOK)`
* `References`: `Spec => [](NoTagWrap => RefCountExact)`
* `Ownership`: `Spec => [](NoTagWrap => ExclusiveOwner)`
* `FreeList`: `Spec => [](NoTagWrap => FreeListSound)`
* `Slots`: `Spec => [](NoTagWrap => NoSlotLost)`

`NoTagWrap` (`free_head.tag < TagMod`) is the condition under which the tag does
its job; the run `tagwrap` shows that without it `FreeListSound` is false.

None of the five is inductive alone. A pop that succeeds must find the successor
it read before, which needs `ReadsCurrent`: what a thread read of the list is
still so unless the tag has moved. That the popped slot may be written needs
`FreeListSound` and `ExclusiveOwner`; that whoever takes the last reference away
is alone with the slot needs `RefCountExact` together with the guards' and
threads' locals (`LocalsSound`, `GuardsReserved`); and a type as simple as
`ref_count \in [Slot -> Nat]` needs the exactness of the count. Their conjunction
is `Core`, and

    IInv == free_head.tag \in Nat /\ (NoTagWrap => Core)

is inductive: `InitInv`, `StepInv`. The proof goes conjunct by conjunct
(`TypeStep`, `LocalsStep`, `ReservedStep`, `RefStep`, `OwnerStep`,
`FreeListStep`, `ReadsStep`, `LostStep`), each with one case per action it can
be disturbed by, over lemmas on where a step takes its thread (`InsertMoves`,
`OtherMoves`, `CallMoves`), on the cardinality of the sets of reference holders
(`ThreadRefs`, `GuardRefs`, `Referenced`), and on the list (`PopIsTop`,
`Popped`, `Pushed`, `WritesOffList`). The tag only grows (`TagGrows`), so
`NoTagWrap` in a state implies it in every earlier one.

### Values and keys

`SlotMapValueProofs`, on top of `Core`:

* `Readable`: `Spec => [](NoTagWrap => GuardsReadable)`
* `Findable`: `Spec => [](NoTagWrap => OccupiedReadable)`
* `Destroyable`: `Spec => [](NoTagWrap => DestroysLiveValue)`
* `Destroyed`: `Spec => [](NoTagWrap => DestroyedOnce)`
* `Chunks`: `Spec => [](NoTagWrap => ChunksThere)`
* `Keys`: `Spec => [](NoTagWrap /\ NoVersionWrap => KeysUnique)`

`Core` says who may touch a slot; `Values` says what is in it. A thread that
inserts has a value in hand that is nowhere else (`ValuesInHand`); a slot with a
reference contains a value that was published in it and not destroyed, or is the
one an insertion is about to publish (`SlotsAlive`); the key of a guard is that of
the value (`GuardsAlive`), and so `Readable` follows. For the second half of
`DestroyedOnce` nothing may be forgotten: `NotForgotten` says that a value that
is published and not destroyed is in the slot of its key with someone left to
destroy it, `ChunksThere` that the drop of the vector reaches that slot. Each part
has a lemma for the steps of the threads (`HandStep`, `SlotsStep`, `GuardsStep`,
`ForgottenStep`, `ChunksStep`, `DropsStep`), over lemmas on what a step may do to a
count, a version, a guard and the data (`CountMoves`, `VersionMoves`, `GuardMoves`,
`DataStep`), and there is one for clones and one for the end of the map
(`CloneValues`, `EndValues`; `DyingOnce` counts the destructors that run there).

`Keys` needs one condition more. `NoVersionWrap` says that no key has the last
version of its slot. Until then the versions of a slot only grow, so that a key
is newer than all the slot had before (`KeysInOrder`, `VersionsGrow`). After 2^31
insertions into one slot its first key comes back, and the property is false.

### The keyed store

`SlotMapRefinementProofs`:

* `Implements`: `Spec /\ [](NoTagWrap /\ NoVersionWrap) => ImplementsKeyedStore`
* `Misses`: `Spec /\ []NoTagWrap => MissesJustified`

The linearization points are lemmas: the store of the version is an insert
(`PublishInserts`), a closure that fails rejects its value (`FailureRejects`), the
exchange of the version is the remove (`ExchangeRemoves`), the comparison of the
version under a counted reference is the get (`ComparisonAcquires`), and guards,
clones, destructors and the end of the map are what their names say
(`DropReleases`, `CloneShares`, `DestructorDestroys`, `DropCloses`). Every other
step leaves the store alone (`OthersHidden`). The conditions are hypotheses on the
whole behaviour here, as a step of the store after a wrap need not be a legal one.

### The counters

`SlotMapCountProofs`:

* `ElementsCounted`: `Spec => [](NoTagWrap => CountExact)`
* `Capped`: `Spec => [](NoTagWrap => ReferencesBounded)`
* `Fits`: `RefCountFits` for as long as the tag has not wrapped and
  `MAX_REFCOUNT + 1 + Cardinality(stranded) < RefMod`

`CountExact` is an equation modulo `CountMod`, so the proof carries cardinalities
through `%` (`Division` and the lemmas after it); `CallsSound` ties a program
counter to its kind of call, since only a removal that destroys the value counts
after the tail. `ReferencesBounded` needs `CapRespected`, that what a get is about
to exchange was at most the cap. `Fits` is the other side of the run `clones`: while
fewer clones have panicked over the cap than there is room above it (255 in the
source), the count does not reach the width of its word. The condition is
sufficient; without it `clones` reaches the width.

### Iterators and reserve

`SlotMapLossyProofs`, for any number of threads that iterate, reserve or do neither:

* `LossyTypes`: `LossySpec => [](NoTagWrap => LossyTypeOK)`
* `YieldsPresent`: `LossySpec /\ []NoTagWrap => IterYieldsPresent`
* `IterCompletes`: `LossySpec /\ [](NoTagWrap /\ NoVersionWrap) => IterComplete`
* `Delivers`: `LossySpec /\ []NoTagWrap => ReserveDelivers`
* `MapUnharmed`: beside them too, until the tag wraps, `GuardsReadable`,
  `OccupiedReadable` and `DestroyedOnce` hold

Every step of `LossySpec` is one of `Spec` or adds chunks (`MapSteps`,
`ReserveKeeps`), so the invariants of the map carry over. An iterator moves
forward only (`GoesForward`), and what it has returned is behind it
(`YieldedPassed`), so it returns nothing twice. What stays in the map is ahead of
it or was returned (`StayedAhead`). The interesting steps are those that leave a
slot without returning anything (`NotPassedOver`): an even version, a zero count or
an index past the length contradict that the value is in the map (`BoundSlot`,
`OccupiedAlive`, `OccupiedBelow`), a count over the cap ends the loop in a panic,
and a get that fails the comparison would need the version to have changed
(`AsksForIt`). `BoundSlot` needs unique keys, hence `NoVersionWrap`. `Delivers`
needs of the three reads only that `len` never shrinks (`LenGrows`). It speaks of
slots below a number and not of free ones: a removed value that a guard still holds
keeps its slot without being counted by `lossy_len`, so that fewer than
`additional` elements may fit, which is less than "for at least `additional`
more elements" of `lib.rs:681` (as for `with_capacity` in the run `capacity`).

### The vector

`AtomicVecProofs` proves, for any number of threads, chunks and addresses, with
or without failing allocations:

* `Types`: `Spec => []VecTypeOK`, also when `len` wraps
* `Allocations`: `Spec => []AllocationsOwned`
* `Ready`: `Spec => []PushedReady` (it speaks of behaviours in which no allocation
  has `failed`)
* `Implements`: if `MaxLen < LenMod`, `Spec => ImplementsCellArray`
* `Promised`: if `Contiguous`, `Spec => []PromiseKept`; `PromisedSource`: the same
  for a first chunk of 32 and 32-bit indices

The inductive invariant is the `IInv` of `AtomicVecInvariants`. `PushedReady`
needs `LocalsSound` (the chunk a push looks at is its index's, and what it
exchanges is not null) and `ChunksStay`; the refinement needs
`AllocationsOwned` (distinct chunks have distinct addresses, so distinct indices
have distinct cells), `HandedInOrder` (the next index is a new one) and
`DroppedIdle`. Without `MaxLen < LenMod` the refinement is false: the push after
2^32 pushes takes index 0 again, and nothing panics, although `lib.rs:266` says that
insert "Panics if the slot map is full".

`Promised` needs that a promise has its chunks (`Covered`, which holds because
`ensure_chunk_exists` is called for every chunk up to the last) and that a thread
that adds up the capacity has counted exactly the cells before the chunk it
looks at next (`CapacityCounted`). `Contiguous` says that a chunk starts
where the one before it ends; `SourceContiguous` derives it for the source from
`Starts` below.

`AtomicVecAssumption` contains, beside what the constants are, what the proofs
need of the arithmetic of `Location` (`ChunkOf(i)` is a chunk, `OffsetOf(i)` is
below `LenMod`, sizes and starts are natural numbers). TLC evaluates it in every
run, for the run's constants, and for those of the source `LocationProofs` proves it:

* `Starts`: for `FirstChunk = 32`, `Start(k)` is the literal of `STARTS` for each of
  the 15 chunks, and each chunk starts where the one before it ends
* `Located`: every index below 2^32 is in one of the 15 chunks, at an offset below
  the chunk's size, and is the sum of the chunk's start and the offset

`Located` first finds the power of two at or below the argument of the logarithm
(`Bracketed`, thirty cases), then shows that `Log2` chooses its exponent
(`Chosen`) and that half the exponent gives the chunk whose bounds enclose the
index (`Halved`, `ChunkBounds`). That the sum determines the index makes
the mapping injective.

### The orderings

`OrderingsProofs`, for any number of threads, guards and slots, any budget, keys of
any odd versions and any number of messages, whichever of them the loads return:

* `TypeCorrect`: `Spec => []OrderingsTypeOK`
* `AccessesNeverRace`: `Spec => []AccessesOrdered`
* `GuardsSeeTheirValue`: `Spec => []GuardsSynchronized`
* `ZeroingAlwaysSeen`: `Spec => []ZeroingSeen`
* `AssertsNeverFail`: `Spec => []AssertsHold`
* `WritesAlwaysInOrder`: `Spec => []WritesInOrder`
* `SuccessorAlwaysCurrent`: `Spec => []SuccessorCurrent`

The inductive invariant is `OrderInv` of `OrderingsInvariants`, in two layers. The
words *as they were last written* are as sound as the words of `SlotMap`
(`RefsExact`, `OwnersAlone`, `ListSound`, `LocalsSound`): every step that counts is a
read-modify-write, which reads the last message. The tags and the versions number the
messages of their words (`Memory`), so that a head that was read once and is still
the head cannot have been another in between, whatever else is outdated (`HeadsRead`,
`HeadStill`); there is no wrap in this model.

The second layer says what the *views* must know, and each part is an edge of the
algorithm's synchronization. An owner knows all that was done to its slot
(`OwnersSee`); the last message of `free_head` knows all that was done to every slot
on the list (`HeadSees`); the last message of a reference count knows every access
to the content, and the version it was written for (`CountsSee`), which is how the last
holder comes to own the slot and how a get comes to see the value's version
(`GetsSee`, with `ContentCurrent`: the version of the key, being odd and not older
than that, is the content's). The last message of an odd version knows the store of the
reference (`VersionsSee`), so that a remove may give it up. What is known of a count
is not lost, as with references alive only read-modify-writes follow
(`StoresStay`), and this is what makes release sequences work. `ChunkSees` and
`GuardsSee` carry the zeroing.

`AllKnown`, `Later`, `FullNow` and `CountMoves` are the lemmas the step proofs
(`OwnersSeeStep`, `HeadSeesStep`, `CountsSeeStep`, ...) rest on: views only grow, and
only an owner writes a link or the content of its slot (`Touches`).

The proofs expand the definition of an ordering only where the argument uses it, so they
also say which suffice: they use the Acquire of `PopLoad`, `PopSwapOrder`,
`AcquireOrder`, `DecFence`, `RemoveLoad` and `ChunkLoad`, and the Release of
`PushSwapOrder`, `RefStore`, `VersionStore`, `DecOrder` and `ChunkSwap`. No proof uses
`NextLoad`, `NextStore`, `PushHeadLoad`, `VersionLoad`, `CheckLoad`, `CloneOrder` or
`RemoveSwapOrder`: the seven theorems hold whatever these are.

`Asked`, the versions that keys may have, is a constant of which `AskedAssumption`
says only that they are odd natural numbers, as `guard.rs:23` has them; it may be the set
of all of these, and a slot be filled and asked for any number of times.
`OrderingsAssumption` says that `Thread` and `Guard` are finite, that there is a slot,
and that `None` is no thread, guard or record of a guard; `WordAssumption` that no
thread is equal to a word, as a view is indexed by both.

### What the proofs do not say

* Until the tag wraps: `NoTagWrap` is false after 2^32 pops and pushes of a map, and
  `tagwrap` shows what can happen then. The proofs say nothing of what follows, not
  even if no thread kept a head across the wrap.
* Liveness (`LockFree`, `RemovedDestroyed`, `SlotsRecycled`, `CallsReturn`) stays
  with TLC: the prover does not reason about fairness and `ENABLED`. That a waiting
  reader waits for a push at work is proved (`Chunks`), that the push finishes is not.
* The theorems about `Orderings` are about its memory: they say nothing of
  behaviours with load buffering, and nothing of what that model leaves out of the map
  (panics, the cap, the end of the map). That the orderings the run finds to be
  needed are needed is shown by TLC's counterexamples, not by a proof.

## Not modelled

* Orderings and failures at once: `Orderings` has neither panics nor a cap, and
  `SlotMap` has no outdated reads. What `Orderings` leaves out is listed there.
* A destructor that panics while the map itself is dropped, and `mem::forget` of
  a guard (in the model: a guard that is never dropped, so the map is not freed).
* The width of `usize`: `len as usize + additional` wraps for an `additional` near
  2^64.
* A length of 2^32 - 1, whose next index is the sentinel of the free list, and the wrap
  after it, as a run: the theorems of `AtomicVecProofs` say what holds with it.
* That a chunk can be installed before the one in front of it, which
  `vec.rs:205` rules out ("chunks are allocated in order"): two pushes on both sides
  of a boundary do it, and `capacity` then leaves the later chunk out for a
  moment. `PromiseKept` holds nevertheless, as a finished reserve has filled all
  chunks up to its last.
* `AtomicGetExclusive`, formatting, serialisation, `Deref` and other reads of a
  guard, loom's variants.
* Tests, fuzz target and benchmarks: they are clients of the library.

## Plan

1. *Done.* `SlotMap`, its invariants, refinement and liveness, and the proof of
   `Core`.
2. *Done.* `AtomicVec`, its invariants, `CellArray`, liveness, and the proofs of
   both its invariant and the refinement.
3. *Done.* `Location` proved against the table for every index.
4. *Done.* `SlotMapLossy`: the iterator and `reserve` beside the map; `with_capacity`;
   the width of `ref_count`.
5. *Done.* `Orderings`: the weak memory the source runs on.
6. *Done.* The values, keys and counters of the map, the refinement to
   `KeyedStore`, the promises of the vector, and the iterator and `reserve`, proved.
7. *Done.* `Orderings` proved.
