----------------------------- MODULE Orderings -----------------------------
(***************************************************************************)
(* The memory orderings of AtomicSlotMap.  SlotMap lets its steps take     *)
(* effect one after the other for all threads at once; here a thread may   *)
(* read an outdated value, and what it may still read is bounded only by   *)
(* the Acquire and Release annotations of the source.                      *)
(*                                                                         *)
(* Each atomic word is the sequence of the messages written to it, and a   *)
(* thread has a view: how far into each word it has read, and which of the *)
(* other threads' accesses to plain memory happened before its next step.  *)
(* A load reads any message its view does not hide; a Release write leaves *)
(* the writer's view in its message, and an Acquire read takes it over.  A *)
(* read-modify-write reads the last message and passes its view on.        *)
(***************************************************************************)
EXTENDS Integers, Sequences, FiniteSets

CONSTANTS
  Thread, Guard,
  MaxSlots,      \* bound on the length of the vector
  Asked,         \* the versions of the keys asked for (any odd one in the source)
  Budgets,       \* bounds: how many inserts, how many gets, clones and
                 \* hand-overs of guards, and how many slots a behaviour has
  None

Slot == 0 .. MaxSlots - 1
SENTINEL == MaxSlots

ASSUME OrderingsAssumption ==
  /\ IsFiniteSet(Thread) /\ IsFiniteSet(Guard)
  /\ None \notin Guard \cup Thread \cup [by : Thread, idx : Slot, ver : Nat]
  /\ MaxSlots \in Nat \ {0}
  /\ Budgets \subseteq [insert : Nat, get : Nat, slots : 1 .. MaxSlots]

\* Keys have odd versions: slotmap::KeyData makes them so.
ASSUME AskedAssumption == \A ver \in Asked : ver \in Nat /\ ver % 2 = 1

\* The atomic words.
FreeHead == <<"free_head", 0>>
Chunk == <<"chunk", 0>>           \* the pointer to the one chunk
RefCount(s) == <<"ref_count", s>>
Version(s) == <<"version", s>>
NextFree(s) == <<"next_free", s>>
Word == {FreeHead, Chunk} \cup {RefCount(s) : s \in Slot}
          \cup {Version(s) : s \in Slot} \cup {NextFree(s) : s \in Slot}

\* A view has an entry for each word and one for each thread.
ASSUME WordAssumption == Thread \cap Word = {}

VARIABLES
  mem,       \* the messages of each word, in modification order
  view,      \* each thread's view
  len,       \* the length of the vector (num_elems orders nothing: left out)
  th,        \* each thread's program counter and locals
  guard,     \* the guards alive: who has them and for which key
  left,      \* what is left of the budget
  \* Plain memory, and the vector clocks that find the races on it:
  data,      \* per slot: the version its content was written for, the clock of
             \* that write, and those of all accesses to the content since
  zeroed     \* the clock of the allocation of the chunk

vars == <<mem, view, len, th, guard, left, data, zeroed>>

----------------------------------------------------------------------------
(* The orderings of the source *)

\* Mutant: the head of the free list is read without synchronization.
PopLoad_Relaxed == "Relaxed"
PopLoad == "Acquire"
PopSwapOrder == "AcqRel"
NextLoad == "Acquire"
NextStore == "Release"
PushHeadLoad == "Relaxed"
PushSwapOrder == "Release"
VersionLoad == "Acquire"
RefStore == "Release"
\* Mutant: the version of a new value is published without synchronization.
VersionStore_Relaxed == "Relaxed"
VersionStore == "Release"
\* Mutant: a get takes its reference without synchronization.
AcquireOrder_Relaxed == "Relaxed"
AcquireOrder == "Acquire"
CheckLoad == "Acquire"
CloneOrder == "Relaxed"
\* Mutant: a guard's reads may be delayed past its release.
DecOrder_Relaxed == "Relaxed"
DecOrder == "Release"
\* Mutant: the fence after the last release is left out.
DecFence_Relaxed == "Relaxed"
DecFence == "Acquire"
RemoveLoad == "Acquire"
RemoveSwapOrder == "Release"
\* Mutant: a waiting get does not synchronize with the allocation.
ChunkLoad_Relaxed == "Relaxed"
ChunkLoad == "Acquire"
ChunkSwap == "Release"

Acquires(order) == order \in {"Acquire", "AcqRel"}
Releases(order) == order \in {"Release", "AcqRel"}

----------------------------------------------------------------------------
(* Views *)

\* How many messages of a word, and how many accesses of a thread, are known.
Known == Word \cup Thread
Bottom == [x \in Known |-> IF x \in Word THEN 1 ELSE 0]
Join(v, w) == [x \in Known |-> IF v[x] < w[x] THEN w[x] ELSE v[x]]

NoClock == [t \in Thread |-> 0]
Knows(v, clock) == \A t \in Thread : clock[t] <= v[t]

Last(l) == Len(mem[l])
Latest(l) == mem[l][Last(l)].val

\* The messages a thread with view v may read.
Readable(v, l) == {i \in 1 .. Last(l) : v[l] <= i}

\* The view after reading message i of l.
Read(v, l, i, order) ==
  LET w == [v EXCEPT ![l] = i]
  IN  IF Acquires(order) THEN Join(w, mem[l][i].view) ELSE w

Message(val, v, rmw) == [val |-> val, view |-> v, rmw |-> rmw]
Released(v, order) == IF Releases(order) THEN v ELSE Bottom

\* Thread t, whose view was v, stores val.
Store(t, v, l, val, order) ==
  LET w == [v EXCEPT ![l] = Last(l) + 1]
  IN  /\ mem' = [mem EXCEPT ![l] = Append(@, Message(val, Released(w, order), FALSE))]
      /\ view' = [view EXCEPT ![t] = w]

\* Thread t, whose view was v, exchanges the last message for val; fence is
\* the ordering of a fence right after.
Swap(t, v, l, val, order, fence) ==
  LET old == mem[l][Last(l)].view
      w == [Read(v, l, Last(l), order) EXCEPT ![l] = Last(l) + 1]
  IN  /\ mem' = [mem EXCEPT ![l] =
                   Append(@, Message(val, Join(old, Released(w, order)), TRUE))]
      /\ view' = [view EXCEPT ![t] = IF Acquires(fence) THEN Join(w, old) ELSE w]

\* Thread t accesses plain memory.
Tick(t) == [view[t] EXCEPT ![t] = @ + 1]

----------------------------------------------------------------------------
(* Threads *)

PC == {"idle", "pop_next", "pop_swap", "push_zeroed", "load_version", "call",
       "store_version", "check", "dec", "drop_value", "push_next", "push_swap"}

TaggedIndex == [tag : Nat, idx : Slot \cup {SENTINEL}]

NoHead == [tag |-> 0, idx |-> 0]    \* never the value of the word

Idle == [pc |-> "idle", idx |-> 0, ver |-> 0, head |-> NoHead,
         next |-> SENTINEL, out |-> None]

Become(t, r) == th' = [th EXCEPT ![t] = r]
At(t, pc) == th[t].pc = pc
Unused(g) == guard[g] = None /\ \A t \in Thread : th[t].out # g

Init ==
  /\ mem = [l \in Word |->
              <<Message(IF l = FreeHead THEN [tag |-> 0, idx |-> SENTINEL] ELSE 0,
                        Bottom, FALSE)>>]
  /\ view = [t \in Thread |-> Bottom]
  /\ len = 0
  /\ th = [t \in Thread |-> Idle]
  /\ guard = [g \in Guard |-> None]
  /\ left \in Budgets
  /\ data = [s \in Slot |-> [ver |-> 0, written |-> NoClock, used |-> NoClock]]
  /\ zeroed = NoClock

\* The view with which t goes on once wait_for_chunk has found the pointer;
\* it reads past the null pointer the word started with.
Allocated == Last(Chunk) > 1
Located(t) == Read(view[t], Chunk, Last(Chunk), ChunkLoad)

\* t has used the content of s: its view is v from here on.
Uses(s, t, v) == data' = [data EXCEPT ![s].used[t] = v[t]]

----------------------------------------------------------------------------
(* insert *)

PopTarget(h) == IF h.idx = SENTINEL THEN "push_zeroed" ELSE "pop_next"

\* The heads that t may read and that are not the one it tried already.  (A
\* weak exchange that fails spuriously repeats what was done.)
Heads(t, v) == {i \in Readable(v, FreeHead) : mem[FreeHead][i].val # th[t].head}

\* t goes on with the free list from one of the heads it may read.
PopFrom(t, order) ==
  \E i \in Heads(t, view[t]) :
    /\ Become(t, [Idle EXCEPT !.pc = PopTarget(mem[FreeHead][i].val),
                              !.head = mem[FreeHead][i].val])
    /\ view' = [view EXCEPT ![t] = Read(@, FreeHead, i, order)]

BeginInsert(t) ==
  /\ At(t, "idle") /\ left.insert > 0
  /\ left' = [left EXCEPT !.insert = @ - 1]
  /\ PopFrom(t, PopLoad)
  /\ UNCHANGED <<mem, len, guard, data, zeroed>>

PopReadNext(t) ==
  /\ At(t, "pop_next")
  /\ LET l == NextFree(th[t].head.idx)
     IN  \E i \in Readable(Located(t), l) :
           /\ Become(t, [th[t] EXCEPT !.pc = "pop_swap", !.next = mem[l][i].val])
           /\ view' = [view EXCEPT ![t] = Read(Located(t), l, i, NextLoad)]
  /\ UNCHANGED <<mem, len, guard, left, data, zeroed>>

PopSwap(t) ==
  /\ At(t, "pop_swap") /\ Latest(FreeHead) = th[t].head
  /\ Swap(t, view[t], FreeHead, [tag |-> th[t].head.tag + 1, idx |-> th[t].next],
          PopSwapOrder, "Relaxed")
  /\ Become(t, [Idle EXCEPT !.pc = "load_version", !.idx = th[t].head.idx])
  /\ UNCHANGED <<len, guard, left, data, zeroed>>

\* The exchange failed on another head.
PopRetry(t) ==
  /\ At(t, "pop_swap")
  /\ PopFrom(t, PopLoad)
  /\ UNCHANGED <<mem, len, guard, left, data, zeroed>>

LoadVersion(t) ==
  /\ At(t, "load_version")
  /\ LET l == Version(th[t].idx)
     IN  \E i \in Readable(view[t], l) :
           /\ Become(t, [th[t] EXCEPT !.pc = "call",
                           !.ver = IF mem[l][i].val % 2 = 0 THEN mem[l][i].val + 1
                                   ELSE mem[l][i].val])
           /\ view' = [view EXCEPT ![t] = Read(@, l, i, VersionLoad)]
  /\ UNCHANGED <<mem, len, guard, left, data, zeroed>>

\* A new slot; the first one also allocates and zeroes the chunk.
PushZeroed(t) ==
  /\ At(t, "push_zeroed") /\ len < left.slots
  /\ len' = len + 1
  /\ IF Allocated
     THEN /\ view' = [view EXCEPT ![t] = Located(t)]
          /\ UNCHANGED <<mem, zeroed>>
     ELSE /\ zeroed' = [zeroed EXCEPT ![t] = Tick(t)[t]]
          /\ Swap(t, Tick(t), Chunk, 1, ChunkSwap, "Relaxed")
  /\ Become(t, [Idle EXCEPT !.pc = "call", !.idx = len, !.ver = 1])
  /\ UNCHANGED <<guard, left, data>>

\* The value is written and the map's own reference stored.
StoreRef(t) ==
  /\ At(t, "call")
  /\ data' = [data EXCEPT ![th[t].idx] =
                LET clock == [NoClock EXCEPT ![t] = Tick(t)[t]]
                IN  [ver |-> th[t].ver, written |-> clock, used |-> clock]]
  /\ Store(t, Tick(t), RefCount(th[t].idx), 1, RefStore)
  /\ Become(t, [th[t] EXCEPT !.pc = "store_version"])
  /\ UNCHANGED <<len, guard, left, zeroed>>

StoreVersion(t) ==
  /\ At(t, "store_version")
  /\ Store(t, view[t], Version(th[t].idx), th[t].ver, VersionStore)
  /\ Become(t, Idle)
  /\ UNCHANGED <<len, guard, left, data, zeroed>>

----------------------------------------------------------------------------
(* get, clone, drop *)

\* The relaxed loads before the exchange only decide how often it is tried; a
\* get that reads zero returns and does nothing.
AcquireGuard(t, s, ver, g) ==
  /\ At(t, "idle") /\ s < len /\ Unused(g) /\ left.get > 0
  /\ Latest(RefCount(s)) > 0
  /\ Swap(t, Located(t), RefCount(s), Latest(RefCount(s)) + 1, AcquireOrder, "Relaxed")
  /\ Become(t, [Idle EXCEPT !.pc = "check", !.idx = s, !.ver = ver, !.out = g])
  /\ left' = [left EXCEPT !.get = @ - 1]
  /\ UNCHANGED <<len, guard, data, zeroed>>

\* The version that is read decides between a guard and the way back.
CheckVersion(t) ==
  /\ At(t, "check")
  /\ LET l == Version(th[t].idx)
     IN  \E i \in Readable(view[t], l) :
           /\ view' = [view EXCEPT ![t] = Read(@, l, i, CheckLoad)]
           /\ IF mem[l][i].val = th[t].ver
              THEN /\ guard' = [guard EXCEPT ![th[t].out] =
                                  [by |-> t, idx |-> th[t].idx, ver |-> th[t].ver]]
                   /\ Become(t, Idle)
              ELSE /\ Become(t, [th[t] EXCEPT !.pc = "dec", !.out = None])
                   /\ UNCHANGED guard
  /\ UNCHANGED <<mem, len, left, data, zeroed>>

\* dec_ref_count by t with view v: the last reference brings the fence and the
\* duty to destroy the value.
DecRefCount(t, v, s) ==
  LET count == Latest(RefCount(s))
  IN  /\ Swap(t, v, RefCount(s), count - 1, DecOrder,
              IF count = 1 THEN DecFence ELSE "Relaxed")
      /\ Become(t, IF count = 1 THEN [Idle EXCEPT !.pc = "drop_value", !.idx = s] ELSE Idle)

\* A stale get or a remove gives a reference up.
GiveUp(t) ==
  /\ At(t, "dec")
  /\ DecRefCount(t, view[t], th[t].idx)
  /\ UNCHANGED <<len, guard, left, data, zeroed>>

\* Its owner reads the value for the last time and drops the guard.
DropGuard(t, g) ==
  /\ At(t, "idle") /\ guard[g] # None /\ guard[g].by = t
  /\ Uses(guard[g].idx, t, Tick(t))
  /\ DecRefCount(t, Tick(t), guard[g].idx)
  /\ guard' = [guard EXCEPT ![g] = None]
  /\ UNCHANGED <<len, left, zeroed>>

CloneGuard(t, g, h) ==
  /\ At(t, "idle") /\ guard[g] # None /\ guard[g].by = t
  /\ Unused(h) /\ left.get > 0
  /\ Swap(t, view[t], RefCount(guard[g].idx), Latest(RefCount(guard[g].idx)) + 1,
          CloneOrder, "Relaxed")
  /\ guard' = [guard EXCEPT ![h] = guard[g]]
  /\ left' = [left EXCEPT !.get = @ - 1]
  /\ UNCHANGED <<len, th, data, zeroed>>

\* A guard is Send: it moves to thread u by a channel, a join or a lock of the
\* client's, which synchronizes.
SendGuard(g, u) ==
  /\ guard[g] # None /\ guard[g].by # u /\ At(u, "idle") /\ left.get > 0
  /\ guard' = [guard EXCEPT ![g].by = u]
  /\ view' = [view EXCEPT ![u] = Join(@, view[guard[g].by])]
  /\ left' = [left EXCEPT !.get = @ - 1]
  /\ UNCHANGED <<mem, len, th, data, zeroed>>

----------------------------------------------------------------------------
(* remove *)

\* Mutant: remove does not look at the version it replaces.
Remove_Any(t, s) ==
  /\ At(t, "idle") /\ s < len
  /\ LET l == Version(s)
         loaded == Read(Located(t), l, Last(l), RemoveLoad)
     IN  Swap(t, loaded, l, Latest(l) + 1, RemoveSwapOrder, "Relaxed")
  /\ Become(t, [Idle EXCEPT !.pc = "dec", !.idx = s])
  /\ UNCHANGED <<len, guard, left, data, zeroed>>

\* The load and the exchange of remove: the exchange succeeds on the message
\* that was loaded, as an odd version is stored only once.
Remove(t, s) ==
  /\ At(t, "idle") /\ s < len /\ Latest(Version(s)) % 2 = 1
  /\ LET l == Version(s)
         loaded == Read(Located(t), l, Last(l), RemoveLoad)
     IN  Swap(t, loaded, l, Latest(l) + 1, RemoveSwapOrder, "Relaxed")
  /\ Become(t, [Idle EXCEPT !.pc = "dec", !.idx = s])
  /\ UNCHANGED <<len, guard, left, data, zeroed>>

----------------------------------------------------------------------------
(* drop_inner_value and push_free_index *)

\* t, whose view was v, is to push slot s onto one of the heads it may read.
PushOnto(t, v, s) ==
  \E i \in Heads(t, v) :
    /\ Become(t, [Idle EXCEPT !.pc = "push_next", !.idx = s, !.head = mem[FreeHead][i].val])
    /\ view' = [view EXCEPT ![t] = Read(v, FreeHead, i, PushHeadLoad)]

DropValue(t) ==
  /\ At(t, "drop_value")
  /\ Uses(th[t].idx, t, Tick(t))
  /\ PushOnto(t, Tick(t), th[t].idx)
  /\ UNCHANGED <<mem, len, guard, left, zeroed>>

\* The closure of an insertion returns Err.
CallErr(t) ==
  /\ At(t, "call")
  /\ PushOnto(t, view[t], th[t].idx)
  /\ UNCHANGED <<mem, len, guard, left, data, zeroed>>

PushStoreNext(t) ==
  /\ At(t, "push_next")
  /\ Store(t, view[t], NextFree(th[t].idx), th[t].head.idx, NextStore)
  /\ Become(t, [th[t] EXCEPT !.pc = "push_swap"])
  /\ UNCHANGED <<len, guard, left, data, zeroed>>

PushSwap(t) ==
  /\ At(t, "push_swap") /\ Latest(FreeHead) = th[t].head
  /\ Swap(t, view[t], FreeHead, [tag |-> th[t].head.tag + 1, idx |-> th[t].idx],
          PushSwapOrder, "Relaxed")
  /\ Become(t, Idle)
  /\ UNCHANGED <<len, guard, left, data, zeroed>>

PushRetry(t) ==
  /\ At(t, "push_swap")
  /\ PushOnto(t, view[t], th[t].idx)
  /\ UNCHANGED <<mem, len, guard, left, data, zeroed>>

----------------------------------------------------------------------------
InsertStep(t) == \/ BeginInsert(t) \/ PopReadNext(t) \/ PopSwap(t) \/ PopRetry(t)
                 \/ LoadVersion(t) \/ PushZeroed(t) \/ StoreRef(t) \/ StoreVersion(t)
GuardStep(t)  == \/ \E s \in Slot, ver \in Asked, g \in Guard : AcquireGuard(t, s, ver, g)
                 \/ CheckVersion(t) \/ GiveUp(t)
                 \/ \E g \in Guard : DropGuard(t, g)
                 \/ \E g, h \in Guard : CloneGuard(t, g, h)
                 \/ \E g \in Guard : SendGuard(g, t)
RemoveStep(t) == \E s \in Slot : Remove(t, s)
FreeStep(t)   == \/ DropValue(t) \/ CallErr(t)
                 \/ PushStoreNext(t) \/ PushSwap(t) \/ PushRetry(t)

Next == \E t \in Thread : InsertStep(t) \/ GuardStep(t) \/ RemoveStep(t) \/ FreeStep(t)

Spec == Init /\ [][Next]_vars

----------------------------------------------------------------------------
(* Properties *)

Clock == [Thread -> Nat]
View == [Known -> Nat]

OrderingsTypeOK ==
  /\ \A l \in Word : \A i \in 1 .. Last(l) :
       /\ mem[l][i].view \in View /\ mem[l][i].rmw \in BOOLEAN
       /\ mem[l][i].val \in IF l = FreeHead THEN TaggedIndex ELSE Nat
  /\ view \in [Thread -> View] /\ len \in 0 .. MaxSlots
  /\ th \in [Thread -> [pc : PC, idx : Slot, ver : Nat, head : TaggedIndex,
                        next : Slot \cup {SENTINEL}, out : Guard \cup {None}]]
  /\ guard \in [Guard -> [by : Thread, idx : Slot, ver : Nat] \cup {None}]
  /\ left \in [insert : Nat, get : Nat, slots : 1 .. MaxSlots]
  /\ data \in [Slot -> [ver : Nat, written : Clock, used : Clock]]
  /\ zeroed \in Clock

\* A thread about to write or to destroy the content of a slot has every
\* access to it that others made behind it: no guard's read, on whichever
\* thread the guard was dropped, races with the destructor (slot.rs:123-134)
\* or with the next value written there (lib.rs:376-381).
AccessesOrdered ==
  \A t \in Thread : th[t].pc \in {"call", "drop_value"} =>
    Knows(view[t], data[th[t].idx].used)

\* Whoever has a guard sees the value that was written under the guard's key,
\* whole, and not that of an earlier or a later insertion into the slot.
GuardsSynchronized ==
  \A g \in Guard : guard[g] # None =>
    /\ data[guard[g].idx].ver = guard[g].ver
    /\ Knows(view[guard[g].by], data[guard[g].idx].written)

\* No word of a slot is touched before its zeroing is visible ("whatever could
\* possibly be visible to readers is always zeroed", vec.rs:284).
ZeroingSeen ==
  \A t \in Thread :
    \/ th[t].pc \in {"idle", "push_zeroed", "pop_next"}
    \/ Knows(view[t], zeroed)

\* debug_assert_exclusively_owned holds of whatever a thread that popped, fills
\* or frees a slot may read of its two words: no references, no occupant.
AssertsHold ==
  \A t \in Thread :
    th[t].pc \in {"load_version", "call", "drop_value", "push_next", "push_swap"} =>
      /\ \A i \in Readable(view[t], RefCount(th[t].idx)) :
           mem[RefCount(th[t].idx)][i].val = 0
      /\ \A i \in Readable(view[t], Version(th[t].idx)) :
           mem[Version(th[t].idx)][i].val % 2 = 0

\* The messages of l that v hides nothing of are read-modify-writes: a blind
\* decrement with view v cannot slip in before the store of a reference.
StoresKnown(v, l) == \A i \in 1 .. Last(l) : v[l] < i => mem[l][i].rmw

\* A plain store goes after all that was written before, the version a reused
\* slot is given is the one after its last, and a reference is given up only
\* where it was taken: there is one order of writes and all agree on it.
WritesInOrder ==
  /\ \A t \in Thread :
       /\ At(t, "load_version") => view[t][Version(th[t].idx)] = Last(Version(th[t].idx))
       /\ At(t, "call") => view[t][RefCount(th[t].idx)] = Last(RefCount(th[t].idx))
       /\ At(t, "store_version") => view[t][Version(th[t].idx)] = Last(Version(th[t].idx))
       /\ At(t, "push_next") => view[t][NextFree(th[t].idx)] = Last(NextFree(th[t].idx))
       /\ th[t].pc \in {"check", "dec"} => StoresKnown(view[t], RefCount(th[t].idx))
  /\ \A g \in Guard : guard[g] # None =>
       StoresKnown(view[guard[g].by], RefCount(guard[g].idx))

\* The successor a pop installs is the one its slot was last linked to,
\* however old the values it may have read are (lib.rs:554-584).
SuccessorCurrent ==
  \A t \in Thread : At(t, "pop_swap") /\ Latest(FreeHead) = th[t].head =>
    th[t].next = Latest(NextFree(th[t].head.idx))
=============================================================================
