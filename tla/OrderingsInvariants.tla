------------------------- MODULE OrderingsInvariants ------------------------
(***************************************************************************)
(* What the proofs about Orderings carry from step to step.  The words are *)
(* sound as they were last written, as in SlotMap; and the last message of *)
(* a word has seen what whoever acquires it must know: that of free_head   *)
(* all that was done to the slots of the free list, that of a reference    *)
(* count all that was done to the slot while the references were held.     *)
(***************************************************************************)
EXTENDS Orderings

----------------------------------------------------------------------------
(* Messages *)

Messages(l) == [val : IF l = FreeHead THEN TaggedIndex ELSE Nat, view : View, rmw : BOOLEAN]

\* A view does not go beyond the messages there are.
Bounded(v) == v \in View /\ \A l \in Word : 1 <= v[l] /\ v[l] <= Last(l)

\* The tags and the versions count the messages of their words.
Memory ==
  /\ mem = [l \in Word |-> mem[l]] /\ \A l \in Word : mem[l] \in Seq(Messages(l))
  /\ \A l \in Word : Last(l) >= 1 /\ \A i \in 1 .. Last(l) : Bounded(mem[l][i].view)
  /\ \A i \in 1 .. Last(FreeHead) :
       LET h == mem[FreeHead][i].val
       IN  h.tag = i - 1 /\ (h.idx = SENTINEL \/ h.idx < len)
  /\ \A s \in Slot :
       /\ \A i \in 1 .. Last(Version(s)) : mem[Version(s)][i].val = i - 1
       /\ \A i \in 1 .. Last(NextFree(s)) : mem[NextFree(s)][i].val \in Slot \cup {SENTINEL}

ThreadState == [pc : PC, idx : Slot, ver : Nat, head : TaggedIndex,
                next : Slot \cup {SENTINEL}, out : Guard \cup {None}]
GuardState == [by : Thread, idx : Slot, ver : Nat]

Locals ==
  /\ view \in [Thread -> View] /\ \A t \in Thread : Bounded(view[t])
  /\ len \in 0 .. MaxSlots
  /\ th \in [Thread -> ThreadState]
  /\ guard \in [Guard -> GuardState \cup {None}]
  /\ left \in [insert : Nat, get : Nat, slots : 1 .. MaxSlots]
  /\ data \in [Slot -> [ver : Nat, written : Clock, used : Clock]]
  /\ zeroed \in Clock

----------------------------------------------------------------------------
(* The words as they were last written *)

Refs(s) == Latest(RefCount(s))
Occupied(s) == Latest(Version(s)) % 2 = 1
Linked(s) == Latest(NextFree(s))
ListHead == Latest(FreeHead)
LastView(l) == mem[l][Last(l)].view

RefPC == {"store_version", "check", "dec"}
RefThreads(s) == {t \in Thread : th[t].pc \in RefPC /\ th[t].idx = s}
RefGuards(s) == {g \in Guard : guard[g] # None /\ guard[g].idx = s}
MapRef(s) == IF Occupied(s) THEN 1 ELSE 0

\* A count is exactly the map's reference, the guards' and those of calls.
RefsExact ==
  \A s \in Slot : Refs(s) =
    MapRef(s) + Cardinality(RefGuards(s)) + Cardinality(RefThreads(s))

OwnerPC == {"load_version", "call", "store_version", "drop_value", "push_next", "push_swap"}
Owns(t, s) == th[t].pc \in OwnerPC /\ th[t].idx = s

\* An owner is alone with its slot.
OwnersAlone ==
  \A t \in Thread, s \in Slot : Owns(t, s) =>
    /\ ~Occupied(s)
    /\ th[t].pc # "store_version" => Refs(s) = 0
    /\ \A u \in Thread \ {t} : ~Owns(u, s)

\* A slot that no one has is on the free list.
Free(s) == s < len /\ ~Occupied(s) /\ Refs(s) = 0 /\ \A t \in Thread : ~Owns(t, s)

\* The list never leaves the free slots, and leads to each at most once.
ListSound ==
  /\ ListHead.idx # SENTINEL => Free(ListHead.idx)
  /\ \A s \in Slot : Free(s) /\ Linked(s) # SENTINEL =>
       /\ Free(Linked(s)) /\ Linked(s) # ListHead.idx
       /\ \A r \in Slot : Free(r) /\ Linked(r) = Linked(s) => r = s

\* A slot beyond the length is as it was zeroed.
Untouched ==
  \A s \in Slot : s >= len =>
    /\ Last(Version(s)) = 1 /\ Last(RefCount(s)) = 1 /\ Last(NextFree(s)) = 1
    /\ Refs(s) = 0 /\ data[s].used = NoClock

\* What threads keep of the words they have read.
LocalsSound ==
  /\ \A t \in Thread :
       /\ th[t].pc \in OwnerPC \cup {"check", "dec"} => th[t].idx < len
       /\ th[t].pc \in {"call", "store_version"} => th[t].ver = Last(Version(th[t].idx))
       /\ At(t, "store_version") => data[th[t].idx].ver = th[t].ver
       /\ At(t, "check") => th[t].ver % 2 = 1 /\ th[t].out # None
       /\ th[t].out # None => /\ guard[th[t].out] = None
                              /\ \A u \in Thread \ {t} : th[u].out # th[t].out
  /\ \A g \in Guard : guard[g] # None => guard[g].idx < len

\* A head that is kept was written; if it is the head still, so is its successor.
HeadsRead ==
  \A t \in Thread :
    /\ th[t].pc \in {"pop_next", "pop_swap", "push_next", "push_swap"} =>
         /\ th[t].head.tag < Last(FreeHead)
         /\ mem[FreeHead][th[t].head.tag + 1].val = th[t].head
    /\ th[t].pc \in {"pop_next", "pop_swap"} => th[t].head.idx # SENTINEL
    /\ At(t, "pop_next") /\ ListHead = th[t].head =>
         view[t][NextFree(th[t].head.idx)] = Last(NextFree(th[t].head.idx))
    /\ At(t, "push_swap") => Linked(th[t].idx) = th[t].head.idx

\* The content of a slot with a reference was written for its current version,
\* or for the one that was just removed, or will be published next.
ContentCurrent ==
  \A s \in Slot : Refs(s) > 0 =>
    /\ data[s].ver % 2 = 1
    /\ data[s].ver <= Last(Version(s)) /\ Last(Version(s)) <= data[s].ver + 2

----------------------------------------------------------------------------
(* Who has seen what *)

\* All that was done to slot s.
Full(v, s) ==
  /\ v[RefCount(s)] = Last(RefCount(s))
  /\ v[Version(s)] = Last(Version(s))
  /\ v[NextFree(s)] = Last(NextFree(s))
  /\ Knows(v, data[s].used)

OwnersSee == \A t \in Thread, s \in Slot : Owns(t, s) =>
  IF At(t, "store_version") THEN view[t][Version(s)] = Last(Version(s)) ELSE Full(view[t], s)

\* Whoever acquires the head knows all of the slots on the list.
HeadSees == \A s \in Slot : Free(s) => Full(LastView(FreeHead), s)

\* A removal the count does not know of yet will still give its reference up.
Removal(s) == \E t \in Thread :
  At(t, "dec") /\ th[t].idx = s /\ view[t][Version(s)] = Last(Version(s))

\* Whoever acquires a count knows of the accesses to the content, and of the
\* version it was written for.
CountsSee ==
  \A s \in Slot : Refs(s) > 0 =>
    LET v == LastView(RefCount(s))
    IN  /\ v[NextFree(s)] = Last(NextFree(s))
        /\ Knows(v, data[s].used) /\ Knows(v, data[s].written)
        /\ v[Version(s)] >= data[s].ver
        /\ \/ v[Version(s)] = Last(Version(s)) \/ Occupied(s) \/ Removal(s)
           \/ \E t \in Thread : At(t, "store_version") /\ th[t].idx = s

\* A get that has its reference will see the version of the content, and its
\* store of the count is known to whoever has a reference or will take one over.
GetsSee ==
  \A t \in Thread :
    /\ At(t, "check") => /\ Knows(view[t], data[th[t].idx].written)
                         /\ view[t][Version(th[t].idx)] >= data[th[t].idx].ver
    /\ th[t].pc \in RefPC => StoresKnown(view[t], RefCount(th[t].idx))

VersionsSee ==
  \A s \in Slot : Occupied(s) => StoresKnown(LastView(Version(s)), RefCount(s))

GuardsSee ==
  \A g \in Guard : guard[g] # None => /\ StoresKnown(view[guard[g].by], RefCount(guard[g].idx))
                                      /\ Knows(view[guard[g].by], zeroed)

\* The zeroing of the chunk is known to whoever has looked at it.
ChunkSees ==
  IF Allocated THEN Knows(LastView(Chunk), zeroed) ELSE len = 0 /\ zeroed = NoClock

OrderInv ==
  /\ Memory /\ Locals /\ RefsExact /\ OwnersAlone /\ ListSound /\ Untouched
  /\ LocalsSound /\ HeadsRead /\ SuccessorCurrent /\ ContentCurrent
  /\ OwnersSee /\ HeadSees /\ CountsSee /\ GetsSee /\ VersionsSee /\ GuardsSee
  /\ GuardsSynchronized /\ ChunkSees /\ ZeroingSeen
=============================================================================
