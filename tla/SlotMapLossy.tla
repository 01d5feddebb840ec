---------------------------- MODULE SlotMapLossy ----------------------------
(***************************************************************************)
(* The methods of the feature "lossy" on a shared AtomicSlotMap: an        *)
(* iterator that looks at one slot after the other while other threads     *)
(* insert and remove, and reserve.  (lossy_len, lossy_is_empty and         *)
(* capacity read and return: they have no action.)                         *)
(*                                                                         *)
(* The iterator is a local of its thread: what the client does between two *)
(* calls to next, the other threads do here.                               *)
(***************************************************************************)
EXTENDS SlotMapRefinement

CONSTANTS
  Lossy,      \* bound: the threads that iterate and reserve
  Amounts     \* bound: what reserve is called with

ASSUME LossyAssumption == Lossy \subseteq Thread /\ Amounts \subseteq Nat

VARIABLES
  lz,         \* the iterator or reserve of each thread in Lossy, and where it is
  \* History, read by no guard of the code:
  yielded,    \* the values a thread's iterator has returned
  stayed      \* the values in the map ever since the iterator was made

lossyVars == <<vars, lz, yielded, stayed>>

LossyPC == {"none", "next", "read", "get", "getting", "res_len", "res_vec"}

\* cur is current_idx and ver the version read of the slot before it; total
\* and more are what reserve has computed, from is lossy_len when it began.
NoCall == [pc |-> "none", cur |-> 0, ver |-> 0, from |-> 0, more |-> 0, needed |-> 0]

\* Thread t's lossy call goes on in state r.
GoOn(t, r) == lz' = [lz EXCEPT ![t] = r]
Does(t, pc) == lz[t].pc = pc
Here(t) == lz[t].cur - 1

LossyInit ==
  /\ Init
  /\ lz = [t \in Lossy |-> NoCall]
  /\ yielded = [t \in Lossy |-> {}] /\ stayed = [t \in Lossy |-> {}]

----------------------------------------------------------------------------
(* LossyIter *)

NewIter(t) ==
  /\ life = "open" /\ At(t, "idle") /\ Does(t, "none")
  /\ GoOn(t, [NoCall EXCEPT !.pc = "next"])
  /\ yielded' = [yielded EXCEPT ![t] = {}]
  /\ UNCHANGED vars

\* The client drops the iterator.
DropIter(t) ==
  /\ Does(t, "next")
  /\ GoOn(t, NoCall)
  /\ UNCHANGED <<vars, yielded>>

\* Mutant: the last slot is left out.
IterEnd_Early(t) ==
  /\ Does(t, "next") /\ lz[t].cur + 1 >= len
  /\ GoOn(t, NoCall)
  /\ UNCHANGED <<vars, yielded>>

IterEnd(t) ==
  /\ Does(t, "next") /\ lz[t].cur >= len
  /\ GoOn(t, NoCall)
  /\ UNCHANGED <<vars, yielded>>

\* Mutant: the index is not compared with the length.
IterNext_Past(t) ==
  /\ Does(t, "next")
  /\ GoOn(t, [lz[t] EXCEPT !.pc = "read", !.cur = @ + 1])
  /\ UNCHANGED <<vars, yielded>>

IterNext(t) ==
  /\ Does(t, "next") /\ lz[t].cur < len
  /\ GoOn(t, [lz[t] EXCEPT !.pc = "read", !.cur = @ + 1])
  /\ UNCHANGED <<vars, yielded>>

\* Only a slot of the vector with an odd version is worth a get.
IterRead(t) ==
  /\ Does(t, "read") /\ (Here(t) < len => Reachable(Here(t)))
  /\ GoOn(t, IF Here(t) < len /\ Occupied(Here(t))
             THEN [lz[t] EXCEPT !.pc = "get", !.ver = version[Here(t)]]
             ELSE [lz[t] EXCEPT !.pc = "next"])
  /\ UNCHANGED <<vars, yielded>>

IterGet(t, g) ==
  /\ Does(t, "get")
  /\ BeginGet(t, [idx |-> Here(t), ver |-> lz[t].ver], g)
  /\ GoOn(t, [lz[t] EXCEPT !.pc = "getting"])
  /\ UNCHANGED yielded

\* The count is zero, and the iterator goes on, or over the cap: next panics,
\* and with it the client's loop.
IterMiss(t) ==
  /\ Does(t, "get") /\ ~Acquirable(ref_count[Here(t)])
  /\ GoOn(t, IF ref_count[Here(t)] = 0 THEN [lz[t] EXCEPT !.pc = "next", !.ver = 0]
             ELSE NoCall)
  /\ UNCHANGED <<vars, yielded>>

\* The get of an iterator returns a guard.
Yields(t) == Does(t, "getting") /\ At(t, "check") /\ th'[t].pc = "idle"

\* It panics, on a count over the cap or in a destructor.
Unwinds(t) ==
  \/ At(t, "acquire") /\ ref_count[th[t].idx] > MAX_REFCOUNT
  \/ leaked' # leaked

\* A step of the get of an iterator, which goes on when the get returns.
IterStep(t) ==
  /\ Does(t, "getting") /\ Step(t)
  /\ lz' = IF th'[t].pc # "idle" THEN lz
           ELSE [lz EXCEPT ![t] = IF Unwinds(t) THEN NoCall
                                  ELSE [@ EXCEPT !.pc = "next", !.ver = 0]]
  /\ yielded' = IF Yields(t) THEN [yielded EXCEPT ![t] = @ \cup {data[th[t].idx]}]
                ELSE yielded

----------------------------------------------------------------------------
(* reserve *)

\* lossy_len() + additional
BeginReserve(t, additional) ==
  /\ life = "open" /\ At(t, "idle") /\ Does(t, "none")
  /\ GoOn(t, [NoCall EXCEPT !.pc = "res_len", !.from = num_elems, !.more = additional])
  /\ UNCHANGED <<vars, yielded>>

ReserveNeeded(t) ==
  /\ Does(t, "res_len")
  /\ LET sum == lz[t].from + lz[t].more
     IN  GoOn(t, [lz[t] EXCEPT !.pc = "res_vec", !.needed = IF sum > len THEN sum - len ELSE 0])
  /\ UNCHANGED <<vars, yielded>>

\* AtomicVec::reserve reads the length again.
Target(t) == len + lz[t].needed

\* Mutant: the vector is taken to be empty.
ReserveChunks_Empty(t) ==
  /\ Does(t, "res_vec") /\ Target(t) <= MaxSlots
  /\ chunks' = chunks \cup ChunksFor(lz[t].needed)
  /\ GoOn(t, NoCall)
  /\ UNCHANGED <<len, slotVars, mapVars, th, history, yielded>>

ReserveChunks(t) ==
  /\ Does(t, "res_vec") /\ Target(t) <= MaxSlots
  /\ chunks' = chunks \cup ChunksFor(Target(t))
  /\ GoOn(t, NoCall)
  /\ UNCHANGED <<len, slotVars, mapVars, th, history, yielded>>

\* "capacity has overflowed the maximum 32-bit limit"
ReservePanics(t) ==
  /\ Does(t, "res_vec") /\ Target(t) > MaxSlots
  /\ GoOn(t, NoCall)
  /\ UNCHANGED <<vars, yielded>>

----------------------------------------------------------------------------
\* What a new iterator finds in the map, and what is left of it.
Watch ==
  stayed' = [t \in Lossy |->
    IF lz'[t].pc \in {"none", "res_len", "res_vec"} THEN {}
    ELSE IF Does(t, "none") THEN Bound ELSE stayed[t] \cap Bound']

\* Steps of the map outside of iterators.  The map outlives what borrows it.
MapStep(t) == (t \in Lossy => Does(t, "none")) /\ (Call(t) \/ Step(t))
Aside == UNCHANGED <<lz, yielded>> /\ Watch
Unborrowed == \A t \in Lossy : Does(t, "none")

LossyNext ==
  \/ \E t \in Thread : MapStep(t) /\ Aside
  \/ \E g, h \in Guard : CloneGuard(g, h) /\ Aside
  \/ Unborrowed /\ CloseMap /\ Aside
  \/ DropMap /\ Aside
  \/ Freed /\ Aside
  \/ \E t \in Lossy :
       \/ NewIter(t) /\ Watch
       \/ DropIter(t) /\ Watch
       \/ IterEnd(t) /\ Watch
       \/ IterNext(t) /\ Watch
       \/ IterRead(t) /\ Watch
       \/ \E g \in Guard \ OwningGuard : IterGet(t, g) /\ Watch
       \/ IterMiss(t) /\ Watch
       \/ IterStep(t) /\ Watch
       \/ \E n \in Amounts : BeginReserve(t, n) /\ Watch
       \/ ReserveNeeded(t) /\ Watch
       \/ ReserveChunks(t) /\ Watch
       \/ ReservePanics(t) /\ Watch

LossySpec == LossyInit /\ [][LossyNext]_lossyVars

----------------------------------------------------------------------------
(* Properties *)

LossyTypeOK ==
  /\ TypeOK
  /\ lz \in [Lossy -> [pc : LossyPC, cur : 0 .. MaxSlots, ver : Version,
                        from : 0 .. CountMod - 1, more : Amounts \cup {0}, needed : Nat]]
  /\ yielded \in [Lossy -> SUBSET Value] /\ stayed \in [Lossy -> SUBSET Value]

\* An iterator that runs to its end has returned every value that was in the
\* map from its creation to its end, however the gets, insertions, removals and
\* dropped guards of other threads interleave with it ("equivalent to
\* generating every valid key for any slot and trying to lock it", iter.rs:13).
IterComplete ==
  [][\A t \in Lossy : IterEnd(t) => stayed[t] \subseteq yielded[t]]_lossyVars

\* What an iterator returns is in the map at the moment its get succeeds, even
\* if the version it built the key from was read before the slot was emptied
\* and filled again, and it returns no value twice.
IterYieldsPresent ==
  [][\A t \in Lossy : Yields(t) => data[th[t].idx] \in Bound \ yielded[t]]_lossyVars

\* A reserve that returns leaves chunks for what lossy_len said when it began
\* and additional more, whatever is pushed between its three reads.  (Slots of
\* removed values that guards hold are among these, though not free: the room
\* may be for fewer than "at least additional more elements", lib.rs:681.)
ReserveDelivers ==
  [][\A t \in Lossy : ReserveChunks(t) =>
       ChunksFor(lz[t].from + lz[t].more) \subseteq chunks']_lossyVars

\* A reserve panics only "if the new allocation size overflows u32"
\* (lib.rs:694): if there is no room for additional elements more than there
\* are slots.
ReservePanicsJustified ==
  [][\A t \in Lossy : ReservePanics(t) => len + lz[t].more > MaxSlots]_lossyVars
----------------------------------------------------------------------------
(* What the proofs carry *)

Iterating(t) == lz[t].pc \in {"next", "read", "get", "getting"}

\* The slots before this one are behind the iterator.
Passed(t) == IF Does(t, "next") THEN lz[t].cur ELSE Here(t)

\* A thread with an iterator or a reserve makes no other call, and none outlives
\* the map; the get of an iterator is for the slot and the version it has read.
LossyLocals ==
  \A t \in Lossy :
    /\ ~Does(t, "none") => life = "open" /\ (~Does(t, "getting") => At(t, "idle"))
    /\ lz[t].pc \in {"read", "get", "getting"} => lz[t].cur \in 1 .. len
    /\ Does(t, "get") => lz[t].ver % 2 = 1
    /\ Does(t, "getting") =>
         /\ th[t].op = "get"
         /\ th[t].pc \in {"acquire", "check", "undo", "drop_value",
                          "push_load", "push_next", "push_swap"}
         /\ th[t].pc \in {"acquire", "check"} => th[t].idx = Here(t) /\ th[t].ver = lz[t].ver
    /\ Does(t, "res_vec") => len + lz[t].needed >= lz[t].from + lz[t].more

\* What an iterator has returned is behind it.
YieldedPassed ==
  \A t \in Lossy : Iterating(t) =>
    \A v \in yielded[t] : keyOf[v] # None /\ keyOf[v].idx < Passed(t)

\* What stays in the map is ahead of the iterator or was returned; if it is in
\* the slot the iterator is at, the get that is under way is for its key and
\* has not given up.
StayedAhead ==
  \A t \in Lossy : Iterating(t) =>
    \A v \in stayed[t] :
      /\ v \in Bound
      /\ keyOf[v].idx < Passed(t) => v \in yielded[t]
      /\ lz[t].pc \in {"get", "getting"} /\ keyOf[v].idx = Here(t) =>
           /\ keyOf[v].ver = lz[t].ver
           /\ Does(t, "getting") => th[t].pc \in {"acquire", "check"}

=============================================================================
