-------------------------- MODULE SlotMapLiveness --------------------------
(***************************************************************************)
(* What AtomicSlotMap must get done, and where it has to wait.  A push     *)
(* takes its index before the chunk is there, and a get or a remove of     *)
(* such an index spins in wait_for_chunk.  SlotMap has no call for such an *)
(* index; here the call is in progress and spins.                          *)
(***************************************************************************)
EXTENDS SlotMapInvariants

VARIABLE waiting    \* the call that each thread has in wait_for_chunk

liveVars == <<vars, waiting>>

\* out is the guard a get is to return, None for a remove; turn counts the
\* turns of the loop, modulo 2: they change nothing else.
Wait == [key : Key, out : Guard \cup {None}, turn : {0, 1}]

Waits(t) == waiting[t] # None
InCall(t) == ~At(t, "idle") \/ Waits(t)
Reserved(g) == g # None /\ \E t \in Thread : Waits(t) /\ waiting[t].out = g

LiveInit == Init /\ waiting = [t \in Thread |-> None]

----------------------------------------------------------------------------
(* wait_for_chunk *)

BeginWait(t, k, g) ==
  /\ life = "open" /\ ~InCall(t)
  /\ k.idx < len /\ ChunkOf(k.idx) \notin chunks
  /\ g # None => Unused(g) /\ ~Reserved(g)
  /\ waiting' = [waiting EXCEPT ![t] = [key |-> k, out |-> g, turn |-> 0]]
  /\ UNCHANGED vars

Spin(t) ==
  /\ Waits(t) /\ ChunkOf(waiting[t].key.idx) \notin chunks
  /\ waiting' = [waiting EXCEPT ![t].turn = 1 - @]
  /\ UNCHANGED vars

\* The chunk is there: the get or remove goes on, or returns if the first word
\* it reads refutes the key.
Resume(t) ==
  /\ Waits(t) /\ Reachable(waiting[t].key.idx)
  /\ waiting' = [waiting EXCEPT ![t] = None]
  /\ LET k == waiting[t].key
         g == waiting[t].out
     IN  \/ g # None /\ BeginGet(t, k, g)
         \/ g = None /\ BeginRemove(t, k)
         \/ /\ IF g # None THEN ~Acquirable(ref_count[k.idx]) ELSE version[k.idx] # k.ver
            /\ UNCHANGED vars

----------------------------------------------------------------------------
\* A thread in a call gets on with it.
Proceed(t) == (Step(t) /\ UNCHANGED waiting) \/ Resume(t)

LiveNext ==
  \/ \E t \in Thread : ~InCall(t) /\ Call(t) /\ ~Reserved(th'[t].out) /\ UNCHANGED waiting
  \/ \E t \in Thread, k \in Key, g \in Guard \cup {None} : BeginWait(t, k, g)
  \/ \E t \in Thread : Proceed(t) \/ Spin(t)
  \/ \E g, h \in Guard : CloneGuard(g, h) /\ ~Reserved(h) /\ UNCHANGED waiting
  \/ (\A t \in Thread : ~Waits(t)) /\ CloseMap /\ UNCHANGED waiting
  \/ DropMap /\ UNCHANGED waiting
  \/ Freed /\ UNCHANGED waiting

\* Some thread that is in a call runs.  The others may be suspended where they
\* are, for ever.
LiveSpec ==
  LiveInit /\ [][LiveNext]_liveVars
           /\ WF_liveVars(\E t \in Thread : Proceed(t) \/ Spin(t))

\* Every thread that is in a call runs.  Clients need not call, drop a guard or
\* remove a key.
Scheduled == \A t \in Thread : WF_liveVars(Proceed(t))

\* compare_exchange_weak may fail although the words are the same.
Spurious ==
  \E t \in Thread :
    \/ At(t, "pop_swap") /\ SameWord(free_head, th[t].head) /\ PopRetry(t)
    \/ At(t, "push_swap") /\ SameWord(free_head, th[t].head) /\ PushRetry(t)

Returns == \E t \in Thread : InCall(t) /\ ~InCall(t)'

\* Some reader waits for a chunk that a push, where it stands, has yet to install.
PushAwaited ==
  \E t, u \in Thread :
    /\ Waits(t) /\ At(u, "ensure_chunk")
    /\ ChunkOf(th[u].idx) = ChunkOf(waiting[t].key.idx)

\* Lock-freedom ("The lock-free-ness of this slotmap", lib.rs:110), whichever
\* threads are suspended in the middle of their calls: as long as any thread that
\* is in a call runs, calls return, unless weak exchanges fail spuriously for
\* ever.  The source has one exception (vec.rs:316-318), which is part of the
\* property: it may be that readers in wait_for_chunk are all that runs, while
\* the push they wait for is suspended before it has installed the chunk.
LockFree ==
  \/ []<><<Spurious>>_liveVars
  \/ []<><<Returns>>_liveVars
  \/ []<>(\A t \in Thread : ~InCall(t))
  \/ <>[]PushAwaited /\ <>[][\A t \in Thread : ~Proceed(t)]_liveVars

\* No get is in the middle of taking or returning a reference to s.
NoGet(s) == \A t \in Thread : ~(th[t].op = "get" /\ th[t].idx = s)

\* A value that was removed, and that no guard holds, still in its slot.
Lingers(v) ==
  /\ life # "freed" /\ keyOf[v] # None /\ drops[v] = 0
  /\ version[keyOf[v].idx] # keyOf[v].ver
  /\ \A g \in Guard : guard[g] # keyOf[v]

\* A removed value does not stay in its slot when every thread is scheduled, no
\* guard holds it and no get touches the slot any more: "it will be eventually
\* dropped" (lib.rs:464).
RemovedDestroyed ==
  Scheduled =>
    \/ []<><<Spurious>>_liveVars
    \/ \A v \in Value : []<>(Lingers(v) => ~NoGet(keyOf[v].idx))

\* A slot whose value is gone becomes available again when every thread is
\* scheduled: it does not stay owned by a call for ever, and only a panic keeps
\* it off the free list.
SlotsRecycled ==
  Scheduled =>
    \/ []<><<Spurious>>_liveVars
    \/ \A s \in Slot : []<>(\/ s >= len \/ Occupied(s) \/ ref_count[s] > 0
                            \/ OnFreeList(s) \/ s \in leaked)
=============================================================================
