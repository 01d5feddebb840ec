---------------------------- MODULE OrderingsProofs ----------------------------
(***************************************************************************)
(* Proofs about Orderings, for any threads, guards and budgets and for any *)
(* number of slots: whatever messages the loads return, OrderInv holds,    *)
(* and with it every property that the run checks.                         *)
(***************************************************************************)
EXTENDS OrderingsInvariants, FiniteSetTheorems, TLAPS

----------------------------------------------------------------------------
(* Words and views *)

\* The words are distinct.
LEMMA Words ==
  /\ FreeHead \in Word /\ Chunk \in Word /\ FreeHead # Chunk
  /\ \A s \in Slot :
       /\ RefCount(s) \in Word /\ Version(s) \in Word /\ NextFree(s) \in Word
       /\ RefCount(s) # FreeHead /\ Version(s) # FreeHead /\ NextFree(s) # FreeHead
       /\ RefCount(s) # Chunk /\ Version(s) # Chunk /\ NextFree(s) # Chunk
       /\ \A r \in Slot :
            /\ RefCount(s) # Version(r) /\ RefCount(s) # NextFree(r)
            /\ Version(s) # NextFree(r)
            /\ r # s => /\ RefCount(s) # RefCount(r) /\ Version(s) # Version(r)
                        /\ NextFree(s) # NextFree(r)
<1>1. /\ FreeHead \in Word /\ Chunk \in Word
      /\ \A s \in Slot : RefCount(s) \in Word /\ Version(s) \in Word /\ NextFree(s) \in Word
  BY DEF Word
<1>2. FreeHead # Chunk  BY DEF FreeHead, Chunk
<1>3. ASSUME NEW s \in Slot
      PROVE  /\ RefCount(s) # FreeHead /\ Version(s) # FreeHead /\ NextFree(s) # FreeHead
             /\ RefCount(s) # Chunk /\ Version(s) # Chunk /\ NextFree(s) # Chunk
  BY DEF FreeHead, Chunk, RefCount, Version, NextFree
<1>4. ASSUME NEW s \in Slot, NEW r \in Slot
      PROVE  /\ RefCount(s) # Version(r) /\ RefCount(s) # NextFree(r)
             /\ Version(s) # NextFree(r)
             /\ r # s => /\ RefCount(s) # RefCount(r) /\ Version(s) # Version(r)
                         /\ NextFree(s) # NextFree(r)
  BY DEF RefCount, Version, NextFree
<1>. QED  BY <1>1, <1>2, <1>3, <1>4

\* A word is no thread.
LEMMA Apart == \A l \in Word : l \notin Thread
BY WordAssumption

\* View v knows no more than view w.
Below(v, w) == \A x \in Known : v[x] <= w[x]

LEMMA BottomLowest ==
  /\ Bottom \in View
  /\ \A l \in Word : Bottom[l] = 1
  /\ \A t \in Thread : Bottom[t] = 0
BY Apart DEF Bottom, View, Known

LEMMA JoinAbove ==
  ASSUME NEW v \in View, NEW w \in View
  PROVE  /\ Join(v, w) \in View /\ Below(v, Join(v, w)) /\ Below(w, Join(v, w))
         /\ \A x \in Known : Join(v, w)[x] = v[x] \/ Join(v, w)[x] = w[x]
BY DEF Join, View, Below

LEMMA BelowTrans ==
  ASSUME NEW u \in View, NEW v \in View, NEW w \in View, Below(u, v), Below(v, w)
  PROVE  Below(u, w)
BY DEF Below, View

\* What a later view knows.
LEMMA Later ==
  ASSUME NEW v \in View, NEW w \in View, Below(v, w)
  PROVE  /\ \A c \in Clock : Knows(v, c) => Knows(w, c)
         /\ \A l \in Word : v[l] <= w[l]
         /\ \A t \in Thread : v[t] <= w[t]
         /\ \A l \in Word : Last(l) \in Nat /\ StoresKnown(v, l) => StoresKnown(w, l)
         /\ \A s \in Slot : Bounded(w) /\ Last(RefCount(s)) \in Nat /\ Last(Version(s)) \in Nat
              /\ Last(NextFree(s)) \in Nat /\ data[s].used \in Clock
              /\ Full(v, s) => Full(w, s)
<1>1. /\ \A l \in Word : v[l] \in Nat /\ w[l] \in Nat /\ v[l] <= w[l]
      /\ \A t \in Thread : v[t] \in Nat /\ w[t] \in Nat /\ v[t] <= w[t]
  BY DEF Below, View, Known
<1>2. \A c \in Clock : Knows(v, c) => Knows(w, c)  BY <1>1 DEF Knows, Clock
<1>3. \A l \in Word : Last(l) \in Nat /\ StoresKnown(v, l) => StoresKnown(w, l)
  BY <1>1 DEF StoresKnown
<1>4. ASSUME NEW s \in Slot, Bounded(w), Last(RefCount(s)) \in Nat, Last(Version(s)) \in Nat,
             Last(NextFree(s)) \in Nat, data[s].used \in Clock, Full(v, s)
      PROVE  Full(w, s)
  <2>1. \A l \in Word : w[l] <= Last(l)  BY <1>4 DEF Bounded
  <2>. QED  BY <1>1, <1>2, <1>4, <2>1, Words DEF Full
<1>. QED  BY <1>1, <1>2, <1>3, <1>4

----------------------------------------------------------------------------
(* Messages *)

\* The last message and those before it, as they are typed.
LEMMA Lasts ==
  ASSUME Memory, NEW l \in Word
  PROVE  /\ mem[l] \in Seq(Messages(l)) /\ Last(l) \in Nat \ {0}
         /\ \A i \in 1 .. Last(l) : mem[l][i] \in Messages(l) /\ Bounded(mem[l][i].view)
         /\ mem[l][Last(l)] \in Messages(l) /\ Bounded(LastView(l)) /\ LastView(l) \in View
         /\ Latest(l) = mem[l][Last(l)].val
<1>1. mem[l] \in Seq(Messages(l)) /\ Last(l) >= 1
      /\ \A i \in 1 .. Last(l) : Bounded(mem[l][i].view)
  BY DEF Memory
<1>2. Last(l) \in Nat /\ \A i \in 1 .. Last(l) : mem[l][i] \in Messages(l)
  BY <1>1 DEF Last
<1>3. Last(l) \in 1 .. Last(l)  BY <1>1, <1>2
<1>. QED  BY <1>1, <1>2, <1>3 DEF LastView, Latest, Bounded

\* What the words of a slot and the head hold.
LEMMA Values ==
  ASSUME Memory, NEW s \in Slot
  PROVE  /\ Refs(s) \in Nat /\ Linked(s) \in Slot \cup {SENTINEL}
         /\ Latest(Version(s)) = Last(Version(s)) - 1
         /\ ListHead \in TaggedIndex /\ ListHead.tag = Last(FreeHead) - 1
         /\ ListHead.idx = SENTINEL \/ ListHead.idx < len
<1>1. /\ Last(RefCount(s)) \in 1 .. Last(RefCount(s))
      /\ Last(Version(s)) \in 1 .. Last(Version(s))
      /\ Last(NextFree(s)) \in 1 .. Last(NextFree(s))
      /\ Last(FreeHead) \in 1 .. Last(FreeHead)
  BY Lasts, Words
<1>2. mem[RefCount(s)][Last(RefCount(s))].val \in Nat
  BY Lasts, Words DEF Messages
<1>3. mem[FreeHead][Last(FreeHead)].val \in TaggedIndex
  BY Lasts, Words DEF Messages
<1>. QED  BY <1>1, <1>2, <1>3 DEF Memory, Refs, Linked, ListHead, Latest

\* A load reads on, and takes over what it acquires.
LEMMA Reads ==
  ASSUME Memory, NEW v, Bounded(v), NEW l \in Word, NEW i \in Readable(v, l), NEW order
  PROVE  LET w == Read(v, l, i, order)
         IN  /\ Bounded(w) /\ Below(v, w) /\ w[l] >= i
             /\ Acquires(order) => Below(mem[l][i].view, w)
             /\ \A t \in Thread : w[t] >= v[t]
<1>. DEFINE u == [v EXCEPT ![l] = i]  w == Read(v, l, i, order)
<1>1. i \in 1 .. Last(l) /\ v[l] <= i /\ v \in View /\ i \in Nat
  BY Lasts DEF Readable, Bounded
<1>2. /\ u \in View /\ Below(v, u) /\ u[l] = i
      /\ \A k \in Word : u[k] = v[k] \/ k = l
      /\ \A t \in Thread : u[t] = v[t]
  BY <1>1, Apart DEF View, Below, Known
<1>3. Bounded(u)  BY <1>1, <1>2, Lasts DEF Bounded
<1>4. Bounded(mem[l][i].view) /\ mem[l][i].view \in View  BY <1>1, Lasts DEF Bounded
<1>. DEFINE m == mem[l][i].view
<1>. HIDE DEF u, m
<1>5. /\ Join(u, m) \in View /\ Below(u, Join(u, m)) /\ Below(m, Join(u, m))
      /\ \A k \in Word : Join(u, m)[k] = u[k] \/ Join(u, m)[k] = m[k]
  BY <1>2, <1>4, JoinAbove DEF m, Known
<1>6. Bounded(Join(u, m))  BY <1>3, <1>4, <1>5 DEF Bounded, m
<1>7. Below(v, Join(u, m))  BY <1>1, <1>2, <1>5, BelowTrans
<1>8. w = IF Acquires(order) THEN Join(u, m) ELSE u  BY DEF Read, u, m
<1>9. /\ Bounded(w) /\ Below(v, w) /\ w \in View /\ Below(u, w)
      /\ Acquires(order) => Below(m, w)
  <2>1. Below(u, u)  BY <1>2 DEF Below, View
  <2>. QED  BY <1>2, <1>3, <1>5, <1>6, <1>7, <1>8, <2>1
<1>10. w[l] >= i  BY <1>1, <1>2, <1>9 DEF Below, View, Known
<1>11. \A t \in Thread : w[t] >= v[t]  BY <1>1, <1>9 DEF Below, View, Known
<1>. HIDE DEF w
<1>. QED  BY <1>9, <1>10, <1>11 DEF w, m

\* A message was added to word l and nothing else was written.
Wrote(l) ==
  /\ mem' = [k \in Word |-> mem'[k]]
  /\ Len(mem'[l]) = Len(mem[l]) + 1 /\ mem'[l] \in Seq(Messages(l))
  /\ \A i \in 1 .. Len(mem[l]) : mem'[l][i] = mem[l][i]
  /\ \A k \in Word \ {l} : mem'[k] = mem[k]

LEMMA Writes ==
  ASSUME Memory, NEW l \in Word, NEW m \in Messages(l), mem' = [mem EXCEPT ![l] = Append(@, m)]
  PROVE  Wrote(l) /\ Last(l)' = Last(l) + 1 /\ mem'[l][Last(l) + 1] = m
<1>1. mem = [k \in Word |-> mem[k]] /\ mem[l] \in Seq(Messages(l))  BY DEF Memory
<1>2. /\ mem'[l] = Append(mem[l], m) /\ \A k \in Word \ {l} : mem'[k] = mem[k]
      /\ mem' = [k \in Word |-> mem'[k]]
  BY <1>1
<1>3. /\ Len(Append(mem[l], m)) = Len(mem[l]) + 1 /\ Append(mem[l], m) \in Seq(Messages(l))
      /\ \A i \in 1 .. Len(mem[l]) : Append(mem[l], m)[i] = mem[l][i]
      /\ Append(mem[l], m)[Len(mem[l]) + 1] = m
  BY <1>1
<1>. QED  BY <1>2, <1>3 DEF Wrote, Last

\* A view of the messages as the step leaves them, and the view of the last one.
BoundedNext(v) == v \in View /\ \A l \in Word : 1 <= v[l] /\ v[l] <= Len(mem'[l])
NextView(l) == mem'[l][Len(mem'[l])].view

\* Thread t alone reads on, from view v or a later one.
Advances(t, v) ==
  /\ view' \in [Thread -> View] /\ \A u \in Thread \ {t} : view'[u] = view[u]
  /\ BoundedNext(view'[t]) /\ Below(v, view'[t])

\* Where nothing is lost, what was bounded remains so.
LEMMA Remain ==
  ASSUME Memory, NEW v, Bounded(v),
         mem' = mem \/ \E l \in Word : Wrote(l)
  PROVE  BoundedNext(v)
<1>1. ASSUME NEW k \in Word  PROVE Len(mem[k]) \in Nat /\ Len(mem'[k]) \in Nat
                                   /\ Len(mem[k]) <= Len(mem'[k])
  <2>1. Len(mem[k]) \in Nat  BY Lasts DEF Last
  <2>. QED  BY <2>1 DEF Wrote
<1>2. \A k \in Word : v[k] \in Nat /\ v[k] <= Len(mem[k])  BY DEF Bounded, View, Known, Last
<1>. QED  BY <1>1, <1>2 DEF Bounded, BoundedNext

\* A view that is moved on to the message just written.
LEMMA Reaches ==
  ASSUME Memory, NEW v, Bounded(v), NEW l \in Word, Wrote(l)
  PROVE  LET w == [v EXCEPT ![l] = Last(l) + 1]
         IN  /\ BoundedNext(w) /\ Below(v, w) /\ w[l] = Last(l) + 1
             /\ \A k \in (Word \ {l}) \cup Thread : w[k] = v[k]
<1>. DEFINE w == [v EXCEPT ![l] = Last(l) + 1]
<1>1. /\ v \in View /\ BoundedNext(v) /\ Last(l) \in Nat /\ v[l] \in Nat /\ v[l] <= Last(l)
      /\ Len(mem'[l]) = Last(l) + 1
  BY Remain, Lasts DEF Bounded, View, Known, Wrote, Last
<1>2. /\ w \in View /\ w[l] = Last(l) + 1 /\ \A k \in Known \ {l} : w[k] = v[k]
  BY <1>1 DEF View, Known
<1>3. \A k \in (Word \ {l}) \cup Thread : k \in Known \ {l}  BY Apart DEF Known
<1>4. \A k \in Known : v[k] \in Nat  BY <1>1 DEF View
<1>5. Below(v, w)  BY <1>1, <1>2, <1>4 DEF Below
<1>6. BoundedNext(w)  BY <1>1, <1>2, <1>3 DEF BoundedNext
<1>. QED  BY <1>2, <1>3, <1>5, <1>6

LEMMA MovesOn ==
  ASSUME NEW v \in View, NEW l, NEW n \in Nat  PROVE [v EXCEPT ![l] = n] \in View
BY DEF View

\* What a plain store does.
LEMMA Stores ==
  ASSUME Memory, Locals, NEW t \in Thread, NEW v, Bounded(v),
         NEW l \in Word, NEW val, val \in IF l = FreeHead THEN TaggedIndex ELSE Nat,
         NEW order, Store(t, v, l, val, order)
  PROVE  /\ Wrote(l) /\ Advances(t, v)
         /\ view'[t][l] = Last(l) + 1
         /\ \A k \in (Word \ {l}) \cup Thread : view'[t][k] = v[k]
         /\ Last(l)' = Last(l) + 1 /\ Latest(l)' = val
         /\ BoundedNext(NextView(l))
         /\ Releases(order) => NextView(l) = view'[t]
<1>. DEFINE w == [v EXCEPT ![l] = Last(l) + 1]
            m == Message(val, Released(w, order), FALSE)
<1>1. v \in View /\ w \in View
  <2>1. v \in View /\ Last(l) + 1 \in Nat  BY Lasts DEF Bounded
  <2>. QED  BY <2>1, MovesOn
<1>2. Released(w, order) \in View  BY <1>1, BottomLowest DEF Released
<1>3. m \in Messages(l)  BY <1>2 DEF Message, Messages
<1>4. mem' = [mem EXCEPT ![l] = Append(@, m)] /\ view' = [view EXCEPT ![t] = w]
  BY DEF Store
<1>. HIDE DEF m
<1>5. Wrote(l) /\ Last(l)' = Last(l) + 1 /\ mem'[l][Last(l) + 1] = m  BY <1>3, <1>4, Writes
<1>6. /\ BoundedNext(w) /\ Below(v, w) /\ w[l] = Last(l) + 1
      /\ \A k \in (Word \ {l}) \cup Thread : w[k] = v[k]
  BY <1>5, Reaches
<1>. HIDE DEF w
<1>7. view \in [Thread -> View]  BY DEF Locals
<1>8. view' \in [Thread -> View] /\ view'[t] = w
      /\ \A u \in Thread \ {t} : view'[u] = view[u]
  BY <1>1, <1>4, <1>7
<1>9. Latest(l)' = val /\ NextView(l) = Released(w, order)
  BY <1>5 DEF Latest, NextView, m, Message, Last
<1>10. BoundedNext(Bottom)
  <2>1. Len(mem'[l]) = Len(mem[l]) + 1 /\ \A k \in Word \ {l} : mem'[k] = mem[k]
    BY <1>5 DEF Wrote
  <2>2. \A k \in Word : Len(mem[k]) \in Nat \ {0}  BY Lasts DEF Last
  <2>. QED  BY <2>1, <2>2, BottomLowest DEF BoundedNext
<1>11. BoundedNext(NextView(l))  BY <1>6, <1>9, <1>10 DEF Released
<1>. QED  BY <1>5, <1>6, <1>8, <1>9, <1>11 DEF Advances, Released

\* What a read-modify-write does.
LEMMA Swaps ==
  ASSUME Memory, Locals, NEW t \in Thread, NEW v, Bounded(v),
         NEW l \in Word, NEW val, val \in IF l = FreeHead THEN TaggedIndex ELSE Nat,
         NEW order, NEW fence, Swap(t, v, l, val, order, fence)
  PROVE  /\ Wrote(l) /\ Advances(t, v)
         /\ view'[t][l] = Last(l) + 1
         /\ Last(l)' = Last(l) + 1 /\ Latest(l)' = val /\ mem'[l][Last(l) + 1].rmw
         /\ BoundedNext(NextView(l)) /\ Below(LastView(l), NextView(l))
         /\ Releases(order) => Below(v, NextView(l)) /\ NextView(l)[l] = Last(l) + 1
         /\ Acquires(order) \/ Acquires(fence) => Below(LastView(l), view'[t])
<1>. DEFINE old == LastView(l)
            rd == Read(v, l, Last(l), order)
            w == [rd EXCEPT ![l] = Last(l) + 1]
            rel == Released(w, order)
            m == Message(val, Join(old, rel), TRUE)
            x == IF Acquires(fence) THEN Join(w, old) ELSE w
<1>1. Bounded(old) /\ old \in View /\ Last(l) \in Readable(v, l) /\ v \in View
  <2>1. v[l] <= Last(l) /\ v \in View  BY DEF Bounded
  <2>2. Last(l) \in 1 .. Last(l) /\ Bounded(LastView(l)) /\ LastView(l) \in View  BY Lasts
  <2>. QED  BY <2>1, <2>2 DEF Readable
<1>2. Bounded(rd) /\ Below(v, rd) /\ rd \in View /\ (Acquires(order) => Below(old, rd))
  <2>1. Bounded(rd) /\ Below(v, rd) /\ (Acquires(order) => Below(mem[l][Last(l)].view, rd))
    BY <1>1, Reads
  <2>. QED  BY <2>1 DEF LastView, Bounded
<1>3. mem' = [mem EXCEPT ![l] = Append(@, m)] /\ view' = [view EXCEPT ![t] = x]
  BY DEF Swap, LastView
<1>. HIDE DEF old, rd
<1>4. w \in View /\ rel \in View
  <2>1. w \in View
    <3>1. Last(l) + 1 \in Nat  BY Lasts
    <3>. QED  BY <1>2, <3>1, MovesOn
  <2>. QED  BY <2>1, BottomLowest DEF Released
<1>5. Join(old, rel) \in View /\ Below(old, Join(old, rel)) /\ Below(rel, Join(old, rel))
      /\ \A k \in Known : Join(old, rel)[k] = old[k] \/ Join(old, rel)[k] = rel[k]
  BY <1>1, <1>4, JoinAbove
<1>6. m \in Messages(l)  BY <1>5 DEF Message, Messages
<1>. HIDE DEF m
<1>7. Wrote(l) /\ Last(l)' = Last(l) + 1 /\ mem'[l][Last(l) + 1] = m  BY <1>3, <1>6, Writes
<1>8. BoundedNext(w) /\ Below(rd, w) /\ w[l] = Last(l) + 1  BY <1>2, <1>7, Reaches
<1>9. BoundedNext(old)  BY <1>1, <1>7, Remain
<1>. HIDE DEF w
<1>10. Join(w, old) \in View /\ Below(w, Join(w, old)) /\ Below(old, Join(w, old))
       /\ \A k \in Known : Join(w, old)[k] = w[k] \/ Join(w, old)[k] = old[k]
  BY <1>1, <1>4, JoinAbove
<1>11. BoundedNext(Join(w, old))  BY <1>8, <1>9, <1>10 DEF BoundedNext, Known
<1>12. Join(w, old)[l] = Last(l) + 1
  <2>1. old[l] \in Nat /\ old[l] <= Last(l) /\ Last(l) \in Nat
    BY <1>1, Lasts DEF Bounded, View, Known
  <2>2. w[l] <= Join(w, old)[l]  BY <1>10 DEF Below, Known
  <2>. QED  BY <1>8, <1>10, <2>1, <2>2 DEF Known
<1>13. /\ x \in View /\ BoundedNext(x) /\ x[l] = Last(l) + 1 /\ Below(v, x)
       /\ Acquires(order) \/ Acquires(fence) => Below(old, x)
  <2>1. Below(v, w)  BY <1>1, <1>2, <1>4, <1>8, BelowTrans
  <2>2. Acquires(order) => Below(old, w)  BY <1>1, <1>2, <1>4, <1>8, BelowTrans
  <2>3. Below(v, Join(w, old))  BY <1>1, <1>4, <1>10, <2>1, BelowTrans
  <2>. QED  BY <1>4, <1>8, <1>10, <1>11, <1>12, <2>1, <2>2, <2>3
<1>14. /\ view' \in [Thread -> View] /\ view'[t] = x
       /\ \A u \in Thread \ {t} : view'[u] = view[u]
  <2>1. view \in [Thread -> View]  BY DEF Locals
  <2>. HIDE DEF x
  <2>. QED  BY <1>3, <1>13, <2>1
<1>15. Latest(l)' = val /\ NextView(l) = Join(old, rel) /\ mem'[l][Last(l) + 1].rmw
  <2>1. m.val = val /\ m.view = Join(old, rel) /\ m.rmw  BY DEF m, Message
  <2>. QED  BY <1>7, <2>1 DEF Latest, NextView, Last
<1>16. BoundedNext(Bottom)
  <2>1. Len(mem'[l]) = Len(mem[l]) + 1 /\ \A k \in Word \ {l} : mem'[k] = mem[k]
    BY <1>7 DEF Wrote
  <2>2. \A k \in Word : Len(mem[k]) \in Nat \ {0}  BY Lasts DEF Last
  <2>. QED  BY <2>1, <2>2, BottomLowest DEF BoundedNext
<1>17. BoundedNext(rel)  BY <1>8, <1>16 DEF Released
<1>18. BoundedNext(Join(old, rel))  BY <1>5, <1>9, <1>17 DEF BoundedNext, Known
<1>19. Releases(order) => Below(v, Join(old, rel)) /\ Join(old, rel)[l] = Last(l) + 1
  <2>. SUFFICES ASSUME Releases(order)
                PROVE  Below(v, Join(old, rel)) /\ Join(old, rel)[l] = Last(l) + 1
    OBVIOUS
  <2>1. rel = w  BY DEF Released
  <2>2. Below(v, w)  BY <1>1, <1>2, <1>4, <1>8, BelowTrans
  <2>3. Below(v, Join(old, rel))  BY <1>1, <1>4, <1>5, <2>1, <2>2, BelowTrans
  <2>4. old[l] \in Nat /\ old[l] <= Last(l) /\ Last(l) \in Nat
    BY <1>1, Lasts DEF Bounded, View, Known
  <2>5. w[l] <= Join(old, rel)[l]  BY <1>5, <2>1 DEF Below, Known
  <2>. QED  BY <1>5, <1>8, <2>1, <2>3, <2>4, <2>5 DEF Known
<1>. HIDE DEF x, rel
<1>. QED  BY <1>5, <1>7, <1>13, <1>14, <1>15, <1>18, <1>19 DEF Advances, old

----------------------------------------------------------------------------
(* What the actions do *)

LEMMA Ticks ==
  ASSUME Memory, Locals, NEW t \in Thread
  PROVE  /\ Bounded(view[t]) /\ Bounded(Tick(t)) /\ Below(view[t], Tick(t))
         /\ Tick(t)[t] \in Nat /\ \A l \in Word : Tick(t)[l] = view[t][l]
<1>1. Bounded(view[t]) /\ view[t] \in View /\ t \in Known  BY DEF Locals, Bounded, Known
<1>. DEFINE v == view[t]
<1>2. Tick(t) = [v EXCEPT ![t] = v[t] + 1]  BY DEF Tick
<1>. HIDE DEF v
<1>3. v \in View /\ v[t] \in Nat  BY <1>1 DEF v, View
<1>4. Tick(t) \in View /\ \A k \in Known \ {t} : Tick(t)[k] = v[k]
  <2>. DEFINE n == v[t] + 1
  <2>1. n \in Nat /\ Tick(t) = [v EXCEPT ![t] = n]  BY <1>2, <1>3
  <2>. HIDE DEF n
  <2>2. Tick(t) \in View  BY <1>3, <2>1 DEF View
  <2>. QED  BY <1>3, <2>1, <2>2 DEF View
<1>5. Tick(t)[t] = v[t] + 1  BY <1>1, <1>2, <1>3 DEF View
<1>6. \A l \in Word : l \in Known \ {t}  BY Apart DEF Known
<1>7. Below(v, Tick(t))
  <2>1. \A k \in Known : v[k] \in Nat  BY <1>3 DEF View
  <2>. QED  BY <1>3, <1>4, <1>5, <2>1 DEF Below
<1>8. Bounded(Tick(t))  BY <1>1, <1>4, <1>6 DEF Bounded, v
<1>. QED  BY <1>1, <1>3, <1>4, <1>5, <1>6, <1>7, <1>8 DEF v

LEMMA LocatedSees ==
  ASSUME Memory, Locals, NEW t \in Thread
  PROVE  Bounded(Located(t)) /\ Below(view[t], Located(t)) /\ Below(LastView(Chunk), Located(t))
<1>1. Bounded(view[t])  BY DEF Locals
<1>2. Last(Chunk) \in Readable(view[t], Chunk)
  <2>1. Last(Chunk) \in 1 .. Last(Chunk)  BY Lasts, Words
  <2>. QED  BY <1>1, <2>1, Words DEF Readable, Bounded
<1>3. Acquires(ChunkLoad)  BY DEF Acquires, ChunkLoad
<1>. QED  BY <1>1, <1>2, <1>3, Reads, Words DEF Located, LastView

\* Thread t alone turns into something else.
Turns(t) ==
  /\ th' \in [Thread -> ThreadState] /\ th'[t] \in ThreadState
  /\ \A u \in Thread \ {t} : th'[u] = th[u]

LEMMA Becomes ==
  ASSUME Locals, NEW t \in Thread, NEW r \in ThreadState, Become(t, r)
  PROVE  Turns(t) /\ th'[t] = r
BY DEF Locals, Become, Turns

LEMMA IdleState ==
  /\ Idle \in ThreadState /\ Idle.pc = "idle" /\ Idle.idx = 0 /\ Idle.ver = 0
  /\ Idle.head = NoHead /\ Idle.next = SENTINEL /\ Idle.out = None
  /\ 0 \in Slot /\ SENTINEL \notin Slot /\ NoHead \in TaggedIndex
<1>1. MaxSlots \in Nat \ {0}  BY OrderingsAssumption
<1>2. 0 \in Slot /\ SENTINEL \notin Slot  BY <1>1 DEF Slot, SENTINEL
<1>. QED  BY <1>2 DEF Idle, ThreadState, PC, NoHead, TaggedIndex

\* A thread that reads on from view v and writes nothing.
LEMMA ReadsOn ==
  ASSUME Memory, Locals, NEW t \in Thread, NEW v, Bounded(v),
         NEW l \in Word, NEW i \in Readable(v, l), NEW order, mem' = mem,
         view' = [view EXCEPT ![t] = Read(v, l, i, order)]
  PROVE  /\ Advances(t, v) /\ i \in 1 .. Last(l) /\ v[l] <= i
         /\ Acquires(order) => Below(mem[l][i].view, view'[t])
         /\ view'[t][t] >= v[t]
<1>. DEFINE w == Read(v, l, i, order)
<1>1. /\ Bounded(w) /\ Below(v, w) /\ w[t] >= v[t]
      /\ Acquires(order) => Below(mem[l][i].view, w)
  BY Reads
<1>2. i \in 1 .. Last(l) /\ v[l] <= i  BY DEF Readable
<1>. HIDE DEF w
<1>3. view' \in [Thread -> View] /\ view'[t] = w
      /\ \A u \in Thread \ {t} : view'[u] = view[u]
  <2>1. view \in [Thread -> View] /\ view' = [view EXCEPT ![t] = w]  BY DEF Locals, w
  <2>. QED  BY <1>1, <2>1 DEF Bounded
<1>4. BoundedNext(w)  BY <1>1, Remain
<1>. QED  BY <1>1, <1>2, <1>3, <1>4 DEF Advances

LEMMA PopFromMoves ==
  ASSUME Memory, Locals, NEW t \in Thread, PopFrom(t, PopLoad), mem' = mem
  PROVE  /\ Advances(t, view[t]) /\ Turns(t)
         /\ th'[t].pc \in {"push_zeroed", "pop_next"} /\ th'[t].out = None
         /\ At(t, "pop_next")' => th'[t].head.idx # SENTINEL
         /\ \E i \in 1 .. Last(FreeHead) :
              th'[t].head = mem[FreeHead][i].val /\ Below(mem[FreeHead][i].view, view'[t])
<1>1. PICK i \in Heads(t, view[t]) :
        /\ Become(t, [Idle EXCEPT !.pc = PopTarget(mem[FreeHead][i].val),
                                  !.head = mem[FreeHead][i].val])
        /\ view' = [view EXCEPT ![t] = Read(@, FreeHead, i, PopLoad)]
  BY DEF PopFrom
<1>2. i \in Readable(view[t], FreeHead)  BY DEF Heads
<1>3. Bounded(view[t]) /\ view \in [Thread -> View]  BY DEF Locals
<1>4. view' = [view EXCEPT ![t] = Read(view[t], FreeHead, i, PopLoad)]  BY <1>1, <1>3
<1>5. /\ Advances(t, view[t]) /\ i \in 1 .. Last(FreeHead)
      /\ Acquires(PopLoad) => Below(mem[FreeHead][i].view, view'[t])
  BY <1>2, <1>3, <1>4, ReadsOn, Words
<1>6. Acquires(PopLoad)  BY DEF Acquires, PopLoad
<1>. DEFINE h == mem[FreeHead][i].val
<1>7. h \in TaggedIndex  BY <1>5, Lasts, Words DEF Messages
<1>. HIDE DEF h
<1>8. PopTarget(h) \in PC /\ PopTarget(h) \in {"push_zeroed", "pop_next"}
      /\ (PopTarget(h) = "pop_next" => h.idx # SENTINEL)
  BY DEF PopTarget, PC
<1>. DEFINE r == [Idle EXCEPT !.pc = PopTarget(h), !.head = h]
<1>9. r \in ThreadState /\ r.pc = PopTarget(h) /\ r.head = h /\ r.out = None
  BY <1>7, <1>8, IdleState DEF ThreadState
<1>10. Turns(t) /\ th'[t] = r  BY <1>1, <1>9, Becomes DEF h
<1>. HIDE DEF r
<1>. QED  BY <1>5, <1>6, <1>8, <1>9, <1>10 DEF h, At

LEMMA PopReadNextMoves ==
  ASSUME Memory, Locals, HeadsRead, NEW t \in Thread, PopReadNext(t)
  PROVE  /\ Advances(t, view[t]) /\ Turns(t) /\ mem' = mem
         /\ At(t, "pop_next") /\ At(t, "pop_swap")'
         /\ th'[t].head = th[t].head /\ th'[t].idx = th[t].idx /\ th'[t].out = th[t].out
         /\ th[t].head.idx \in Slot
         /\ \E i \in 1 .. Last(NextFree(th[t].head.idx)) :
              /\ view[t][NextFree(th[t].head.idx)] <= i
              /\ th'[t].next = mem[NextFree(th[t].head.idx)][i].val
         /\ Below(LastView(Chunk), view'[t])
<1>1. th[t] \in ThreadState /\ view \in [Thread -> View]  BY DEF Locals
<1>2. At(t, "pop_next")  BY DEF PopReadNext
<1>3. th[t].head.idx # SENTINEL /\ th[t].head \in TaggedIndex
  BY <1>1, <1>2 DEF HeadsRead, At, ThreadState
<1>4. PICK s \in Slot : s = th[t].head.idx  BY <1>3 DEF TaggedIndex
<1>. DEFINE l == NextFree(s)
<1>5. PICK i \in Readable(Located(t), l) :
        /\ Become(t, [th[t] EXCEPT !.pc = "pop_swap", !.next = mem[l][i].val])
        /\ view' = [view EXCEPT ![t] = Read(Located(t), l, i, NextLoad)]
  BY <1>4 DEF PopReadNext
<1>6. mem' = mem  BY DEF PopReadNext
<1>7. l \in Word  BY Words
<1>. HIDE DEF l
<1>8. Bounded(Located(t)) /\ Below(view[t], Located(t)) /\ Below(LastView(Chunk), Located(t))
  BY LocatedSees
<1>9. Advances(t, Located(t)) /\ i \in 1 .. Last(l) /\ Located(t)[l] <= i
  BY <1>5, <1>6, <1>7, <1>8, ReadsOn
<1>10. Located(t) \in View /\ view[t] \in View /\ LastView(Chunk) \in View /\ view'[t] \in View
  BY <1>1, <1>8, <1>9, Lasts, Words DEF Bounded, Advances, BoundedNext
<1>11. Below(view[t], view'[t]) /\ Below(LastView(Chunk), view'[t])
  BY <1>8, <1>9, <1>10, BelowTrans DEF Advances
<1>12. view[t][l] <= i
  <2>1. view[t][l] \in Nat /\ Located(t)[l] \in Nat /\ view[t][l] <= Located(t)[l] /\ i \in Nat
    BY <1>7, <1>8, <1>9, <1>10 DEF View, Known, Below
  <2>. QED  BY <1>9, <2>1
<1>. DEFINE n == mem[l][i].val
<1>13. n \in Slot \cup {SENTINEL}  BY <1>9 DEF Memory, l
<1>. HIDE DEF n
<1>14. [th[t] EXCEPT !.pc = "pop_swap", !.next = n] \in ThreadState
  BY <1>1, <1>13 DEF ThreadState, PC
<1>15. Turns(t) /\ th'[t] = [th[t] EXCEPT !.pc = "pop_swap", !.next = n]
  BY <1>5, <1>14, Becomes DEF n
<1>16. th'[t].pc = "pop_swap" /\ th'[t].next = n /\ th'[t].head = th[t].head
       /\ th'[t].idx = th[t].idx /\ th'[t].out = th[t].out
  BY <1>1, <1>15 DEF ThreadState
<1>. QED  BY <1>2, <1>4, <1>6, <1>9, <1>11, <1>12, <1>15, <1>16 DEF Advances, At, l, n

LEMMA LoadVersionMoves ==
  ASSUME Memory, Locals, NEW t \in Thread, LoadVersion(t)
  PROVE  /\ Advances(t, view[t]) /\ Turns(t) /\ mem' = mem
         /\ At(t, "load_version") /\ At(t, "call")'
         /\ th'[t].idx = th[t].idx /\ th'[t].out = th[t].out /\ th[t].idx \in Slot
         /\ \E i \in 1 .. Last(Version(th[t].idx)) :
              /\ view[t][Version(th[t].idx)] <= i
              /\ th'[t].ver = IF (i - 1) % 2 = 0 THEN i ELSE i - 1
<1>1. th[t] \in ThreadState /\ view \in [Thread -> View] /\ Bounded(view[t])  BY DEF Locals
<1>2. PICK s \in Slot : s = th[t].idx  BY <1>1 DEF ThreadState
<1>. DEFINE l == Version(s)
<1>3. PICK i \in Readable(view[t], l) :
        /\ Become(t, [th[t] EXCEPT !.pc = "call",
                        !.ver = IF mem[l][i].val % 2 = 0 THEN mem[l][i].val + 1
                                ELSE mem[l][i].val])
        /\ view' = [view EXCEPT ![t] = Read(@, l, i, VersionLoad)]
  BY <1>2 DEF LoadVersion
<1>4. mem' = mem /\ At(t, "load_version")  BY DEF LoadVersion
<1>5. view' = [view EXCEPT ![t] = Read(view[t], l, i, VersionLoad)]  BY <1>1, <1>3
<1>6. Advances(t, view[t]) /\ i \in 1 .. Last(l) /\ view[t][l] <= i
  BY <1>1, <1>4, <1>5, ReadsOn, Words
<1>7. mem[l][i].val = i - 1  BY <1>6 DEF Memory
<1>. DEFINE n == IF (i - 1) % 2 = 0 THEN i ELSE i - 1
<1>8. n \in Nat /\ n = (IF mem[l][i].val % 2 = 0 THEN mem[l][i].val + 1 ELSE mem[l][i].val)
  <2>1. Last(l) \in Nat  BY Lasts, Words
  <2>. QED  BY <1>6, <1>7, <2>1
<1>. HIDE DEF n
<1>9. [th[t] EXCEPT !.pc = "call", !.ver = n] \in ThreadState
  BY <1>1, <1>8 DEF ThreadState, PC
<1>10. Turns(t) /\ th'[t] = [th[t] EXCEPT !.pc = "call", !.ver = n]
  BY <1>3, <1>8, <1>9, Becomes
<1>11. th'[t].pc = "call" /\ th'[t].ver = n /\ th'[t].idx = th[t].idx /\ th'[t].out = th[t].out
  BY <1>1, <1>10 DEF ThreadState
<1>. QED  BY <1>2, <1>4, <1>6, <1>10, <1>11 DEF At, l, n

LEMMA PushOntoMoves ==
  ASSUME Memory, Locals, NEW t \in Thread, NEW v, Bounded(v), Below(view[t], v),
         NEW s \in Slot, PushOnto(t, v, s), mem' = mem
  PROVE  /\ Advances(t, v) /\ Advances(t, view[t]) /\ Turns(t) /\ view'[t][t] >= v[t]
         /\ At(t, "push_next")' /\ th'[t].idx = s /\ th'[t].out = None
         /\ \E i \in 1 .. Last(FreeHead) : th'[t].head = mem[FreeHead][i].val
<1>1. PICK i \in Heads(t, v) :
        /\ Become(t, [Idle EXCEPT !.pc = "push_next", !.idx = s, !.head = mem[FreeHead][i].val])
        /\ view' = [view EXCEPT ![t] = Read(v, FreeHead, i, PushHeadLoad)]
  BY DEF PushOnto
<1>2. i \in Readable(v, FreeHead)  BY DEF Heads
<1>3. Advances(t, v) /\ i \in 1 .. Last(FreeHead) /\ view'[t][t] >= v[t]
  BY <1>1, <1>2, ReadsOn, Words
<1>4. view[t] \in View /\ v \in View /\ view'[t] \in View
  BY <1>3 DEF Locals, Bounded, Advances, BoundedNext
<1>5. Advances(t, view[t])  BY <1>3, <1>4, BelowTrans DEF Advances
<1>. DEFINE h == mem[FreeHead][i].val
<1>6. h \in TaggedIndex  BY <1>3, Lasts, Words DEF Messages
<1>. HIDE DEF h
<1>. DEFINE r == [Idle EXCEPT !.pc = "push_next", !.idx = s, !.head = h]
<1>7. r \in ThreadState /\ r.pc = "push_next" /\ r.idx = s /\ r.head = h /\ r.out = None
  BY <1>6, IdleState DEF ThreadState, PC
<1>8. Turns(t) /\ th'[t] = r  BY <1>1, <1>7, Becomes DEF h
<1>. HIDE DEF r
<1>. QED  BY <1>3, <1>5, <1>7, <1>8 DEF h, At

LEMMA PopSwapMoves ==
  ASSUME Memory, Locals, HeadsRead, NEW t \in Thread, PopSwap(t)
  PROVE  \E s \in Slot :
           /\ s = th[t].head.idx /\ ListHead = th[t].head /\ At(t, "pop_swap")
           /\ Wrote(FreeHead) /\ Advances(t, view[t]) /\ Turns(t)
           /\ At(t, "load_version")' /\ th'[t].idx = s /\ th'[t].out = None
           /\ Latest(FreeHead)' = [tag |-> ListHead.tag + 1, idx |-> th[t].next]
           /\ BoundedNext(NextView(FreeHead)) /\ Below(LastView(FreeHead), NextView(FreeHead))
           /\ Below(LastView(FreeHead), view'[t])
<1>1. th[t] \in ThreadState /\ Bounded(view[t])  BY DEF Locals
<1>2. At(t, "pop_swap") /\ ListHead = th[t].head  BY DEF PopSwap, ListHead
<1>3. th[t].head.idx # SENTINEL /\ th[t].head \in TaggedIndex
  BY <1>1, <1>2 DEF HeadsRead, At, ThreadState
<1>4. PICK s \in Slot : s = th[t].head.idx  BY <1>3 DEF TaggedIndex
<1>. DEFINE h == [tag |-> th[t].head.tag + 1, idx |-> th[t].next]
<1>5. h \in TaggedIndex  BY <1>1, <1>3 DEF ThreadState, TaggedIndex
<1>6. Swap(t, view[t], FreeHead, h, PopSwapOrder, "Relaxed")  BY DEF PopSwap
<1>. HIDE DEF h
<1>7. Acquires(PopSwapOrder)  BY DEF Acquires, PopSwapOrder
<1>8. /\ Wrote(FreeHead) /\ Advances(t, view[t]) /\ Latest(FreeHead)' = h
      /\ BoundedNext(NextView(FreeHead)) /\ Below(LastView(FreeHead), NextView(FreeHead))
      /\ Below(LastView(FreeHead), view'[t])
  BY <1>1, <1>5, <1>6, <1>7, Swaps, Words
<1>. DEFINE r == [Idle EXCEPT !.pc = "load_version", !.idx = s]
<1>9. r \in ThreadState /\ r.pc = "load_version" /\ r.idx = s /\ r.out = None
  BY IdleState DEF ThreadState, PC
<1>10. Turns(t) /\ th'[t] = r
  <2>1. Become(t, r)  BY <1>4 DEF PopSwap
  <2>. HIDE DEF r
  <2>. QED  BY <1>9, <2>1, Becomes
<1>. HIDE DEF r
<1>. QED  BY <1>2, <1>4, <1>8, <1>9, <1>10 DEF At, h

LEMMA PushZeroedMoves ==
  ASSUME Memory, Locals, NEW t \in Thread, PushZeroed(t)
  PROVE  /\ len \in Slot /\ len' = len + 1 /\ At(t, "push_zeroed")
         /\ Advances(t, view[t]) /\ Turns(t)
         /\ At(t, "call")' /\ th'[t].idx = len /\ th'[t].ver = 1 /\ th'[t].out = None
         /\ IF Allocated
            THEN mem' = mem /\ zeroed' = zeroed /\ Below(LastView(Chunk), view'[t])
            ELSE /\ Wrote(Chunk) /\ Last(Chunk)' = Last(Chunk) + 1
                 /\ BoundedNext(NextView(Chunk))
                 /\ zeroed' \in Clock /\ \A u \in Thread \ {t} : zeroed'[u] = zeroed[u]
                 /\ zeroed'[t] <= view'[t][t] /\ zeroed'[t] <= NextView(Chunk)[t]
<1>1. th[t] \in ThreadState /\ view \in [Thread -> View] /\ Bounded(view[t])
      /\ len \in 0 .. MaxSlots /\ left.slots \in 1 .. MaxSlots /\ zeroed \in Clock
  BY DEF Locals
<1>2. len \in Slot /\ len' = len + 1 /\ At(t, "push_zeroed")
  BY <1>1, OrderingsAssumption DEF PushZeroed, Slot
<1>. DEFINE r == [Idle EXCEPT !.pc = "call", !.idx = len, !.ver = 1]
<1>3. r \in ThreadState /\ r.pc = "call" /\ r.idx = len /\ r.ver = 1 /\ r.out = None
  BY <1>2, IdleState DEF ThreadState, PC
<1>4. Turns(t) /\ th'[t] = r
  <2>1. Become(t, r)  BY DEF PushZeroed
  <2>. HIDE DEF r
  <2>. QED  BY <1>3, <2>1, Becomes
<1>. HIDE DEF r
<1>5. CASE Allocated
  <2>1. view' = [view EXCEPT ![t] = Located(t)] /\ mem' = mem /\ zeroed' = zeroed
    BY <1>5 DEF PushZeroed
  <2>2. Bounded(Located(t)) /\ Below(view[t], Located(t)) /\ Below(LastView(Chunk), Located(t))
    BY LocatedSees
  <2>. DEFINE w == Located(t)
  <2>. HIDE DEF w
  <2>3. view' \in [Thread -> View] /\ view'[t] = w
        /\ \A u \in Thread \ {t} : view'[u] = view[u]
    <3>1. view' = [view EXCEPT ![t] = w]  BY <2>1 DEF w
    <3>. QED  BY <1>1, <2>2, <3>1 DEF Bounded, w
  <2>4. BoundedNext(w)  BY <2>1, <2>2, Remain DEF w
  <2>. QED  BY <1>2, <1>3, <1>4, <1>5, <2>1, <2>2, <2>3, <2>4 DEF Advances, At, w
<1>6. CASE ~Allocated
  <2>1. /\ zeroed' = [zeroed EXCEPT ![t] = Tick(t)[t]]
        /\ Swap(t, Tick(t), Chunk, 1, ChunkSwap, "Relaxed")
    BY <1>6 DEF PushZeroed
  <2>2. Bounded(Tick(t)) /\ Below(view[t], Tick(t)) /\ Tick(t)[t] \in Nat  BY Ticks
  <2>3. Releases(ChunkSwap)  BY DEF Releases, ChunkSwap
  <2>4. /\ Wrote(Chunk) /\ Advances(t, Tick(t)) /\ Last(Chunk)' = Last(Chunk) + 1
        /\ BoundedNext(NextView(Chunk)) /\ Below(Tick(t), NextView(Chunk))
    <3>1. 1 \in IF Chunk = FreeHead THEN TaggedIndex ELSE Nat  BY Words
    <3>. QED  BY <2>1, <2>2, <2>3, <3>1, Swaps, Words
  <2>5. view[t] \in View /\ Tick(t) \in View /\ view'[t] \in View
    BY <1>1, <2>2, <2>4 DEF Bounded, Advances, BoundedNext
  <2>6. Advances(t, view[t])  BY <2>2, <2>4, <2>5, BelowTrans DEF Advances
  <2>7. zeroed' \in Clock /\ zeroed'[t] = Tick(t)[t]
        /\ \A u \in Thread \ {t} : zeroed'[u] = zeroed[u]
    <3>. DEFINE n == Tick(t)[t]
    <3>1. n \in Nat /\ zeroed' = [zeroed EXCEPT ![t] = n]  BY <2>1, <2>2
    <3>. HIDE DEF n
    <3>2. zeroed' \in Clock /\ zeroed'[t] = n /\ \A u \in Thread \ {t} : zeroed'[u] = zeroed[u]
      BY <1>1, <3>1 DEF Clock
    <3>. QED  BY <3>2 DEF n
  <2>8. Tick(t)[t] <= view'[t][t] /\ Tick(t)[t] <= NextView(Chunk)[t]
    BY <2>4 DEF Advances, Below, Known
  <2>. QED  BY <1>2, <1>3, <1>4, <1>6, <2>4, <2>6, <2>7, <2>8 DEF At
<1>. QED  BY <1>5, <1>6

LEMMA StoreRefMoves ==
  ASSUME Memory, Locals, NEW t \in Thread, StoreRef(t)
  PROVE  \E s \in Slot :
           /\ s = th[t].idx /\ At(t, "call") /\ Wrote(RefCount(s)) /\ Advances(t, view[t])
           /\ Last(RefCount(s))' = Last(RefCount(s)) + 1 /\ Refs(s)' = 1
           /\ view'[t][RefCount(s)] = Last(RefCount(s)) + 1
           /\ \A l \in Word \ {RefCount(s)} : view'[t][l] = view[t][l]
           /\ NextView(RefCount(s)) = view'[t]
           /\ Turns(t) /\ At(t, "store_version")'
           /\ th'[t].idx = s /\ th'[t].ver = th[t].ver /\ th'[t].out = th[t].out
           /\ data' \in [Slot -> [ver : Nat, written : Clock, used : Clock]]
           /\ \A r \in Slot \ {s} : data'[r] = data[r]
           /\ data'[s].ver = th[t].ver /\ data'[s].written = data'[s].used
           /\ Knows(view'[t], data'[s].used)
<1>1. th[t] \in ThreadState /\ data \in [Slot -> [ver : Nat, written : Clock, used : Clock]]
  BY DEF Locals
<1>2. PICK s \in Slot : s = th[t].idx  BY <1>1 DEF ThreadState
<1>3. Store(t, Tick(t), RefCount(s), 1, RefStore) /\ At(t, "call")  BY <1>2 DEF StoreRef
<1>4. Bounded(Tick(t)) /\ Below(view[t], Tick(t)) /\ Tick(t)[t] \in Nat
      /\ \A l \in Word : Tick(t)[l] = view[t][l]
  BY Ticks
<1>5. Releases(RefStore)  BY DEF Releases, RefStore
<1>6. /\ Wrote(RefCount(s)) /\ Advances(t, Tick(t)) /\ Refs(s)' = 1
      /\ Last(RefCount(s))' = Last(RefCount(s)) + 1
      /\ view'[t][RefCount(s)] = Last(RefCount(s)) + 1
      /\ \A k \in (Word \ {RefCount(s)}) \cup Thread : view'[t][k] = Tick(t)[k]
      /\ NextView(RefCount(s)) = view'[t]
  <2>1. 1 \in IF RefCount(s) = FreeHead THEN TaggedIndex ELSE Nat  BY Words
  <2>. QED  BY <1>3, <1>4, <1>5, <2>1, Stores, Words DEF Refs
<1>7. view[t] \in View /\ Tick(t) \in View /\ view'[t] \in View
  BY <1>4, <1>6, Ticks DEF Bounded, Advances, BoundedNext
<1>8. Advances(t, view[t])  BY <1>4, <1>6, <1>7, BelowTrans DEF Advances
<1>. DEFINE r == [th[t] EXCEPT !.pc = "store_version"]
<1>9. r \in ThreadState /\ r.pc = "store_version" /\ r.idx = s /\ r.ver = th[t].ver
      /\ r.out = th[t].out
  BY <1>1, <1>2 DEF ThreadState, PC
<1>10. Turns(t) /\ th'[t] = r
  <2>1. Become(t, r)  BY DEF StoreRef
  <2>. HIDE DEF r
  <2>. QED  BY <1>9, <2>1, Becomes
<1>. HIDE DEF r
<1>. DEFINE n == Tick(t)[t]
            clock == [NoClock EXCEPT ![t] = n]
<1>11. data' = [data EXCEPT ![s] = [ver |-> th[t].ver, written |-> clock, used |-> clock]]
  BY <1>2 DEF StoreRef
<1>12. n \in Nat /\ n = view'[t][t]  BY <1>4, <1>6
<1>. HIDE DEF n
<1>13. clock \in Clock /\ clock[t] = n /\ \A u \in Thread \ {t} : clock[u] = 0
  BY <1>12 DEF Clock, NoClock
<1>14. Knows(view'[t], clock)
  <2>1. \A u \in Thread : view'[t][u] \in Nat  BY <1>7 DEF View, Known
  <2>. HIDE DEF clock
  <2>. QED  BY <1>12, <1>13, <2>1 DEF Knows
<1>. HIDE DEF clock
<1>15. th[t].ver \in Nat  BY <1>1 DEF ThreadState
<1>16. /\ data' \in [Slot -> [ver : Nat, written : Clock, used : Clock]]
       /\ \A q \in Slot \ {s} : data'[q] = data[q]
       /\ data'[s].ver = th[t].ver /\ data'[s].written = clock /\ data'[s].used = clock
  BY <1>1, <1>11, <1>13, <1>15
<1>. QED  BY <1>2, <1>3, <1>4, <1>6, <1>8, <1>9, <1>10, <1>14, <1>16 DEF At

LEMMA StoreVersionMoves ==
  ASSUME Memory, Locals, NEW t \in Thread, StoreVersion(t)
  PROVE  \E s \in Slot :
           /\ s = th[t].idx /\ At(t, "store_version") /\ Wrote(Version(s))
           /\ Advances(t, view[t])
           /\ Last(Version(s))' = Last(Version(s)) + 1 /\ Latest(Version(s))' = th[t].ver
           /\ \A l \in Word \ {Version(s)} : view'[t][l] = view[t][l]
           /\ NextView(Version(s)) = view'[t]
           /\ Turns(t) /\ th'[t] = Idle
<1>1. th[t] \in ThreadState /\ Bounded(view[t]) /\ view[t] \in View  BY DEF Locals, Bounded
<1>2. PICK s \in Slot : s = th[t].idx  BY <1>1 DEF ThreadState
<1>3. Store(t, view[t], Version(s), th[t].ver, VersionStore) /\ At(t, "store_version")
  BY <1>2 DEF StoreVersion
<1>4. Releases(VersionStore)  BY DEF Releases, VersionStore
<1>5. th[t].ver \in IF Version(s) = FreeHead THEN TaggedIndex ELSE Nat
  BY <1>1, Words DEF ThreadState
<1>6. /\ Wrote(Version(s)) /\ Advances(t, view[t]) /\ Latest(Version(s))' = th[t].ver
      /\ Last(Version(s))' = Last(Version(s)) + 1
      /\ \A k \in (Word \ {Version(s)}) \cup Thread : view'[t][k] = view[t][k]
      /\ NextView(Version(s)) = view'[t]
  BY <1>1, <1>3, <1>4, <1>5, Stores, Words
<1>7. Turns(t) /\ th'[t] = Idle
  <2>1. Become(t, Idle)  BY DEF StoreVersion
  <2>. QED  BY <2>1, IdleState, Becomes
<1>. QED  BY <1>2, <1>3, <1>6, <1>7

LEMMA AcquireMoves ==
  ASSUME Memory, Locals, NEW t \in Thread, NEW s \in Slot, NEW ver \in Asked, NEW g \in Guard,
         AcquireGuard(t, s, ver, g)
  PROVE  /\ At(t, "idle") /\ s < len /\ Unused(g) /\ Refs(s) > 0
         /\ Wrote(RefCount(s)) /\ Advances(t, view[t]) /\ Refs(s)' = Refs(s) + 1
         /\ Last(RefCount(s))' = Last(RefCount(s)) + 1
         /\ mem'[RefCount(s)][Last(RefCount(s)) + 1].rmw
         /\ view'[t][RefCount(s)] = Last(RefCount(s)) + 1
         /\ BoundedNext(NextView(RefCount(s)))
         /\ Below(LastView(RefCount(s)), NextView(RefCount(s)))
         /\ Below(LastView(RefCount(s)), view'[t]) /\ Below(LastView(Chunk), view'[t])
         /\ Turns(t) /\ At(t, "check")' /\ th'[t].idx = s /\ th'[t].ver = ver /\ th'[t].out = g
<1>. DEFINE l == RefCount(s)
<1>1. /\ At(t, "idle") /\ s < len /\ Unused(g) /\ Refs(s) > 0
      /\ Swap(t, Located(t), l, Refs(s) + 1, AcquireOrder, "Relaxed")
      /\ Become(t, [Idle EXCEPT !.pc = "check", !.idx = s, !.ver = ver, !.out = g])
  BY DEF AcquireGuard, Refs
<1>2. Bounded(Located(t)) /\ Below(view[t], Located(t)) /\ Below(LastView(Chunk), Located(t))
  BY LocatedSees
<1>3. l \in Word /\ Refs(s) + 1 \in IF l = FreeHead THEN TaggedIndex ELSE Nat  BY Words, Values
<1>4. Acquires(AcquireOrder)  BY DEF Acquires, AcquireOrder
<1>5. /\ Wrote(l) /\ Advances(t, Located(t)) /\ Latest(l)' = Refs(s) + 1
      /\ Last(l)' = Last(l) + 1 /\ mem'[l][Last(l) + 1].rmw
      /\ view'[t][l] = Last(l) + 1
      /\ BoundedNext(NextView(l)) /\ Below(LastView(l), NextView(l))
      /\ Below(LastView(l), view'[t])
  <2>. HIDE DEF l
  <2>. QED  BY <1>1, <1>2, <1>3, <1>4, Swaps
<1>6. Located(t) \in View /\ view[t] \in View /\ LastView(Chunk) \in View /\ view'[t] \in View
  BY <1>2, <1>5, Lasts, Words, Ticks DEF Bounded, Advances, BoundedNext
<1>7. Advances(t, view[t]) /\ Below(LastView(Chunk), view'[t])
  BY <1>2, <1>5, <1>6, BelowTrans DEF Advances
<1>. DEFINE r == [Idle EXCEPT !.pc = "check", !.idx = s, !.ver = ver, !.out = g]
<1>8. ver \in Nat  BY AskedAssumption
<1>9. r \in ThreadState /\ r.pc = "check" /\ r.idx = s /\ r.ver = ver /\ r.out = g
  BY <1>8, IdleState DEF ThreadState, PC
<1>. HIDE DEF r
<1>10. Turns(t) /\ th'[t] = r  BY <1>1, <1>9, Becomes DEF r
<1>. QED  BY <1>1, <1>5, <1>7, <1>9, <1>10 DEF At, Refs

LEMMA CheckMoves ==
  ASSUME Memory, Locals, LocalsSound, NEW t \in Thread, CheckVersion(t)
  PROVE  \E s \in Slot, g \in Guard :
           /\ At(t, "check") /\ s = th[t].idx /\ g = th[t].out /\ mem' = mem
           /\ Advances(t, view[t]) /\ Turns(t) /\ th'[t].out = None
           /\ \/ /\ At(t, "idle")'
                 /\ guard' = [guard EXCEPT ![g] = [by |-> t, idx |-> s, ver |-> th[t].ver]]
                 /\ view[t][Version(s)] <= th[t].ver + 1 /\ th[t].ver + 1 <= Last(Version(s))
              \/ At(t, "dec")' /\ th'[t].idx = s /\ guard' = guard
<1>1. th[t] \in ThreadState /\ view \in [Thread -> View] /\ Bounded(view[t])  BY DEF Locals
<1>2. At(t, "check") /\ mem' = mem  BY DEF CheckVersion
<1>3. PICK s \in Slot, g \in Guard : s = th[t].idx /\ g = th[t].out
  <2>1. th[t].out # None  BY <1>2 DEF LocalsSound
  <2>. QED  BY <1>1, <2>1 DEF ThreadState
<1>. DEFINE l == Version(s)
            c == [by |-> t, idx |-> s, ver |-> th[t].ver]
<1>4. PICK i \in Readable(view[t], l) :
        /\ view' = [view EXCEPT ![t] = Read(@, l, i, CheckLoad)]
        /\ IF mem[l][i].val = th[t].ver
           THEN guard' = [guard EXCEPT ![g] = c] /\ Become(t, Idle)
           ELSE /\ Become(t, [th[t] EXCEPT !.pc = "dec", !.out = None])
                /\ guard' = guard
  BY <1>3 DEF CheckVersion
<1>5. view' = [view EXCEPT ![t] = Read(view[t], l, i, CheckLoad)]  BY <1>1, <1>4
<1>6. Advances(t, view[t]) /\ i \in 1 .. Last(l) /\ view[t][l] <= i
  BY <1>1, <1>2, <1>5, ReadsOn, Words
<1>7. mem[l][i].val = i - 1 /\ Last(l) \in Nat
  BY <1>6, Lasts, Words DEF Memory
<1>. HIDE DEF c
<1>8. CASE i - 1 = th[t].ver
  <2>1. Turns(t) /\ th'[t] = Idle  BY <1>4, <1>7, <1>8, IdleState, Becomes
  <2>2. guard' = [guard EXCEPT ![g] = c]  BY <1>4, <1>7, <1>8
  <2>3. view[t][l] <= th[t].ver + 1 /\ th[t].ver + 1 <= Last(l)  BY <1>6, <1>7, <1>8
  <2>4. At(t, "idle")' /\ th'[t].out = None  BY <2>1, IdleState DEF At
  <2>. QED  BY <1>2, <1>3, <1>6, <2>1, <2>2, <2>3, <2>4 DEF c
<1>9. CASE i - 1 # th[t].ver
  <2>. DEFINE r == [th[t] EXCEPT !.pc = "dec", !.out = None]
  <2>1. r \in ThreadState /\ r.pc = "dec" /\ r.idx = s /\ r.out = None
    BY <1>1, <1>3 DEF ThreadState, PC
  <2>2. Become(t, r) /\ guard' = guard  BY <1>4, <1>7, <1>9
  <2>. HIDE DEF r
  <2>3. Turns(t) /\ th'[t] = r  BY <2>1, <2>2, Becomes
  <2>. QED  BY <1>2, <1>3, <1>6, <2>1, <2>2, <2>3 DEF At
<1>. QED  BY <1>8, <1>9

LEMMA DecMoves ==
  ASSUME Memory, Locals, NEW t \in Thread, NEW v, Bounded(v), Below(view[t], v), NEW s \in Slot,
         Refs(s) > 0, DecRefCount(t, v, s)
  PROVE  /\ Wrote(RefCount(s)) /\ Advances(t, v) /\ Advances(t, view[t])
         /\ Refs(s)' = Refs(s) - 1
         /\ Last(RefCount(s))' = Last(RefCount(s)) + 1
         /\ mem'[RefCount(s)][Last(RefCount(s)) + 1].rmw
         /\ view'[t][RefCount(s)] = Last(RefCount(s)) + 1
         /\ BoundedNext(NextView(RefCount(s)))
         /\ Below(LastView(RefCount(s)), NextView(RefCount(s)))
         /\ Below(v, NextView(RefCount(s)))
         /\ Turns(t) /\ th'[t].out = None
         /\ IF Refs(s) = 1
            THEN /\ At(t, "drop_value")' /\ th'[t].idx = s
                 /\ Below(LastView(RefCount(s)), view'[t])
            ELSE At(t, "idle")'
<1>. DEFINE l == RefCount(s)
            fence == IF Refs(s) = 1 THEN DecFence ELSE "Relaxed"
            r == IF Refs(s) = 1 THEN [Idle EXCEPT !.pc = "drop_value", !.idx = s] ELSE Idle
<1>1. Swap(t, v, l, Refs(s) - 1, DecOrder, fence) /\ Become(t, r)  BY DEF DecRefCount, Refs
<1>2. l \in Word /\ Refs(s) - 1 \in IF l = FreeHead THEN TaggedIndex ELSE Nat
  <2>1. Refs(s) \in Nat  BY Values
  <2>. QED  BY <2>1, Words
<1>3. Releases(DecOrder) /\ (Refs(s) = 1 => Acquires(fence))
  BY DEF Releases, DecOrder, Acquires, DecFence
<1>. HIDE DEF fence
<1>4. /\ Wrote(l) /\ Advances(t, v) /\ Latest(l)' = Refs(s) - 1
      /\ Last(l)' = Last(l) + 1 /\ mem'[l][Last(l) + 1].rmw
      /\ view'[t][l] = Last(l) + 1
      /\ BoundedNext(NextView(l)) /\ Below(LastView(l), NextView(l)) /\ Below(v, NextView(l))
      /\ Refs(s) = 1 => Below(LastView(l), view'[t])
  <2>. HIDE DEF l
  <2>. QED  BY <1>1, <1>2, <1>3, Swaps
<1>5. v \in View /\ view[t] \in View /\ view'[t] \in View
  BY <1>4, Ticks DEF Bounded, Advances, BoundedNext
<1>6. Advances(t, view[t])  BY <1>4, <1>5, BelowTrans DEF Advances
<1>7. r \in ThreadState /\ r.out = None
      /\ IF Refs(s) = 1 THEN r.pc = "drop_value" /\ r.idx = s ELSE r.pc = "idle"
  BY IdleState DEF ThreadState, PC
<1>. HIDE DEF r
<1>8. Turns(t) /\ th'[t] = r  BY <1>1, <1>7, Becomes
<1>. QED  BY <1>4, <1>6, <1>7, <1>8 DEF At, Refs

LEMMA CloneMoves ==
  ASSUME Memory, Locals, NEW t \in Thread, NEW g \in Guard, NEW h \in Guard, CloneGuard(t, g, h)
  PROVE  \E s \in Slot :
           /\ guard[g] # None /\ guard[g].by = t /\ guard[g].idx = s /\ Unused(h)
           /\ Wrote(RefCount(s)) /\ Advances(t, view[t]) /\ Refs(s)' = Refs(s) + 1
           /\ Last(RefCount(s))' = Last(RefCount(s)) + 1
           /\ mem'[RefCount(s)][Last(RefCount(s)) + 1].rmw
           /\ BoundedNext(NextView(RefCount(s)))
           /\ Below(LastView(RefCount(s)), NextView(RefCount(s)))
           /\ guard'[h] = guard[g] /\ \A x \in Guard \ {h} : guard'[x] = guard[x]
<1>1. guard[g] # None /\ guard[g] \in GuardState  BY DEF CloneGuard, Locals
<1>2. PICK s \in Slot : s = guard[g].idx  BY <1>1 DEF GuardState
<1>. DEFINE l == RefCount(s)
<1>3. Swap(t, view[t], l, Refs(s) + 1, CloneOrder, "Relaxed")
  BY <1>2 DEF CloneGuard, Refs
<1>4. l \in Word /\ Refs(s) + 1 \in IF l = FreeHead THEN TaggedIndex ELSE Nat  BY Words, Values
<1>5. /\ Wrote(l) /\ Advances(t, view[t]) /\ Latest(l)' = Refs(s) + 1
      /\ Last(l)' = Last(l) + 1 /\ mem'[l][Last(l) + 1].rmw
      /\ BoundedNext(NextView(l)) /\ Below(LastView(l), NextView(l))
  <2>1. Bounded(view[t])  BY Ticks
  <2>. HIDE DEF l
  <2>. QED  BY <1>3, <1>4, <2>1, Swaps
<1>6. guard'[h] = guard[g] /\ \A x \in Guard \ {h} : guard'[x] = guard[x]
  BY DEF CloneGuard, Locals
<1>. QED  BY <1>1, <1>2, <1>5, <1>6 DEF CloneGuard, Refs

LEMMA SendMoves ==
  ASSUME Memory, Locals, NEW g \in Guard, NEW u \in Thread, SendGuard(g, u)
  PROVE  \E t \in Thread \ {u} :
           /\ guard[g] # None /\ guard[g].by = t /\ mem' = mem /\ At(u, "idle")
           /\ Advances(u, view[u]) /\ Below(view[t], view'[u])
           /\ \A h \in Guard \ {g} : guard'[h] = guard[h]
           /\ guard' \in [Guard -> GuardState \cup {None}]
           /\ guard'[g] # None /\ guard'[g].by = u /\ guard'[g].idx = guard[g].idx
           /\ guard'[g].ver = guard[g].ver
<1>1. guard[g] # None /\ guard[g] \in GuardState
      /\ guard \in [Guard -> GuardState \cup {None}] /\ view \in [Thread -> View]
  BY DEF SendGuard, Locals
<1>2. PICK t \in Thread \ {u} : t = guard[g].by  BY <1>1 DEF SendGuard, GuardState
<1>. DEFINE c == [guard[g] EXCEPT !.by = u]
<1>3. c \in GuardState /\ c.by = u /\ c.idx = guard[g].idx /\ c.ver = guard[g].ver
  BY <1>1 DEF GuardState
<1>4. c # None  BY <1>3, OrderingsAssumption DEF GuardState
<1>5. guard' = [guard EXCEPT ![g] = c] /\ mem' = mem /\ At(u, "idle")
  BY <1>1 DEF SendGuard
<1>. HIDE DEF c
<1>6. /\ guard' \in [Guard -> GuardState \cup {None}] /\ guard'[g] = c
      /\ \A h \in Guard \ {g} : guard'[h] = guard[h]
  BY <1>1, <1>3, <1>5
<1>. DEFINE w == Join(view[u], view[t])
<1>7. w \in View /\ Below(view[u], w) /\ Below(view[t], w)
      /\ \A k \in Known : w[k] = view[u][k] \/ w[k] = view[t][k]
  BY <1>1, <1>2, JoinAbove
<1>8. view' = [view EXCEPT ![u] = w]  BY <1>1, <1>2 DEF SendGuard
<1>. HIDE DEF w
<1>9. view' \in [Thread -> View] /\ view'[u] = w
      /\ \A x \in Thread \ {u} : view'[x] = view[x]
  BY <1>1, <1>7, <1>8
<1>10. BoundedNext(w)
  <2>1. Bounded(view[u]) /\ Bounded(view[t])  BY DEF Locals
  <2>2. Bounded(w)  BY <1>7, <2>1 DEF Bounded, Known
  <2>. QED  BY <1>5, <2>2, Remain
<1>. QED  BY <1>1, <1>2, <1>3, <1>4, <1>5, <1>6, <1>7, <1>9, <1>10 DEF Advances

LEMMA RemoveMoves ==
  ASSUME Memory, Locals, NEW t \in Thread, NEW s \in Slot, Remove(t, s)
  PROVE  /\ At(t, "idle") /\ s < len /\ Occupied(s)
         /\ Wrote(Version(s)) /\ Advances(t, view[t])
         /\ Latest(Version(s))' = Latest(Version(s)) + 1
         /\ Last(Version(s))' = Last(Version(s)) + 1
         /\ view'[t][Version(s)] = Last(Version(s)) + 1
         /\ BoundedNext(NextView(Version(s)))
         /\ Below(LastView(Version(s)), view'[t]) /\ Below(LastView(Chunk), view'[t])
         /\ Turns(t) /\ At(t, "dec")' /\ th'[t].idx = s /\ th'[t].out = None
<1>. DEFINE l == Version(s)
            v == Read(Located(t), l, Last(l), RemoveLoad)
<1>1. /\ At(t, "idle") /\ s < len /\ Occupied(s)
      /\ Swap(t, v, l, Latest(l) + 1, RemoveSwapOrder, "Relaxed")
      /\ Become(t, [Idle EXCEPT !.pc = "dec", !.idx = s])
  BY DEF Remove, Occupied
<1>2. Bounded(Located(t)) /\ Below(view[t], Located(t)) /\ Below(LastView(Chunk), Located(t))
  BY LocatedSees
<1>3. l \in Word /\ Latest(l) + 1 \in IF l = FreeHead THEN TaggedIndex ELSE Nat
  <2>1. Latest(l) = Last(l) - 1 /\ Last(l) \in Nat  BY Values, Lasts, Words
  <2>. QED  BY <2>1, Words
<1>. HIDE DEF l
<1>4. Last(l) \in Readable(Located(t), l)
  <2>1. Last(l) \in 1 .. Last(l)  BY <1>3, Lasts
  <2>. QED  BY <1>2, <1>3, <2>1 DEF Readable, Bounded
<1>5. Acquires(RemoveLoad)  BY DEF Acquires, RemoveLoad
<1>6. Bounded(v) /\ Below(Located(t), v) /\ Below(LastView(l), v)
  BY <1>2, <1>3, <1>4, <1>5, Reads DEF LastView
<1>. HIDE DEF v
<1>7. /\ Wrote(l) /\ Advances(t, v) /\ Latest(l)' = Latest(l) + 1
      /\ Last(l)' = Last(l) + 1 /\ view'[t][l] = Last(l) + 1 /\ BoundedNext(NextView(l))
  BY <1>1, <1>3, <1>6, Swaps
<1>8. /\ Located(t) \in View /\ view[t] \in View /\ LastView(Chunk) \in View /\ v \in View
      /\ view'[t] \in View /\ LastView(l) \in View
  BY <1>2, <1>3, <1>6, <1>7, Lasts, Words, Ticks DEF Bounded, Advances, BoundedNext
<1>9. Below(view[t], v) /\ Below(LastView(Chunk), v)  BY <1>2, <1>6, <1>8, BelowTrans
<1>10. Advances(t, view[t]) /\ Below(LastView(Chunk), view'[t]) /\ Below(LastView(l), view'[t])
  BY <1>6, <1>7, <1>8, <1>9, BelowTrans DEF Advances
<1>. DEFINE r == [Idle EXCEPT !.pc = "dec", !.idx = s]
<1>11. r \in ThreadState /\ r.pc = "dec" /\ r.idx = s /\ r.out = None
  BY IdleState DEF ThreadState, PC
<1>. HIDE DEF r
<1>12. Turns(t) /\ th'[t] = r  BY <1>1, <1>11, Becomes DEF r
<1>. QED  BY <1>1, <1>7, <1>10, <1>11, <1>12 DEF At, l

LEMMA PushStoreNextMoves ==
  ASSUME Memory, Locals, NEW t \in Thread, PushStoreNext(t)
  PROVE  \E s \in Slot :
           /\ s = th[t].idx /\ At(t, "push_next") /\ Wrote(NextFree(s)) /\ Advances(t, view[t])
           /\ Last(NextFree(s))' = Last(NextFree(s)) + 1 /\ Linked(s)' = th[t].head.idx
           /\ view'[t][NextFree(s)] = Last(NextFree(s)) + 1
           /\ \A l \in Word \ {NextFree(s)} : view'[t][l] = view[t][l]
           /\ BoundedNext(NextView(NextFree(s)))
           /\ Turns(t) /\ At(t, "push_swap")'
           /\ th'[t].idx = s /\ th'[t].head = th[t].head /\ th'[t].out = th[t].out
<1>1. th[t] \in ThreadState /\ Bounded(view[t])  BY DEF Locals
<1>2. PICK s \in Slot : s = th[t].idx  BY <1>1 DEF ThreadState
<1>3. Store(t, view[t], NextFree(s), th[t].head.idx, NextStore) /\ At(t, "push_next")
  BY <1>2 DEF PushStoreNext
<1>4. th[t].head.idx \in IF NextFree(s) = FreeHead THEN TaggedIndex ELSE Nat
  <2>1. th[t].head.idx \in Slot \cup {SENTINEL}  BY <1>1 DEF ThreadState, TaggedIndex
  <2>2. MaxSlots \in Nat  BY OrderingsAssumption
  <2>3. th[t].head.idx \in Nat  BY <2>1, <2>2 DEF Slot, SENTINEL
  <2>. QED  BY <2>3, Words
<1>5. /\ Wrote(NextFree(s)) /\ Advances(t, view[t]) /\ Linked(s)' = th[t].head.idx
      /\ Last(NextFree(s))' = Last(NextFree(s)) + 1
      /\ view'[t][NextFree(s)] = Last(NextFree(s)) + 1
      /\ \A k \in (Word \ {NextFree(s)}) \cup Thread : view'[t][k] = view[t][k]
      /\ BoundedNext(NextView(NextFree(s)))
  <2>. DEFINE n == th[t].head.idx
  <2>. HIDE DEF n
  <2>1. n \in (IF NextFree(s) = FreeHead THEN TaggedIndex ELSE Nat)
        /\ Store(t, view[t], NextFree(s), n, NextStore)
    BY <1>3, <1>4 DEF n
  <2>2. Latest(NextFree(s))' = n
        /\ Wrote(NextFree(s)) /\ Advances(t, view[t])
        /\ Last(NextFree(s))' = Last(NextFree(s)) + 1
        /\ view'[t][NextFree(s)] = Last(NextFree(s)) + 1
        /\ \A k \in (Word \ {NextFree(s)}) \cup Thread : view'[t][k] = view[t][k]
        /\ BoundedNext(NextView(NextFree(s)))
    BY <1>1, <2>1, Stores, Words
  <2>. QED  BY <2>2 DEF Linked, n
<1>. DEFINE r == [th[t] EXCEPT !.pc = "push_swap"]
<1>6. r \in ThreadState /\ r.pc = "push_swap" /\ r.idx = s /\ r.head = th[t].head
      /\ r.out = th[t].out
  BY <1>1, <1>2 DEF ThreadState, PC
<1>7. Turns(t) /\ th'[t] = r
  <2>1. Become(t, r)  BY DEF PushStoreNext
  <2>. HIDE DEF r
  <2>. QED  BY <1>6, <2>1, Becomes
<1>. HIDE DEF r
<1>. QED  BY <1>2, <1>3, <1>5, <1>6, <1>7 DEF At

LEMMA PushSwapMoves ==
  ASSUME Memory, Locals, NEW t \in Thread, PushSwap(t)
  PROVE  \E s \in Slot :
           /\ s = th[t].idx /\ At(t, "push_swap") /\ ListHead = th[t].head
           /\ Wrote(FreeHead) /\ Advances(t, view[t])
           /\ Latest(FreeHead)' = [tag |-> ListHead.tag + 1, idx |-> s]
           /\ BoundedNext(NextView(FreeHead)) /\ Below(LastView(FreeHead), NextView(FreeHead))
           /\ Below(view[t], NextView(FreeHead))
           /\ Turns(t) /\ th'[t] = Idle
<1>1. th[t] \in ThreadState /\ Bounded(view[t])  BY DEF Locals
<1>2. PICK s \in Slot : s = th[t].idx  BY <1>1 DEF ThreadState
<1>3. At(t, "push_swap") /\ ListHead = th[t].head  BY DEF PushSwap, ListHead
<1>. DEFINE h == [tag |-> th[t].head.tag + 1, idx |-> s]
<1>4. h \in TaggedIndex  BY <1>1 DEF ThreadState, TaggedIndex
<1>5. Swap(t, view[t], FreeHead, h, PushSwapOrder, "Relaxed")  BY <1>2 DEF PushSwap
<1>. HIDE DEF h
<1>6. Releases(PushSwapOrder)  BY DEF Releases, PushSwapOrder
<1>7. /\ Wrote(FreeHead) /\ Advances(t, view[t]) /\ Latest(FreeHead)' = h
      /\ BoundedNext(NextView(FreeHead)) /\ Below(LastView(FreeHead), NextView(FreeHead))
      /\ Below(view[t], NextView(FreeHead))
  BY <1>1, <1>4, <1>5, <1>6, Swaps, Words
<1>8. Turns(t) /\ th'[t] = Idle
  <2>1. Become(t, Idle)  BY DEF PushSwap
  <2>. QED  BY <2>1, IdleState, Becomes
<1>. QED  BY <1>2, <1>3, <1>7, <1>8 DEF h

\* A step that uses the content of s by a thread whose view is v from then on.
LEMMA UseMoves ==
  ASSUME Locals, NEW t \in Thread, NEW s \in Slot, NEW v, v[t] \in Nat, Uses(s, t, v)
  PROVE  /\ data' \in [Slot -> [ver : Nat, written : Clock, used : Clock]]
         /\ \A r \in Slot \ {s} : data'[r] = data[r]
         /\ data'[s].ver = data[s].ver /\ data'[s].written = data[s].written
         /\ data'[s].used[t] = v[t]
         /\ \A u \in Thread \ {t} : data'[s].used[u] = data[s].used[u]
<1>. DEFINE n == v[t]
<1>1. n \in Nat /\ data' = [data EXCEPT ![s].used[t] = n]  BY DEF Uses
<1>. HIDE DEF n
<1>2. data \in [Slot -> [ver : Nat, written : Clock, used : Clock]]  BY DEF Locals
<1>3. data[s] \in [ver : Nat, written : Clock, used : Clock] /\ data[s].used \in Clock  BY <1>2
<1>. DEFINE c == [data[s].used EXCEPT ![t] = n]
<1>4. c \in Clock /\ c[t] = n /\ \A u \in Thread \ {t} : c[u] = data[s].used[u]
  BY <1>1, <1>3 DEF Clock
<1>. DEFINE d == [data[s] EXCEPT !.used = c]
<1>5. data' = [data EXCEPT ![s] = d]  BY <1>1, <1>2
<1>. HIDE DEF c
<1>6. d \in [ver : Nat, written : Clock, used : Clock]
      /\ d.ver = data[s].ver /\ d.written = data[s].written /\ d.used = c
  BY <1>3, <1>4
<1>. HIDE DEF d
<1>7. /\ data' \in [Slot -> [ver : Nat, written : Clock, used : Clock]]
      /\ data'[s] = d /\ \A r \in Slot \ {s} : data'[r] = data[r]
  BY <1>2, <1>5, <1>6
<1>. QED  BY <1>4, <1>6, <1>7 DEF n

\* The steps that write nothing and leave who has what as it is.
Quiet(t) ==
  \/ BeginInsert(t) \/ PopReadNext(t) \/ PopRetry(t) \/ LoadVersion(t)
  \/ DropValue(t) \/ CallErr(t) \/ PushRetry(t)

LEMMA DropValueMoves ==
  ASSUME Memory, Locals, NEW t \in Thread, DropValue(t)
  PROVE  \E s \in Slot :
           /\ s = th[t].idx /\ At(t, "drop_value") /\ mem' = mem
           /\ Advances(t, view[t]) /\ Turns(t)
           /\ At(t, "push_next")' /\ th'[t].idx = s /\ th'[t].out = None
           /\ \E i \in 1 .. Last(FreeHead) : th'[t].head = mem[FreeHead][i].val
           /\ data' \in [Slot -> [ver : Nat, written : Clock, used : Clock]]
           /\ \A r \in Slot \ {s} : data'[r] = data[r]
           /\ data'[s].ver = data[s].ver /\ data'[s].written = data[s].written
           /\ data'[s].used[t] <= view'[t][t]
           /\ \A u \in Thread \ {t} : data'[s].used[u] = data[s].used[u]
<1>1. PICK s \in Slot : s = th[t].idx  BY DEF Locals, ThreadState
<1>2. At(t, "drop_value") /\ mem' = mem /\ Uses(s, t, Tick(t)) /\ PushOnto(t, Tick(t), s)
  BY <1>1 DEF DropValue
<1>3. Bounded(Tick(t)) /\ Below(view[t], Tick(t)) /\ Tick(t)[t] \in Nat  BY Ticks
<1>. DEFINE v == Tick(t)
<1>. HIDE DEF v
<1>4. /\ Advances(t, view[t]) /\ Turns(t) /\ view'[t][t] >= v[t]
      /\ At(t, "push_next")' /\ th'[t].idx = s /\ th'[t].out = None
      /\ \E i \in 1 .. Last(FreeHead) : th'[t].head = mem[FreeHead][i].val
  BY <1>2, <1>3, PushOntoMoves DEF v
<1>5. /\ data' \in [Slot -> [ver : Nat, written : Clock, used : Clock]]
      /\ \A r \in Slot \ {s} : data'[r] = data[r]
      /\ data'[s].ver = data[s].ver /\ data'[s].written = data[s].written
      /\ data'[s].used[t] = v[t]
      /\ \A u \in Thread \ {t} : data'[s].used[u] = data[s].used[u]
  BY <1>2, <1>3, UseMoves DEF v
<1>6. v[t] <= view'[t][t]
  <2>1. v[t] \in Nat /\ view'[t][t] \in Nat
    BY <1>3, <1>4 DEF Advances, BoundedNext, View, Known, v
  <2>. QED  BY <1>4, <2>1
<1>. QED  BY <1>1, <1>2, <1>4, <1>5, <1>6

LEMMA QuietMoves ==
  ASSUME Memory, Locals, HeadsRead, NEW t \in Thread, Quiet(t)
  PROVE  /\ mem' = mem /\ guard' = guard /\ len' = len /\ zeroed' = zeroed
         /\ Advances(t, view[t]) /\ Turns(t)
         /\ th[t].pc \notin RefPC /\ th'[t].pc \notin RefPC
         /\ \A s \in Slot : th'[t].pc \in OwnerPC /\ th'[t].idx = s <=> Owns(t, s)
         /\ th'[t].out \in {None, th[t].out}
         /\ data' \in [Slot -> [ver : Nat, written : Clock, used : Clock]]
         /\ \A s \in Slot :
              /\ data'[s].ver = data[s].ver /\ data'[s].written = data[s].written
              /\ \A u \in Thread \ {t} : data'[s].used[u] = data[s].used[u]
              /\ data'[s].used[t] = data[s].used[t] \/ data'[s].used[t] <= view'[t][t]
              /\ ~Owns(t, s) => data'[s] = data[s]
<1>0. /\ Bounded(view[t]) /\ th[t] \in ThreadState
      /\ data \in [Slot -> [ver : Nat, written : Clock, used : Clock]]
  BY DEF Locals
<1>01. view[t] \in View /\ Below(view[t], view[t])
  BY <1>0 DEF Bounded, Below, View
<1>1. CASE BeginInsert(t) \/ PopRetry(t)
  <2>1. /\ mem' = mem /\ PopFrom(t, PopLoad) /\ th[t].pc \in {"idle", "pop_swap"}
        /\ guard' = guard /\ len' = len /\ zeroed' = zeroed /\ data' = data
    BY <1>1 DEF BeginInsert, PopRetry, At
  <2>2. /\ Advances(t, view[t]) /\ Turns(t) /\ th'[t].pc \in {"push_zeroed", "pop_next"}
        /\ th'[t].out = None
    BY <2>1, PopFromMoves
  <2>. QED  BY <1>0, <2>1, <2>2 DEF RefPC, OwnerPC, Owns
<1>2. CASE PopReadNext(t)
  <2>1. guard' = guard /\ len' = len /\ zeroed' = zeroed /\ data' = data
    BY <1>2 DEF PopReadNext
  <2>2. /\ mem' = mem /\ Advances(t, view[t]) /\ Turns(t)
        /\ th[t].pc = "pop_next" /\ th'[t].pc = "pop_swap" /\ th'[t].out = th[t].out
    BY <1>2, PopReadNextMoves DEF At
  <2>. QED  BY <1>0, <2>1, <2>2 DEF RefPC, OwnerPC, Owns
<1>3. CASE LoadVersion(t)
  <2>1. guard' = guard /\ len' = len /\ zeroed' = zeroed /\ data' = data
    BY <1>3 DEF LoadVersion
  <2>2. /\ mem' = mem /\ Advances(t, view[t]) /\ Turns(t) /\ th'[t].idx = th[t].idx
        /\ th[t].pc = "load_version" /\ th'[t].pc = "call" /\ th'[t].out = th[t].out
    BY <1>3, LoadVersionMoves DEF At
  <2>. QED  BY <1>0, <2>1, <2>2 DEF RefPC, OwnerPC, Owns
<1>4. CASE DropValue(t)
  <2>1. guard' = guard /\ len' = len /\ zeroed' = zeroed  BY <1>4 DEF DropValue
  <2>2. PICK s \in Slot :
          /\ s = th[t].idx /\ th[t].pc = "drop_value" /\ mem' = mem
          /\ Advances(t, view[t]) /\ Turns(t)
          /\ th'[t].pc = "push_next" /\ th'[t].idx = s /\ th'[t].out = None
          /\ data' \in [Slot -> [ver : Nat, written : Clock, used : Clock]]
          /\ \A r \in Slot \ {s} : data'[r] = data[r]
          /\ data'[s].ver = data[s].ver /\ data'[s].written = data[s].written
          /\ data'[s].used[t] <= view'[t][t]
          /\ \A u \in Thread \ {t} : data'[s].used[u] = data[s].used[u]
    BY <1>4, DropValueMoves DEF At
  <2>3. Owns(t, s) /\ \A r \in Slot \ {s} : ~Owns(t, r)  BY <2>2 DEF Owns, OwnerPC
  <2>4. th[t].pc \notin RefPC /\ th'[t].pc \notin RefPC
        /\ \A r \in Slot : th'[t].pc \in OwnerPC /\ th'[t].idx = r <=> Owns(t, r)
    BY <2>2, <2>3 DEF RefPC, OwnerPC
  <2>. QED  BY <2>1, <2>2, <2>3, <2>4
<1>5. CASE CallErr(t) \/ PushRetry(t)
  <2>1. PICK s \in Slot : s = th[t].idx  BY <1>0 DEF ThreadState
  <2>2. /\ mem' = mem /\ PushOnto(t, view[t], s) /\ th[t].pc \in {"call", "push_swap"}
        /\ guard' = guard /\ len' = len /\ zeroed' = zeroed /\ data' = data
    BY <1>5, <2>1 DEF CallErr, PushRetry, At
  <2>3. /\ Advances(t, view[t]) /\ Turns(t) /\ th'[t].pc = "push_next" /\ th'[t].idx = s
        /\ th'[t].out = None
    BY <1>0, <1>01, <2>2, PushOntoMoves DEF At
  <2>4. /\ th[t].pc \notin RefPC /\ th'[t].pc \notin RefPC
        /\ \A r \in Slot : th'[t].pc \in OwnerPC /\ th'[t].idx = r <=> Owns(t, r)
    BY <2>1, <2>2, <2>3 DEF RefPC, OwnerPC, Owns
  <2>. QED  BY <1>0, <2>2, <2>3, <2>4
<1>. QED  BY <1>1, <1>2, <1>3, <1>4, <1>5 DEF Quiet

----------------------------------------------------------------------------
(* What is kept of the words that are not written *)

CountsKept(S) == \A r \in S :
  /\ Refs(r)' = Refs(r) /\ Last(RefCount(r))' = Last(RefCount(r))
  /\ LastView(RefCount(r))' = LastView(RefCount(r))
  /\ \A v : StoresKnown(v, RefCount(r))' <=> StoresKnown(v, RefCount(r))

VersionsKept(S) == \A r \in S :
  /\ Occupied(r)' <=> Occupied(r)
  /\ Last(Version(r))' = Last(Version(r))
  /\ LastView(Version(r))' = LastView(Version(r))

LinksKept(S) == \A r \in S :
  Linked(r)' = Linked(r) /\ Last(NextFree(r))' = Last(NextFree(r))

HeadKept ==
  /\ ListHead' = ListHead /\ Last(FreeHead)' = Last(FreeHead)
  /\ LastView(FreeHead)' = LastView(FreeHead)
  /\ mem'[FreeHead] = mem[FreeHead]

ChunkKept == Last(Chunk)' = Last(Chunk) /\ LastView(Chunk)' = LastView(Chunk)

LEMMA Kept ==
  /\ \A r \in Slot : mem'[RefCount(r)] = mem[RefCount(r)] =>
       /\ Refs(r)' = Refs(r) /\ Last(RefCount(r))' = Last(RefCount(r))
       /\ LastView(RefCount(r))' = LastView(RefCount(r))
       /\ \A v : StoresKnown(v, RefCount(r))' <=> StoresKnown(v, RefCount(r))
  /\ \A r \in Slot : mem'[Version(r)] = mem[Version(r)] =>
       /\ Occupied(r)' <=> Occupied(r)
       /\ Last(Version(r))' = Last(Version(r)) /\ LastView(Version(r))' = LastView(Version(r))
  /\ \A r \in Slot : mem'[NextFree(r)] = mem[NextFree(r)] =>
       Linked(r)' = Linked(r) /\ Last(NextFree(r))' = Last(NextFree(r))
  /\ mem'[FreeHead] = mem[FreeHead] => HeadKept
  /\ mem'[Chunk] = mem[Chunk] => ChunkKept
BY DEF Refs, Last, LastView, Latest, StoresKnown, Occupied, Linked, HeadKept, ChunkKept, ListHead

LEMMA NothingWritten ==
  ASSUME mem' = mem
  PROVE  CountsKept(Slot) /\ VersionsKept(Slot) /\ LinksKept(Slot) /\ HeadKept /\ ChunkKept
BY Kept DEF CountsKept, VersionsKept, LinksKept

LEMMA HeadWritten ==
  ASSUME Wrote(FreeHead)
  PROVE  CountsKept(Slot) /\ VersionsKept(Slot) /\ LinksKept(Slot) /\ ChunkKept
<1>1. \A k \in Word \ {FreeHead} : mem'[k] = mem[k]  BY DEF Wrote
<1>. QED  BY <1>1, Kept, Words DEF CountsKept, VersionsKept, LinksKept

LEMMA ChunkWritten ==
  ASSUME Wrote(Chunk)
  PROVE  CountsKept(Slot) /\ VersionsKept(Slot) /\ LinksKept(Slot) /\ HeadKept
<1>1. \A k \in Word \ {Chunk} : mem'[k] = mem[k]  BY DEF Wrote
<1>. QED  BY <1>1, Kept, Words DEF CountsKept, VersionsKept, LinksKept

LEMMA CountWritten ==
  ASSUME NEW s \in Slot, Wrote(RefCount(s))
  PROVE  /\ CountsKept(Slot \ {s}) /\ VersionsKept(Slot) /\ LinksKept(Slot)
         /\ HeadKept /\ ChunkKept
<1>1. \A k \in Word \ {RefCount(s)} : mem'[k] = mem[k]  BY DEF Wrote
<1>. QED  BY <1>1, Kept, Words DEF CountsKept, VersionsKept, LinksKept

LEMMA VersionWritten ==
  ASSUME NEW s \in Slot, Wrote(Version(s))
  PROVE  /\ CountsKept(Slot) /\ VersionsKept(Slot \ {s}) /\ LinksKept(Slot)
         /\ HeadKept /\ ChunkKept
<1>1. \A k \in Word \ {Version(s)} : mem'[k] = mem[k]  BY DEF Wrote
<1>. QED  BY <1>1, Kept, Words DEF CountsKept, VersionsKept, LinksKept

LEMMA LinkWritten ==
  ASSUME NEW s \in Slot, Wrote(NextFree(s))
  PROVE  /\ CountsKept(Slot) /\ VersionsKept(Slot) /\ LinksKept(Slot \ {s})
         /\ HeadKept /\ ChunkKept
<1>1. \A k \in Word \ {NextFree(s)} : mem'[k] = mem[k]  BY DEF Wrote
<1>. QED  BY <1>1, Kept, Words DEF CountsKept, VersionsKept, LinksKept

\* A read-modify-write hides no store, and who has read the last message has
\* read them all.
LEMMA StillKnown ==
  ASSUME Memory, NEW l \in Word, Wrote(l)
  PROVE  /\ mem'[l][Last(l) + 1].rmw =>
              \A v : StoresKnown(v, l) => StoresKnown(v, l)'
         /\ \A v \in View : v[l] = Last(l) + 1 => StoresKnown(v, l)'
         /\ LastView(l)' = NextView(l)
<1>1. Last(l)' = Last(l) + 1 /\ Last(l) \in Nat  BY Lasts DEF Wrote, Last
<1>2. \A i \in 1 .. Last(l) : mem'[l][i] = mem[l][i]  BY DEF Wrote, Last
<1>3. ASSUME mem'[l][Last(l) + 1].rmw, NEW v, StoresKnown(v, l)
      PROVE  StoresKnown(v, l)'
  <2>1. ASSUME NEW i \in 1 .. Last(l) + 1, v[l] < i  PROVE mem'[l][i].rmw
    <3>1. CASE i = Last(l) + 1  BY <1>3, <3>1
    <3>2. CASE i \in 1 .. Last(l)  BY <1>2, <1>3, <2>1, <3>2 DEF StoresKnown
    <3>. QED  BY <1>1, <3>1, <3>2
  <2>. QED  BY <1>1, <2>1 DEF StoresKnown
<1>4. ASSUME NEW v \in View, v[l] = Last(l) + 1  PROVE StoresKnown(v, l)'
  BY <1>1, <1>4 DEF StoresKnown
<1>. QED  BY <1>3, <1>4 DEF LastView, NextView, Last

----------------------------------------------------------------------------
(* Counting references *)

LEMMA OneMore ==
  ASSUME NEW S, IsFiniteSet(S), NEW T, NEW x, S \ {x} = T \ {x}
  PROVE  /\ IsFiniteSet(T) /\ Cardinality(S) \in Nat /\ Cardinality(T) \in Nat
         /\ Cardinality(T) = Cardinality(S) - (IF x \in S THEN 1 ELSE 0)
                                            + (IF x \in T THEN 1 ELSE 0)
<1>. DEFINE R == S \ {x}
<1>1. IsFiniteSet(R) /\ Cardinality(S) \in Nat /\ Cardinality(R) \in Nat
  BY FS_RemoveElement, FS_CardinalityType
<1>2. Cardinality(S) = Cardinality(R) + (IF x \in S THEN 1 ELSE 0)
  <2>1. CASE x \in S  BY <2>1, <1>1, FS_RemoveElement
  <2>2. CASE x \notin S
    <3>1. R = S  BY <2>2
    <3>. QED  BY <3>1, <2>2, <1>1
  <2>. QED  BY <2>1, <2>2
<1>3. IsFiniteSet(T) /\ Cardinality(T) = Cardinality(R) + (IF x \in T THEN 1 ELSE 0)
  <2>1. CASE x \in T
    <3>1. T = R \cup {x} /\ x \notin R  BY <2>1
    <3>. HIDE DEF R
    <3>. QED  BY <3>1, <2>1, <1>1, FS_AddElement
  <2>2. CASE x \notin T
    <3>1. T = R  BY <2>2
    <3>. QED  BY <3>1, <2>2, <1>1
  <2>. QED  BY <2>1, <2>2
<1>. HIDE DEF R
<1>. QED  BY <1>1, <1>2, <1>3

LEMMA Members ==
  ASSUME NEW S, IsFiniteSet(S), NEW x \in S
  PROVE  /\ Cardinality(S) \in Nat /\ Cardinality(S) >= 1
         /\ \A y \in S : y # x => Cardinality(S) >= 2
<1>1. Cardinality(S) \in Nat /\ IsFiniteSet(S \ {x}) /\ Cardinality(S \ {x}) \in Nat
      /\ Cardinality(S \ {x}) = Cardinality(S) - 1
  BY FS_RemoveElement, FS_CardinalityType
<1>2. ASSUME NEW y \in S, y # x  PROVE Cardinality(S) >= 2
  <2>1. Cardinality(S \ {x}) # 0  BY <1>1, <1>2, FS_EmptySet
  <2>. QED  BY <2>1, <1>1
<1>. QED  BY <1>1, <1>2

\* What a step of thread t does to the references counted for threads.
LEMMA ThreadRefs ==
  ASSUME NEW t \in Thread, \A u \in Thread \ {t} : th'[u] = th[u], NEW s \in Slot
  PROVE  /\ Cardinality(RefThreads(s)) \in Nat
         /\ Cardinality(RefThreads(s))' =
              Cardinality(RefThreads(s))
                - (IF th[t].pc \in RefPC /\ th[t].idx = s THEN 1 ELSE 0)
                + (IF th'[t].pc \in RefPC /\ th'[t].idx = s THEN 1 ELSE 0)
<1>1. IsFiniteSet(Thread)  BY OrderingsAssumption
<1>2. IsFiniteSet(RefThreads(s))  BY <1>1, FS_Subset DEF RefThreads
<1>3. RefThreads(s) \ {t} = RefThreads(s)' \ {t}  BY DEF RefThreads
<1>4. /\ t \in RefThreads(s) <=> th[t].pc \in RefPC /\ th[t].idx = s
      /\ t \in RefThreads(s)' <=> th'[t].pc \in RefPC /\ th'[t].idx = s
  BY DEF RefThreads
<1>. DEFINE R == RefThreads(s)  Rn == RefThreads(s)'
<1>5. Cardinality(R) \in Nat /\
      Cardinality(Rn) = Cardinality(R) - (IF t \in R THEN 1 ELSE 0)
                                       + (IF t \in Rn THEN 1 ELSE 0)
  <2>. IsFiniteSet(R) /\ R \ {t} = Rn \ {t}  BY <1>2, <1>3
  <2>. HIDE DEF R, Rn
  <2>. QED  BY OneMore
<1>. QED  BY <1>4, <1>5

\* What a step that changes guard g alone does to those counted for guards.
LEMMA GuardRefs ==
  ASSUME NEW g \in Guard, \A h \in Guard \ {g} : guard'[h] = guard[h], NEW s \in Slot
  PROVE  /\ Cardinality(RefGuards(s)) \in Nat
         /\ Cardinality(RefGuards(s))' =
              Cardinality(RefGuards(s))
                - (IF guard[g] # None /\ guard[g].idx = s THEN 1 ELSE 0)
                + (IF guard'[g] # None /\ guard'[g].idx = s THEN 1 ELSE 0)
<1>1. IsFiniteSet(Guard)  BY OrderingsAssumption
<1>2. IsFiniteSet(RefGuards(s))  BY <1>1, FS_Subset DEF RefGuards
<1>3. RefGuards(s) \ {g} = RefGuards(s)' \ {g}  BY DEF RefGuards
<1>4. /\ g \in RefGuards(s) <=> guard[g] # None /\ guard[g].idx = s
      /\ g \in RefGuards(s)' <=> guard'[g] # None /\ guard'[g].idx = s
  BY DEF RefGuards
<1>. DEFINE R == RefGuards(s)  Rn == RefGuards(s)'
<1>5. Cardinality(R) \in Nat /\
      Cardinality(Rn) = Cardinality(R) - (IF g \in R THEN 1 ELSE 0)
                                       + (IF g \in Rn THEN 1 ELSE 0)
  <2>. IsFiniteSet(R) /\ R \ {g} = Rn \ {g}  BY <1>2, <1>3
  <2>. HIDE DEF R, Rn
  <2>. QED  BY OneMore
<1>. QED  BY <1>4, <1>5

\* Of the map (o), the guards G and the threads T that a count n counts, any
\* one makes it one, and any two make it two.
LEMMA Counted ==
  ASSUME NEW T, NEW G, IsFiniteSet(T), IsFiniteSet(G), NEW o \in {0, 1}, NEW n,
         n = o + Cardinality(G) + Cardinality(T)
  PROVE  /\ n \in Nat
         /\ \A t \in T : n >= 1
         /\ \A g \in G : n >= 1
         /\ o = 1 => n >= 1
         /\ n <= 1 =>
              /\ \A t, u \in T : t = u
              /\ T # {} => o = 0 /\ G = {}
              /\ G # {} => o = 0
<1>1. Cardinality(T) \in Nat /\ Cardinality(G) \in Nat  BY FS_CardinalityType
<1>2. /\ \A t \in T : Cardinality(T) >= 1 /\ \A u \in T : u # t => Cardinality(T) >= 2
      /\ \A g \in G : Cardinality(G) >= 1
  BY Members
<1>. QED  BY <1>1, <1>2

\* A reference that is held is counted; two of them are counted twice.
LEMMA Referenced ==
  ASSUME RefsExact, NEW s \in Slot
  PROVE  /\ Refs(s) \in Nat
         /\ \A t \in Thread : th[t].pc \in RefPC /\ th[t].idx = s =>
              /\ Refs(s) > 0
              /\ Refs(s) = 1 =>
                   /\ ~Occupied(s)
                   /\ \A g \in Guard : guard[g] # None => guard[g].idx # s
                   /\ \A u \in Thread : th[u].pc \in RefPC /\ th[u].idx = s => u = t
         /\ \A g \in Guard : guard[g] # None /\ guard[g].idx = s =>
              /\ Refs(s) > 0
              /\ Refs(s) = 1 =>
                   /\ ~Occupied(s)
                   /\ \A t \in Thread : th[t].pc \in RefPC => th[t].idx # s
         /\ Occupied(s) => Refs(s) > 0
<1>. DEFINE T == RefThreads(s)  G == RefGuards(s)  o == MapRef(s)  n == Refs(s)
<1>1. IsFiniteSet(T) /\ IsFiniteSet(G)
  BY OrderingsAssumption, FS_Subset DEF RefThreads, RefGuards
<1>2. o \in {0, 1} /\ (o = 1 <=> Occupied(s))  BY DEF MapRef
<1>3. n = o + Cardinality(G) + Cardinality(T)  BY DEF RefsExact
<1>4. /\ \A t \in Thread : t \in T <=> th[t].pc \in RefPC /\ th[t].idx = s
      /\ \A g \in Guard : g \in G <=> guard[g] # None /\ guard[g].idx = s
  BY DEF RefThreads, RefGuards
<1>. HIDE DEF T, G, o, n
<1>5. /\ n \in Nat
      /\ \A t \in T : n >= 1
      /\ \A g \in G : n >= 1
      /\ o = 1 => n >= 1
      /\ n <= 1 =>
           /\ \A t, u \in T : t = u
           /\ T # {} => o = 0 /\ G = {}
           /\ G # {} => o = 0
  BY <1>1, <1>2, <1>3, Counted
<1>6. n >= 1 => n > 0  BY <1>5
<1>7. n = 1 => n <= 1  OBVIOUS
<1>8. ASSUME NEW t \in Thread, th[t].pc \in RefPC, th[t].idx = s
      PROVE  /\ n > 0
             /\ n = 1 =>
                  /\ ~Occupied(s)
                  /\ \A g \in Guard : guard[g] # None => guard[g].idx # s
                  /\ \A u \in Thread : th[u].pc \in RefPC /\ th[u].idx = s => u = t
  BY <1>2, <1>4, <1>5, <1>6, <1>7, <1>8
<1>9. ASSUME NEW g \in Guard, guard[g] # None, guard[g].idx = s
      PROVE  /\ n > 0
             /\ n = 1 =>
                  /\ ~Occupied(s)
                  /\ \A t \in Thread : th[t].pc \in RefPC => th[t].idx # s
  BY <1>2, <1>4, <1>5, <1>6, <1>7, <1>9
<1>. QED  BY <1>2, <1>5, <1>6, <1>8, <1>9 DEF n

\* A thread that gives a reference up, or drops a guard.
Release(t) == GiveUp(t) \/ \E g \in Guard : DropGuard(t, g)

LEMMA ReleaseMoves ==
  ASSUME Memory, Locals, RefsExact, NEW t \in Thread, Release(t)
  PROVE  \E s \in Slot :
           /\ Refs(s) > 0 /\ len' = len /\ zeroed' = zeroed
           /\ \/ /\ At(t, "dec") /\ th[t].idx = s /\ guard' = guard
                 /\ Below(view[t], NextView(RefCount(s)))
              \/ /\ At(t, "idle")
                 /\ \E g \in Guard :
                      /\ guard[g] # None /\ guard[g].by = t /\ guard[g].idx = s
                      /\ guard'[g] = None /\ \A x \in Guard \ {g} : guard'[x] = guard[x]
           /\ Wrote(RefCount(s)) /\ Advances(t, view[t])
           /\ Refs(s)' = Refs(s) - 1
           /\ Last(RefCount(s))' = Last(RefCount(s)) + 1
           /\ mem'[RefCount(s)][Last(RefCount(s)) + 1].rmw
           /\ view'[t][RefCount(s)] = Last(RefCount(s)) + 1
           /\ BoundedNext(NextView(RefCount(s)))
           /\ Below(LastView(RefCount(s)), NextView(RefCount(s)))
           /\ Turns(t) /\ th'[t].out = None
           /\ IF Refs(s) = 1
              THEN /\ At(t, "drop_value")' /\ th'[t].idx = s
                   /\ Below(LastView(RefCount(s)), view'[t])
              ELSE At(t, "idle")'
           /\ data' \in [Slot -> [ver : Nat, written : Clock, used : Clock]]
           /\ \A r \in Slot \ {s} : data'[r] = data[r]
           /\ data'[s].ver = data[s].ver /\ data'[s].written = data[s].written
           /\ \/ data'[s].used[t] = data[s].used[t]
              \/ /\ data'[s].used[t] <= view'[t][t]
                 /\ data'[s].used[t] <= NextView(RefCount(s))[t]
           /\ \A u \in Thread \ {t} : data'[s].used[u] = data[s].used[u]
<1>1. CASE GiveUp(t)
  <2>1. PICK s \in Slot : s = th[t].idx  BY DEF Locals, ThreadState
  <2>2. /\ At(t, "dec") /\ DecRefCount(t, view[t], s)
        /\ len' = len /\ zeroed' = zeroed /\ guard' = guard /\ data' = data
    BY <1>1, <2>1 DEF GiveUp
  <2>3. Refs(s) > 0  BY <2>1, <2>2, Referenced DEF At, RefPC
  <2>4. Bounded(view[t]) /\ Below(view[t], view[t])
    BY DEF Locals, Bounded, View, Below
  <2>5. data \in [Slot -> [ver : Nat, written : Clock, used : Clock]]  BY DEF Locals
  <2>. QED  BY <2>1, <2>2, <2>3, <2>4, <2>5, DecMoves
<1>2. ASSUME NEW g \in Guard, DropGuard(t, g)
      PROVE  \E s \in Slot :
               /\ Refs(s) > 0 /\ len' = len /\ zeroed' = zeroed
               /\ At(t, "idle")
               /\ guard[g] # None /\ guard[g].by = t /\ guard[g].idx = s
               /\ guard'[g] = None /\ \A x \in Guard \ {g} : guard'[x] = guard[x]
               /\ DecRefCount(t, Tick(t), s) /\ Uses(s, t, Tick(t))
  <2>1. guard[g] # None /\ guard[g] \in GuardState  BY <1>2 DEF DropGuard, Locals
  <2>2. PICK s \in Slot : s = guard[g].idx  BY <2>1 DEF GuardState
  <2>3. Refs(s) > 0  BY <2>1, <2>2, Referenced
  <2>4. guard'[g] = None /\ \A x \in Guard \ {g} : guard'[x] = guard[x]
    BY <1>2 DEF DropGuard, Locals
  <2>. QED  BY <1>2, <2>2, <2>3, <2>4 DEF DropGuard
<1>3. CASE \E g \in Guard : DropGuard(t, g)
  <2>1. PICK g \in Guard, s \in Slot :
          /\ Refs(s) > 0 /\ len' = len /\ zeroed' = zeroed
          /\ At(t, "idle")
          /\ guard[g] # None /\ guard[g].by = t /\ guard[g].idx = s
          /\ guard'[g] = None /\ \A x \in Guard \ {g} : guard'[x] = guard[x]
          /\ DecRefCount(t, Tick(t), s) /\ Uses(s, t, Tick(t))
    BY <1>2, <1>3
  <2>2. Bounded(Tick(t)) /\ Below(view[t], Tick(t)) /\ Tick(t)[t] \in Nat  BY Ticks
  <2>. DEFINE v == Tick(t)  l == RefCount(s)
  <2>. HIDE DEF v
  <2>3. /\ Wrote(l) /\ Advances(t, v) /\ Advances(t, view[t])
        /\ Refs(s)' = Refs(s) - 1
        /\ Last(l)' = Last(l) + 1
        /\ mem'[l][Last(l) + 1].rmw
        /\ view'[t][l] = Last(l) + 1
        /\ BoundedNext(NextView(l)) /\ Below(LastView(l), NextView(l))
        /\ Below(v, NextView(l))
        /\ Turns(t) /\ th'[t].out = None
        /\ IF Refs(s) = 1
           THEN At(t, "drop_value")' /\ th'[t].idx = s /\ Below(LastView(l), view'[t])
           ELSE At(t, "idle")'
    BY <2>1, <2>2, DecMoves DEF v
  <2>4. /\ data' \in [Slot -> [ver : Nat, written : Clock, used : Clock]]
        /\ \A r \in Slot \ {s} : data'[r] = data[r]
        /\ data'[s].ver = data[s].ver /\ data'[s].written = data[s].written
        /\ data'[s].used[t] = v[t]
        /\ \A u \in Thread \ {t} : data'[s].used[u] = data[s].used[u]
    BY <2>1, <2>2, UseMoves DEF v
  <2>5. v[t] <= view'[t][t] /\ v[t] <= NextView(l)[t]
    BY <2>3 DEF Advances, Below, Known
  <2>. QED  BY <2>1, <2>3, <2>4, <2>5
<1>. QED  BY <1>1, <1>3 DEF Release

----------------------------------------------------------------------------
(* Types *)

\* A word that got a message more is sound if the message is.
LEMMA MemoryGrows ==
  ASSUME Memory, len \in Nat, len' \in Nat, len <= len', NEW l \in Word, Wrote(l),
         BoundedNext(NextView(l)),
         l = FreeHead => /\ Latest(l)'.tag = Last(l)
                         /\ Latest(l)'.idx = SENTINEL \/ Latest(l)'.idx < len',
         \A s \in Slot : l = Version(s) => Latest(l)' = Last(l),
         \A s \in Slot : l = NextFree(s) => Latest(l)' \in Slot \cup {SENTINEL}
  PROVE  Memory'
<1>1. /\ Last(l) \in Nat \ {0} /\ Last(l)' = Last(l) + 1
      /\ \A i \in 1 .. Last(l) : mem'[l][i] = mem[l][i]
      /\ mem'[l][Last(l) + 1].view = NextView(l) /\ mem'[l][Last(l) + 1].val = Latest(l)'
  BY Lasts DEF Wrote, Last, NextView, Latest
<1>2. \A k \in Word \ {l} : mem'[k] = mem[k] /\ Last(k)' = Last(k)
  BY DEF Wrote, Last
<1>3. \A k \in Word : Last(k) \in Nat \ {0}
  BY Lasts
<1>4. \A k \in Word : mem'[k] \in Seq(Messages(k)) /\ Last(k)' >= 1
  BY <1>1, <1>2, <1>3 DEF Memory, Wrote
<1>5. ASSUME NEW k \in Word, NEW i \in 1 .. Last(k)'  PROVE BoundedNext(mem'[k][i].view)
  <2>1. ASSUME i \in 1 .. Last(k), mem'[k][i] = mem[k][i]  PROVE BoundedNext(mem'[k][i].view)
    <3>1. Bounded(mem[k][i].view)  BY <2>1 DEF Memory
    <3>2. BoundedNext(mem[k][i].view)  BY <3>1, Remain
    <3>. QED  BY <2>1, <3>2
  <2>2. CASE k # l  BY <1>2, <2>1, <2>2
  <2>3. CASE k = l /\ i \in 1 .. Last(l)  BY <1>1, <2>1, <2>3
  <2>4. CASE k = l /\ i = Last(l) + 1
    BY <1>1, <2>4
  <2>. QED  BY <1>1, <2>2, <2>3, <2>4
<1>6. ASSUME NEW i \in 1 .. Last(FreeHead)'
      PROVE  LET h == mem'[FreeHead][i].val
             IN  h.tag = i - 1 /\ (h.idx = SENTINEL \/ h.idx < len')
  <2>1. ASSUME i \in 1 .. Last(FreeHead), mem'[FreeHead][i] = mem[FreeHead][i]
        PROVE  LET h == mem'[FreeHead][i].val
               IN  h.tag = i - 1 /\ (h.idx = SENTINEL \/ h.idx < len')
    <3>1. LET h == mem[FreeHead][i].val
          IN  h.tag = i - 1 /\ (h.idx = SENTINEL \/ h.idx < len)
      BY <2>1 DEF Memory
    <3>2. mem[FreeHead][i].val.idx \in Slot \cup {SENTINEL}
      BY <2>1, Lasts, Words DEF Messages, TaggedIndex
    <3>3. \A s \in Slot : s \in Nat  BY DEF Slot
    <3>. QED  BY <2>1, <3>1, <3>2, <3>3
  <2>2. CASE FreeHead # l  BY <1>2, <2>1, <2>2, Words
  <2>3. CASE FreeHead = l /\ i \in 1 .. Last(l)  BY <1>1, <2>1, <2>3
  <2>4. CASE FreeHead = l /\ i = Last(l) + 1  BY <1>1, <2>4
  <2>. QED  BY <1>1, <2>2, <2>3, <2>4
<1>7. ASSUME NEW s \in Slot, NEW i \in 1 .. Last(Version(s))'
      PROVE  mem'[Version(s)][i].val = i - 1
  <2>1. CASE Version(s) # l  BY <1>2, <2>1, Words DEF Memory
  <2>2. CASE Version(s) = l /\ i \in 1 .. Last(l)  BY <1>1, <2>2 DEF Memory
  <2>3. CASE Version(s) = l /\ i = Last(l) + 1  BY <1>1, <2>3
  <2>. QED  BY <1>1, <2>1, <2>2, <2>3
<1>8. ASSUME NEW s \in Slot, NEW i \in 1 .. Last(NextFree(s))'
      PROVE  mem'[NextFree(s)][i].val \in Slot \cup {SENTINEL}
  <2>1. CASE NextFree(s) # l  BY <1>2, <2>1, Words DEF Memory
  <2>2. CASE NextFree(s) = l /\ i \in 1 .. Last(l)  BY <1>1, <2>2 DEF Memory
  <2>3. CASE NextFree(s) = l /\ i = Last(l) + 1  BY <1>1, <2>3
  <2>. QED  BY <1>1, <2>1, <2>2, <2>3
<1>9. mem' = [k \in Word |-> mem'[k]]  BY DEF Wrote
<1>10. \A k \in Word : Last(k)' >= 1 /\ \A i \in 1 .. Last(k)' : Bounded(mem[k][i].view)'
  BY <1>4, <1>5 DEF Bounded, BoundedNext, Last
<1>. QED  BY <1>4, <1>6, <1>7, <1>8, <1>9, <1>10 DEF Memory

LEMMA MemoryStays ==
  ASSUME Memory, len \in Nat, len' \in Nat, len <= len', mem' = mem
  PROVE  Memory'
<1>1. ASSUME NEW i \in 1 .. Last(FreeHead)
      PROVE  LET h == mem[FreeHead][i].val
             IN  h.tag = i - 1 /\ (h.idx = SENTINEL \/ h.idx < len')
  <2>1. LET h == mem[FreeHead][i].val
        IN  h.tag = i - 1 /\ (h.idx = SENTINEL \/ h.idx < len)
    BY DEF Memory
  <2>2. mem[FreeHead][i].val.idx \in Slot \cup {SENTINEL}
    BY Lasts, Words DEF Messages, TaggedIndex
  <2>3. \A s \in Slot : s \in Nat  BY DEF Slot
  <2>. QED  BY <2>1, <2>2, <2>3
<1>. QED  BY <1>1 DEF Memory, Last, Bounded

\* The steps of thread t, as the proofs tell them apart.
Turn(t) ==
  \/ Quiet(t)
  \/ PopSwap(t) \/ PushZeroed(t) \/ StoreRef(t) \/ StoreVersion(t)
  \/ \E s \in Slot, ver \in Asked, g \in Guard : AcquireGuard(t, s, ver, g)
  \/ CheckVersion(t) \/ Release(t)
  \/ \E g, h \in Guard : CloneGuard(t, g, h)
  \/ \E g \in Guard : SendGuard(g, t)
  \/ \E s \in Slot : Remove(t, s)
  \/ PushStoreNext(t) \/ PushSwap(t)

LEMMA NextTurns == Next => \E t \in Thread : Turn(t)
BY DEF Next, InsertStep, GuardStep, RemoveStep, FreeStep, Turn, Quiet, Release

\* What every step of t leaves to the other threads.
LEMMA Alone ==
  ASSUME Memory, Locals, HeadsRead, RefsExact, LocalsSound, NEW t \in Thread, Turn(t)
  PROVE  /\ Advances(t, view[t])
         /\ th' \in [Thread -> ThreadState] /\ \A u \in Thread \ {t} : th'[u] = th[u]
         /\ \A u \in Thread : Bounded(view[u])'
         /\ mem' = mem \/ \E l \in Word : Wrote(l)
<1>1. /\ Advances(t, view[t])
      /\ th' \in [Thread -> ThreadState] /\ \A u \in Thread \ {t} : th'[u] = th[u]
      /\ mem' = mem \/ \E l \in Word : Wrote(l)
  <2>1. CASE Quiet(t)  BY <2>1, QuietMoves DEF Turns
  <2>2. CASE PopSwap(t)  BY <2>2, PopSwapMoves, Words DEF Turns
  <2>3. CASE PushZeroed(t)  BY <2>3, PushZeroedMoves, Words DEF Turns
  <2>4. CASE StoreRef(t)  BY <2>4, StoreRefMoves, Words DEF Turns
  <2>5. CASE StoreVersion(t)  BY <2>5, StoreVersionMoves, Words DEF Turns
  <2>6. CASE \E s \in Slot, ver \in Asked, g \in Guard : AcquireGuard(t, s, ver, g)
    BY <2>6, AcquireMoves, Words DEF Turns
  <2>7. CASE CheckVersion(t)  BY <2>7, CheckMoves DEF Turns
  <2>8. CASE Release(t)  BY <2>8, ReleaseMoves, Words DEF Turns
  <2>9. CASE \E g, h \in Guard : CloneGuard(t, g, h)
    <3>1. th' = th /\ th \in [Thread -> ThreadState]  BY <2>9 DEF CloneGuard, Locals
    <3>. QED  BY <2>9, <3>1, CloneMoves, Words
  <2>10. CASE \E g \in Guard : SendGuard(g, t)
    <3>1. th' = th /\ th \in [Thread -> ThreadState]  BY <2>10 DEF SendGuard, Locals
    <3>. QED  BY <2>10, <3>1, SendMoves
  <2>11. CASE \E s \in Slot : Remove(t, s)  BY <2>11, RemoveMoves, Words DEF Turns
  <2>12. CASE PushStoreNext(t)  BY <2>12, PushStoreNextMoves, Words DEF Turns
  <2>13. CASE PushSwap(t)  BY <2>13, PushSwapMoves, Words DEF Turns
  <2>. QED  BY <2>1, <2>2, <2>3, <2>4, <2>5, <2>6, <2>7, <2>8, <2>9, <2>10, <2>11, <2>12,
               <2>13 DEF Turn
<1>2. ASSUME NEW u \in Thread  PROVE Bounded(view[u])'
  <2>1. BoundedNext(view'[u])
    <3>1. CASE u = t  BY <1>1, <3>1 DEF Advances
    <3>2. CASE u # t
      <4>1. view'[u] = view[u] /\ Bounded(view[u])  BY <1>1, <3>2 DEF Advances, Locals
      <4>. QED  BY <1>1, <4>1, Remain
    <3>. QED  BY <3>1, <3>2
  <2>. QED  BY <2>1 DEF Bounded, BoundedNext, Last
<1>. QED  BY <1>1, <1>2

LEMMA MemoryStep ==
  ASSUME Memory, Locals, HeadsRead, RefsExact, LocalsSound, ListSound, SuccessorCurrent,
         NEW t \in Thread, Turn(t)
  PROVE  Memory'
<1>0. /\ len \in Nat /\ \A s \in Slot : s \in Nat
      /\ \A u \in Thread : th[u] \in ThreadState
  BY OrderingsAssumption DEF Locals, Slot
<1>1. CASE Quiet(t)
  <2>1. mem' = mem /\ len' = len  BY <1>1, QuietMoves
  <2>. QED  BY <1>0, <2>1, MemoryStays
<1>2. CASE PopSwap(t)
  <2>1. PICK s \in Slot :
          /\ s = th[t].head.idx /\ ListHead = th[t].head /\ At(t, "pop_swap")
          /\ Wrote(FreeHead) /\ BoundedNext(NextView(FreeHead))
          /\ Latest(FreeHead)' = [tag |-> ListHead.tag + 1, idx |-> th[t].next]
    BY <1>2, PopSwapMoves
  <2>2. th[t].next = Linked(s)  BY <2>1 DEF SuccessorCurrent, ListHead, Linked
  <2>3. s # SENTINEL /\ Free(s)  BY <2>1, IdleState DEF ListSound
  <2>4. Linked(s) = SENTINEL \/ Linked(s) < len  BY <2>3 DEF ListSound, Free
  <2>5. Latest(FreeHead)'.tag = Last(FreeHead)
        /\ (Latest(FreeHead)'.idx = SENTINEL \/ Latest(FreeHead)'.idx < len)
    <3>1. ListHead.tag = Last(FreeHead) - 1 /\ Last(FreeHead) \in Nat  BY Values, Lasts, Words
    <3>. QED  BY <2>1, <2>2, <2>4, <3>1
  <2>6. len' = len  BY <1>2 DEF PopSwap
  <2>. QED  BY <1>0, <2>1, <2>5, <2>6, MemoryGrows, Words
<1>3. CASE PushZeroed(t)
  <2>1. len' = len + 1  BY <1>3, PushZeroedMoves
  <2>2. CASE mem' = mem  BY <1>0, <2>1, <2>2, MemoryStays
  <2>3. CASE mem' # mem
    <3>1. Wrote(Chunk) /\ BoundedNext(NextView(Chunk))  BY <1>3, <2>3, PushZeroedMoves
    <3>. QED  BY <1>0, <2>1, <3>1, MemoryGrows, Words
  <2>. QED  BY <2>2, <2>3
<1>4. CASE StoreRef(t)
  <2>1. PICK s \in Slot :
          Wrote(RefCount(s)) /\ Advances(t, view[t]) /\ NextView(RefCount(s)) = view'[t]
    BY <1>4, StoreRefMoves
  <2>2. len' = len  BY <1>4 DEF StoreRef
  <2>. QED  BY <1>0, <2>1, <2>2, MemoryGrows, Words DEF Advances
<1>5. CASE StoreVersion(t)
  <2>1. PICK s \in Slot :
          /\ s = th[t].idx /\ At(t, "store_version") /\ Wrote(Version(s))
          /\ Advances(t, view[t]) /\ NextView(Version(s)) = view'[t]
          /\ Latest(Version(s))' = th[t].ver
    BY <1>5, StoreVersionMoves
  <2>2. th[t].ver = Last(Version(s))  BY <2>1 DEF LocalsSound, At
  <2>3. len' = len  BY <1>5 DEF StoreVersion
  <2>. QED  BY <1>0, <2>1, <2>2, <2>3, MemoryGrows, Words DEF Advances
<1>6. CASE \E s \in Slot, ver \in Asked, g \in Guard : AcquireGuard(t, s, ver, g)
  <2>1. PICK s \in Slot, ver \in Asked, g \in Guard : AcquireGuard(t, s, ver, g)  BY <1>6
  <2>2. Wrote(RefCount(s)) /\ BoundedNext(NextView(RefCount(s)))  BY <2>1, AcquireMoves
  <2>3. len' = len  BY <2>1 DEF AcquireGuard
  <2>. QED  BY <1>0, <2>2, <2>3, MemoryGrows, Words
<1>7. CASE CheckVersion(t) \/ \E g \in Guard : SendGuard(g, t)
  <2>1. mem' = mem /\ len' = len  BY <1>7 DEF CheckVersion, SendGuard
  <2>. QED  BY <1>0, <2>1, MemoryStays
<1>8. CASE Release(t)
  <2>1. PICK s \in Slot :
          Wrote(RefCount(s)) /\ BoundedNext(NextView(RefCount(s))) /\ len' = len
    BY <1>8, ReleaseMoves
  <2>. QED  BY <1>0, <2>1, MemoryGrows, Words
<1>9. CASE \E g, h \in Guard : CloneGuard(t, g, h)
  <2>1. PICK s \in Slot : Wrote(RefCount(s)) /\ BoundedNext(NextView(RefCount(s)))
    BY <1>9, CloneMoves
  <2>2. len' = len  BY <1>9 DEF CloneGuard
  <2>. QED  BY <1>0, <2>1, <2>2, MemoryGrows, Words
<1>10. CASE \E s \in Slot : Remove(t, s)
  <2>1. PICK s \in Slot : Remove(t, s)  BY <1>10
  <2>2. /\ Wrote(Version(s)) /\ BoundedNext(NextView(Version(s)))
        /\ Latest(Version(s))' = Latest(Version(s)) + 1
    BY <2>1, RemoveMoves
  <2>3. Latest(Version(s)) = Last(Version(s)) - 1 /\ Last(Version(s)) \in Nat
    BY Values, Lasts, Words
  <2>4. Latest(Version(s))' = Last(Version(s))  BY <2>2, <2>3
  <2>5. len' = len  BY <2>1 DEF Remove
  <2>. QED  BY <1>0, <2>2, <2>4, <2>5, MemoryGrows, Words
<1>11. CASE PushStoreNext(t)
  <2>1. PICK s \in Slot :
          /\ Wrote(NextFree(s)) /\ BoundedNext(NextView(NextFree(s)))
          /\ Linked(s)' = th[t].head.idx
    BY <1>11, PushStoreNextMoves
  <2>2. th[t].head.idx \in Slot \cup {SENTINEL}  BY <1>0 DEF ThreadState, TaggedIndex
  <2>3. Latest(NextFree(s))' \in Slot \cup {SENTINEL}  BY <2>1, <2>2 DEF Linked
  <2>4. len' = len  BY <1>11 DEF PushStoreNext
  <2>. QED  BY <1>0, <2>1, <2>3, <2>4, MemoryGrows, Words
<1>12. CASE PushSwap(t)
  <2>1. PICK s \in Slot :
          /\ s = th[t].idx /\ At(t, "push_swap")
          /\ Wrote(FreeHead) /\ BoundedNext(NextView(FreeHead))
          /\ Latest(FreeHead)' = [tag |-> ListHead.tag + 1, idx |-> s]
    BY <1>12, PushSwapMoves
  <2>2. s < len  BY <2>1 DEF LocalsSound, OwnerPC, At
  <2>3. Latest(FreeHead)'.tag = Last(FreeHead) /\ Latest(FreeHead)'.idx < len
    <3>1. ListHead.tag = Last(FreeHead) - 1 /\ Last(FreeHead) \in Nat  BY Values, Lasts, Words
    <3>. QED  BY <2>1, <2>2, <3>1
  <2>4. len' = len  BY <1>12 DEF PushSwap
  <2>. QED  BY <1>0, <2>1, <2>3, <2>4, MemoryGrows, Words
<1>. QED  BY <1>1, <1>2, <1>3, <1>4, <1>5, <1>6, <1>7, <1>8, <1>9, <1>10, <1>11, <1>12 DEF Turn

LEMMA LeftStep ==
  ASSUME Locals, NEW t \in Thread, Turn(t)
  PROVE  left' \in [insert : Nat, get : Nat, slots : 1 .. MaxSlots]
<1>1. left \in [insert : Nat, get : Nat, slots : 1 .. MaxSlots]  BY DEF Locals
<1>2. CASE left' = left  BY <1>1, <1>2
<1>3. CASE left.insert > 0 /\ left' = [left EXCEPT !.insert = @ - 1]  BY <1>1, <1>3
<1>4. CASE left.get > 0 /\ left' = [left EXCEPT !.get = @ - 1]  BY <1>1, <1>4
<1>5. \/ left' = left
      \/ left.insert > 0 /\ left' = [left EXCEPT !.insert = @ - 1]
      \/ left.get > 0 /\ left' = [left EXCEPT !.get = @ - 1]
  BY DEF Turn, Quiet, Release, BeginInsert, PopReadNext, PopRetry, LoadVersion, DropValue,
         CallErr, PushRetry, PopSwap, PushZeroed, StoreRef, StoreVersion, AcquireGuard,
         CheckVersion, GiveUp, DropGuard, CloneGuard, SendGuard, Remove, PushStoreNext, PushSwap
<1>. QED  BY <1>2, <1>3, <1>4, <1>5

LEMMA GuardStepType ==
  ASSUME Memory, Locals, LocalsSound, NEW t \in Thread, Turn(t)
  PROVE  guard' \in [Guard -> GuardState \cup {None}]
<1>1. guard \in [Guard -> GuardState \cup {None}] /\ th[t] \in ThreadState  BY DEF Locals
<1>2. CASE CheckVersion(t)
  <2>1. PICK s \in Slot, g \in Guard :
          \/ guard' = [guard EXCEPT ![g] = [by |-> t, idx |-> s, ver |-> th[t].ver]]
          \/ guard' = guard
    BY <1>2, CheckMoves
  <2>2. [by |-> t, idx |-> s, ver |-> th[t].ver] \in GuardState
    BY <1>1 DEF ThreadState, GuardState
  <2>. QED  BY <1>1, <2>1, <2>2
<1>3. CASE \E g \in Guard : SendGuard(g, t)  BY <1>3, SendMoves
<1>4. CASE \E g, h \in Guard : CloneGuard(t, g, h)
  <2>1. PICK g \in Guard, h \in Guard : guard' = [guard EXCEPT ![h] = guard[g]]
    BY <1>4 DEF CloneGuard
  <2>2. guard[g] \in GuardState \cup {None}  BY <1>1
  <2>. QED  BY <1>1, <2>1, <2>2
<1>5. CASE \E g \in Guard : DropGuard(t, g)  BY <1>1, <1>5 DEF DropGuard
<1>6. CASE guard' = guard  BY <1>1, <1>6
<1>7. \/ CheckVersion(t) \/ (\E g \in Guard : SendGuard(g, t))
      \/ (\E g, h \in Guard : CloneGuard(t, g, h)) \/ (\E g \in Guard : DropGuard(t, g))
      \/ guard' = guard
  BY DEF Turn, Quiet, Release, BeginInsert, PopReadNext, PopRetry, LoadVersion, DropValue,
         CallErr, PushRetry, PopSwap, PushZeroed, StoreRef, StoreVersion, AcquireGuard,
         GiveUp, Remove, PushStoreNext, PushSwap
<1>. QED  BY <1>2, <1>3, <1>4, <1>5, <1>6, <1>7

LEMMA LocalsStep ==
  ASSUME Memory, Locals, HeadsRead, RefsExact, LocalsSound, NEW t \in Thread, Turn(t)
  PROVE  Locals'
<1>1. /\ view' \in [Thread -> View] /\ \A u \in Thread : Bounded(view[u])'
      /\ th' \in [Thread -> ThreadState]
  BY Alone DEF Advances
<1>2. left' \in [insert : Nat, get : Nat, slots : 1 .. MaxSlots]  BY LeftStep
<1>3. guard' \in [Guard -> GuardState \cup {None}]  BY GuardStepType
<1>4. data' \in [Slot -> [ver : Nat, written : Clock, used : Clock]]
  <2>1. CASE Quiet(t)  BY <2>1, QuietMoves
  <2>2. CASE StoreRef(t)  BY <2>2, StoreRefMoves
  <2>3. CASE Release(t)  BY <2>3, ReleaseMoves
  <2>4. CASE data' = data  BY <2>4 DEF Locals
  <2>. QED
    BY <2>1, <2>2, <2>3, <2>4
    DEF Turn, PopSwap, PushZeroed, StoreVersion, AcquireGuard,
        CheckVersion, CloneGuard, SendGuard, Remove, PushStoreNext, PushSwap
<1>5. zeroed' \in Clock /\ len' \in 0 .. MaxSlots
  <2>0. zeroed \in Clock /\ len \in 0 .. MaxSlots /\ MaxSlots \in Nat
    BY OrderingsAssumption DEF Locals
  <2>1. CASE PushZeroed(t)
    <3>1. len \in Slot /\ len' = len + 1 /\ (zeroed' = zeroed \/ zeroed' \in Clock)
      BY <2>1, PushZeroedMoves
    <3>2. len' \in 0 .. MaxSlots  BY <2>0, <3>1 DEF Slot
    <3>. QED  BY <2>0, <3>1, <3>2
  <2>2. CASE zeroed' = zeroed /\ len' = len  BY <2>0, <2>2
  <2>. QED
    BY <2>1, <2>2
    DEF Turn, Quiet, Release, BeginInsert, PopReadNext, PopRetry, LoadVersion, DropValue,
        CallErr, PushRetry, PopSwap, StoreRef, StoreVersion, AcquireGuard, CheckVersion,
        GiveUp, DropGuard, CloneGuard, SendGuard, Remove, PushStoreNext, PushSwap
<1>. QED  BY <1>1, <1>2, <1>3, <1>4, <1>5 DEF Locals

----------------------------------------------------------------------------
(* The counts *)

\* What a thread holds of slot r.
Holds(t, r) == IF th[t].pc \in RefPC /\ th[t].idx = r THEN 1 ELSE 0

LEMMA GuardsStay ==
  ASSUME guard' = guard, NEW r \in Slot
  PROVE  /\ Cardinality(RefGuards(r)) \in Nat
         /\ Cardinality(RefGuards(r))' = Cardinality(RefGuards(r))
<1>1. IsFiniteSet(RefGuards(r))  BY OrderingsAssumption, FS_Subset DEF RefGuards
<1>2. RefGuards(r)' = RefGuards(r)  BY DEF RefGuards
<1>. QED  BY <1>1, <1>2, FS_CardinalityType

\* A count that changes with what is counted remains exact; d is the change of
\* the guards.
LEMMA Balance ==
  ASSUME RefsExact, NEW t \in Thread, \A u \in Thread \ {t} : th'[u] = th[u], NEW r \in Slot,
         NEW d \in Int, Cardinality(RefGuards(r)) \in Nat,
         Cardinality(RefGuards(r))' = Cardinality(RefGuards(r)) + d,
         Refs(r)' = Refs(r) + (MapRef(r)' - MapRef(r)) + d + (Holds(t, r)' - Holds(t, r))
  PROVE  Refs(r)' = MapRef(r)' + Cardinality(RefGuards(r))' + Cardinality(RefThreads(r))'
<1>1. /\ Cardinality(RefThreads(r)) \in Nat
      /\ Cardinality(RefThreads(r))' = Cardinality(RefThreads(r)) - Holds(t, r) + Holds(t, r)'
  BY ThreadRefs DEF Holds
<1>2. Refs(r) = MapRef(r) + Cardinality(RefGuards(r)) + Cardinality(RefThreads(r))
  BY DEF RefsExact
<1>3. MapRef(r) \in Int /\ MapRef(r)' \in Int /\ Holds(t, r) \in Int /\ Holds(t, r)' \in Int
  BY DEF MapRef, Holds
<1>. QED  BY <1>1, <1>2, <1>3

LEMMA Parity ==
  ASSUME NEW n \in Nat
  PROVE  (n % 2 = 1 <=> (n + 1) % 2 # 1) /\ ((n - 1) % 2 = 1 <=> n % 2 # 1)
OBVIOUS

LEMMA Occupancy ==
  ASSUME Memory, NEW s \in Slot
  PROVE  /\ Last(Version(s)) \in Nat \ {0}
         /\ Occupied(s) <=> Last(Version(s)) % 2 # 1
<1>1. Last(Version(s)) \in Nat \ {0} /\ Latest(Version(s)) = Last(Version(s)) - 1
  BY Values, Lasts, Words
<1>. QED  BY <1>1, Parity DEF Occupied

LEMMA RefsStep ==
  ASSUME Memory, Locals, HeadsRead, RefsExact, OwnersAlone, LocalsSound,
         NEW t \in Thread, Turn(t)
  PROVE  RefsExact'
<1>. SUFFICES ASSUME NEW r \in Slot
              PROVE  Refs(r)' = MapRef(r)' + Cardinality(RefGuards(r))'
                                           + Cardinality(RefThreads(r))'
  BY DEF RefsExact
<1>0. /\ \A u \in Thread \ {t} : th'[u] = th[u]
      /\ guard \in [Guard -> GuardState \cup {None}] /\ th[t] \in ThreadState
      /\ Refs(r) \in Nat /\ MapRef(r) \in {0, 1} /\ MapRef(r)' \in {0, 1}
      /\ (Occupied(r)' <=> Occupied(r)) => MapRef(r)' = MapRef(r)
  BY Alone, Referenced DEF Locals, MapRef
<1>1. ASSUME guard' = guard, Refs(r)' = Refs(r), Occupied(r)' <=> Occupied(r),
             Holds(t, r)' = Holds(t, r)
      PROVE  Refs(r)' = MapRef(r)' + Cardinality(RefGuards(r))' + Cardinality(RefThreads(r))'
  <2>1. Holds(t, r) \in Int  BY DEF Holds
  <2>2. Refs(r)' = Refs(r) + (MapRef(r)' - MapRef(r)) + 0 + (Holds(t, r)' - Holds(t, r))
    BY <1>0, <1>1, <2>1
  <2>3. /\ Cardinality(RefGuards(r)) \in Nat
        /\ Cardinality(RefGuards(r))' = Cardinality(RefGuards(r)) + 0
    BY <1>1, GuardsStay
  <2>. QED  BY <1>0, <2>2, <2>3, Balance
<1>2. CASE Quiet(t)
  <2>1. guard' = guard /\ mem' = mem /\ Holds(t, r)' = Holds(t, r)
    BY <1>2, QuietMoves DEF Holds
  <2>. QED  BY <1>1, <2>1, NothingWritten DEF CountsKept, VersionsKept
<1>3. CASE PopSwap(t) \/ PushSwap(t)
  <2>1. guard' = guard  BY <1>3 DEF PopSwap, PushSwap
  <2>2. Wrote(FreeHead) /\ Holds(t, r)' = Holds(t, r)
    <3>1. CASE PopSwap(t)  BY <3>1, PopSwapMoves DEF Holds, RefPC, At
    <3>2. CASE PushSwap(t)  BY <3>2, PushSwapMoves, IdleState DEF Holds, RefPC, At
    <3>. QED  BY <1>3, <3>1, <3>2
  <2>. QED  BY <1>1, <2>1, <2>2, HeadWritten DEF CountsKept, VersionsKept
<1>4. CASE PushZeroed(t)
  <2>1. guard' = guard  BY <1>4 DEF PushZeroed
  <2>2. (mem' = mem \/ Wrote(Chunk)) /\ Holds(t, r)' = Holds(t, r)
    BY <1>4, PushZeroedMoves DEF Holds, RefPC, At
  <2>. QED  BY <1>1, <2>1, <2>2, NothingWritten, ChunkWritten DEF CountsKept, VersionsKept
<1>5. CASE PushStoreNext(t)
  <2>1. guard' = guard  BY <1>5 DEF PushStoreNext
  <2>2. PICK s \in Slot : Wrote(NextFree(s)) /\ Holds(t, r)' = Holds(t, r)
    BY <1>5, PushStoreNextMoves DEF Holds, RefPC, At
  <2>. QED  BY <1>1, <2>1, <2>2, LinkWritten DEF CountsKept, VersionsKept
<1>6. CASE StoreRef(t)
  <2>1. guard' = guard  BY <1>6 DEF StoreRef
  <2>2. PICK s \in Slot :
          /\ s = th[t].idx /\ th[t].pc = "call" /\ Wrote(RefCount(s)) /\ Refs(s)' = 1
          /\ th'[t].pc = "store_version" /\ th'[t].idx = s
    BY <1>6, StoreRefMoves DEF At
  <2>3. Refs(s) = 0  BY <2>2 DEF OwnersAlone, Owns, OwnerPC
  <2>4. CountsKept(Slot \ {s}) /\ VersionsKept(Slot)  BY <2>2, CountWritten
  <2>5. MapRef(r)' = MapRef(r)  BY <1>0, <2>4 DEF VersionsKept
  <2>6. Holds(t, r) = 0 /\ Holds(t, r)' = IF r = s THEN 1 ELSE 0
    BY <2>2 DEF Holds, RefPC
  <2>7. Refs(r)' = IF r = s THEN Refs(r) + 1 ELSE Refs(r)
    BY <2>2, <2>3, <2>4 DEF CountsKept
  <2>8. Refs(r)' = Refs(r) + (MapRef(r)' - MapRef(r)) + 0 + (Holds(t, r)' - Holds(t, r))
    BY <1>0, <2>5, <2>6, <2>7
  <2>9. /\ Cardinality(RefGuards(r)) \in Nat
        /\ Cardinality(RefGuards(r))' = Cardinality(RefGuards(r)) + 0
    BY <2>1, GuardsStay
  <2>. QED  BY <1>0, <2>8, <2>9, Balance
<1>7. CASE StoreVersion(t)
  <2>1. guard' = guard  BY <1>7 DEF StoreVersion
  <2>2. PICK s \in Slot :
          /\ s = th[t].idx /\ th[t].pc = "store_version" /\ Wrote(Version(s))
          /\ Latest(Version(s))' = th[t].ver /\ th'[t] = Idle
    BY <1>7, StoreVersionMoves DEF At
  <2>3. ~Occupied(s)  BY <2>2 DEF OwnersAlone, Owns, OwnerPC
  <2>4. Occupied(s)'
    <3>1. Last(Version(s)) % 2 = 1  BY <2>3, Occupancy
    <3>2. th[t].ver = Last(Version(s))  BY <2>2 DEF LocalsSound
    <3>. QED  BY <2>2, <3>1, <3>2 DEF Occupied
  <2>5. CountsKept(Slot) /\ VersionsKept(Slot \ {s})  BY <2>2, VersionWritten
  <2>6. MapRef(r)' = IF r = s THEN MapRef(r) + 1 ELSE MapRef(r)
    BY <2>3, <2>4, <2>5 DEF VersionsKept, MapRef
  <2>7. Holds(t, r)' = 0 /\ Holds(t, r) = IF r = s THEN 1 ELSE 0
    BY <2>2, IdleState DEF Holds, RefPC
  <2>8. Refs(r)' = Refs(r)  BY <2>5 DEF CountsKept
  <2>9. Refs(r)' = Refs(r) + (MapRef(r)' - MapRef(r)) + 0 + (Holds(t, r)' - Holds(t, r))
    BY <1>0, <2>6, <2>7, <2>8
  <2>10. /\ Cardinality(RefGuards(r)) \in Nat
         /\ Cardinality(RefGuards(r))' = Cardinality(RefGuards(r)) + 0
    BY <2>1, GuardsStay
  <2>. QED  BY <1>0, <2>9, <2>10, Balance
<1>8. CASE \E s \in Slot, ver \in Asked, g \in Guard : AcquireGuard(t, s, ver, g)
  <2>0. PICK s \in Slot, ver \in Asked, g \in Guard : AcquireGuard(t, s, ver, g)  BY <1>8
  <2>1. guard' = guard  BY <2>0 DEF AcquireGuard
  <2>2. /\ th[t].pc = "idle" /\ Wrote(RefCount(s)) /\ Refs(s)' = Refs(s) + 1
        /\ th'[t].pc = "check" /\ th'[t].idx = s
    BY <2>0, AcquireMoves DEF At
  <2>4. CountsKept(Slot \ {s}) /\ VersionsKept(Slot)  BY <2>2, CountWritten
  <2>5. MapRef(r)' = MapRef(r)  BY <1>0, <2>4 DEF VersionsKept
  <2>6. Holds(t, r) = 0 /\ Holds(t, r)' = IF r = s THEN 1 ELSE 0
    BY <2>2 DEF Holds, RefPC
  <2>7. Refs(r)' = IF r = s THEN Refs(r) + 1 ELSE Refs(r)
    BY <2>2, <2>4 DEF CountsKept
  <2>8. Refs(r)' = Refs(r) + (MapRef(r)' - MapRef(r)) + 0 + (Holds(t, r)' - Holds(t, r))
    BY <1>0, <2>5, <2>6, <2>7
  <2>9. /\ Cardinality(RefGuards(r)) \in Nat
        /\ Cardinality(RefGuards(r))' = Cardinality(RefGuards(r)) + 0
    BY <2>1, GuardsStay
  <2>. QED  BY <1>0, <2>8, <2>9, Balance
<1>9. CASE CheckVersion(t)
  <2>1. PICK s \in Slot, g \in Guard :
          /\ th[t].pc = "check" /\ s = th[t].idx /\ g = th[t].out /\ mem' = mem
          /\ \/ /\ th'[t].pc = "idle"
                /\ guard' = [guard EXCEPT ![g] = [by |-> t, idx |-> s, ver |-> th[t].ver]]
             \/ th'[t].pc = "dec" /\ th'[t].idx = s /\ guard' = guard
    BY <1>9, CheckMoves DEF At
  <2>2. Refs(r)' = Refs(r) /\ (Occupied(r)' <=> Occupied(r))
    BY <2>1, NothingWritten DEF CountsKept, VersionsKept
  <2>3. CASE th'[t].pc = "dec"
    <3>1. guard' = guard /\ Holds(t, r)' = Holds(t, r)  BY <2>1, <2>3 DEF Holds, RefPC
    <3>. QED  BY <1>1, <2>2, <3>1
  <2>4. CASE th'[t].pc = "idle"
    <3>. DEFINE c == [by |-> t, idx |-> s, ver |-> th[t].ver]
    <3>1. c \in GuardState /\ c.idx = s /\ c # None
      BY <1>0, OrderingsAssumption DEF ThreadState, GuardState
    <3>2. guard' = [guard EXCEPT ![g] = c]  BY <2>1, <2>4
    <3>. HIDE DEF c
    <3>3. guard[g] = None
      BY <2>1, OrderingsAssumption DEF LocalsSound
    <3>4. guard'[g] = c /\ \A h \in Guard \ {g} : guard'[h] = guard[h]  BY <1>0, <3>2
    <3>. DEFINE d == IF r = s THEN 1 ELSE 0
    <3>5. /\ Cardinality(RefGuards(r)) \in Nat
          /\ Cardinality(RefGuards(r))' = Cardinality(RefGuards(r)) + d
      <4>1. /\ Cardinality(RefGuards(r)) \in Nat
            /\ Cardinality(RefGuards(r))' =
                 Cardinality(RefGuards(r))
                   - (IF guard[g] # None /\ guard[g].idx = r THEN 1 ELSE 0)
                   + (IF guard'[g] # None /\ guard'[g].idx = r THEN 1 ELSE 0)
        BY <3>4, GuardRefs
      <4>. QED  BY <3>1, <3>3, <3>4, <4>1
    <3>6. Holds(t, r) = d /\ Holds(t, r)' = 0  BY <2>1, <2>4 DEF Holds, RefPC
    <3>7. d \in Int  OBVIOUS
    <3>. HIDE DEF d
    <3>8. Refs(r)' = Refs(r) + (MapRef(r)' - MapRef(r)) + d + (Holds(t, r)' - Holds(t, r))
      BY <1>0, <2>2, <3>6, <3>7
    <3>. QED  BY <1>0, <3>5, <3>7, <3>8, Balance
  <2>. QED  BY <2>1, <2>3, <2>4
<1>10. CASE Release(t)
  <2>1. PICK s \in Slot :
          /\ \/ th[t].pc = "dec" /\ th[t].idx = s /\ guard' = guard
             \/ /\ th[t].pc = "idle"
                /\ \E g \in Guard :
                      /\ guard[g] # None /\ guard[g].idx = s
                      /\ guard'[g] = None /\ \A x \in Guard \ {g} : guard'[x] = guard[x]
          /\ Wrote(RefCount(s)) /\ Refs(s)' = Refs(s) - 1
          /\ IF Refs(s) = 1 THEN th'[t].pc = "drop_value" ELSE th'[t].pc = "idle"
    BY <1>10, ReleaseMoves DEF At
  <2>2. CountsKept(Slot \ {s}) /\ VersionsKept(Slot)  BY <2>1, CountWritten
  <2>3. MapRef(r)' = MapRef(r)  BY <1>0, <2>2 DEF VersionsKept
  <2>4. Refs(r)' = IF r = s THEN Refs(r) - 1 ELSE Refs(r)
    BY <2>1, <2>2 DEF CountsKept
  <2>5. Holds(t, r)' = 0  BY <2>1 DEF Holds, RefPC
  <2>6. CASE th[t].pc = "dec"
    <3>1. guard' = guard /\ Holds(t, r) = IF r = s THEN 1 ELSE 0
      BY <2>1, <2>6 DEF Holds, RefPC
    <3>2. Refs(r)' = Refs(r) + (MapRef(r)' - MapRef(r)) + 0 + (Holds(t, r)' - Holds(t, r))
      BY <1>0, <2>3, <2>4, <2>5, <3>1
    <3>3. /\ Cardinality(RefGuards(r)) \in Nat
          /\ Cardinality(RefGuards(r))' = Cardinality(RefGuards(r)) + 0
      BY <3>1, GuardsStay
    <3>. QED  BY <1>0, <3>2, <3>3, Balance
  <2>7. CASE th[t].pc = "idle"
    <3>1. PICK g \in Guard :
            /\ guard[g] # None /\ guard[g].idx = s
            /\ guard'[g] = None /\ \A x \in Guard \ {g} : guard'[x] = guard[x]
      BY <2>1, <2>7
    <3>2. guard'[g] = None /\ \A h \in Guard \ {g} : guard'[h] = guard[h]  BY <3>1
    <3>. DEFINE d == IF r = s THEN -1 ELSE 0
    <3>3. /\ Cardinality(RefGuards(r)) \in Nat
          /\ Cardinality(RefGuards(r))' = Cardinality(RefGuards(r)) + d
      <4>1. /\ Cardinality(RefGuards(r)) \in Nat
            /\ Cardinality(RefGuards(r))' =
                 Cardinality(RefGuards(r))
                   - (IF guard[g] # None /\ guard[g].idx = r THEN 1 ELSE 0)
                   + (IF guard'[g] # None /\ guard'[g].idx = r THEN 1 ELSE 0)
        BY <3>2, GuardRefs
      <4>. QED  BY <3>1, <3>2, <4>1
    <3>4. Holds(t, r) = 0  BY <2>7 DEF Holds, RefPC
    <3>5. d \in Int  OBVIOUS
    <3>6. Refs(r)' = Refs(r) + (MapRef(r)' - MapRef(r)) + d + (Holds(t, r)' - Holds(t, r))
      BY <1>0, <2>3, <2>4, <2>5, <3>4
    <3>. HIDE DEF d
    <3>. QED  BY <1>0, <3>3, <3>5, <3>6, Balance
  <2>. QED  BY <2>1, <2>6, <2>7
<1>11. CASE \E g, h \in Guard : CloneGuard(t, g, h)
  <2>1. PICK g \in Guard, h \in Guard : CloneGuard(t, g, h)  BY <1>11
  <2>2. PICK s \in Slot :
          /\ guard[g] # None /\ guard[g].idx = s /\ Unused(h)
          /\ Wrote(RefCount(s)) /\ Refs(s)' = Refs(s) + 1
          /\ guard'[h] = guard[g] /\ \A x \in Guard \ {h} : guard'[x] = guard[x]
    BY <2>1, CloneMoves
  <2>3. guard'[h] = guard[g] /\ guard[h] = None /\ \A x \in Guard \ {h} : guard'[x] = guard[x]
    BY <2>2 DEF Unused
  <2>4. CountsKept(Slot \ {s}) /\ VersionsKept(Slot)  BY <2>2, CountWritten
  <2>5. MapRef(r)' = MapRef(r)  BY <1>0, <2>4 DEF VersionsKept
  <2>6. Refs(r)' = IF r = s THEN Refs(r) + 1 ELSE Refs(r)
    BY <2>2, <2>4 DEF CountsKept
  <2>7. th' = th  BY <2>1 DEF CloneGuard
  <2>8. Holds(t, r)' = Holds(t, r) /\ Holds(t, r) \in Int  BY <2>7 DEF Holds
  <2>. DEFINE d == IF r = s THEN 1 ELSE 0
  <2>9. /\ Cardinality(RefGuards(r)) \in Nat
        /\ Cardinality(RefGuards(r))' = Cardinality(RefGuards(r)) + d
    <3>1. /\ Cardinality(RefGuards(r)) \in Nat
          /\ Cardinality(RefGuards(r))' =
               Cardinality(RefGuards(r))
                 - (IF guard[h] # None /\ guard[h].idx = r THEN 1 ELSE 0)
                 + (IF guard'[h] # None /\ guard'[h].idx = r THEN 1 ELSE 0)
      BY <2>3, GuardRefs
    <3>. QED  BY <2>2, <2>3, <3>1
  <2>10. d \in Int  OBVIOUS
  <2>11. Refs(r)' = Refs(r) + (MapRef(r)' - MapRef(r)) + d + (Holds(t, r)' - Holds(t, r))
    BY <1>0, <2>5, <2>6, <2>8
  <2>. HIDE DEF d
  <2>. QED  BY <1>0, <2>9, <2>10, <2>11, Balance
<1>12. CASE \E g \in Guard : SendGuard(g, t)
  <2>1. PICK g \in Guard : SendGuard(g, t)  BY <1>12
  <2>2. /\ guard[g] # None /\ mem' = mem /\ guard'[g] # None /\ guard'[g].idx = guard[g].idx
        /\ \A h \in Guard \ {g} : guard'[h] = guard[h]
    BY <2>1, SendMoves
  <2>3. Refs(r)' = Refs(r) /\ (Occupied(r)' <=> Occupied(r))
    BY <2>2, NothingWritten DEF CountsKept, VersionsKept
  <2>4. th' = th  BY <2>1 DEF SendGuard
  <2>5. Holds(t, r)' = Holds(t, r) /\ Holds(t, r) \in Int  BY <2>4 DEF Holds
  <2>6. /\ Cardinality(RefGuards(r)) \in Nat
        /\ Cardinality(RefGuards(r))' = Cardinality(RefGuards(r)) + 0
    <3>1. /\ Cardinality(RefGuards(r)) \in Nat
          /\ Cardinality(RefGuards(r))' =
               Cardinality(RefGuards(r))
                 - (IF guard[g] # None /\ guard[g].idx = r THEN 1 ELSE 0)
                 + (IF guard'[g] # None /\ guard'[g].idx = r THEN 1 ELSE 0)
      BY <2>2, GuardRefs
    <3>. QED  BY <2>2, <3>1
  <2>7. Refs(r)' = Refs(r) + (MapRef(r)' - MapRef(r)) + 0 + (Holds(t, r)' - Holds(t, r))
    BY <1>0, <2>3, <2>5
  <2>. QED  BY <1>0, <2>6, <2>7, Balance
<1>13. CASE \E s \in Slot : Remove(t, s)
  <2>0. PICK s \in Slot : Remove(t, s)  BY <1>13
  <2>1. guard' = guard  BY <2>0 DEF Remove
  <2>2. /\ th[t].pc = "idle" /\ Occupied(s) /\ Wrote(Version(s))
        /\ Latest(Version(s))' = Latest(Version(s)) + 1
        /\ th'[t].pc = "dec" /\ th'[t].idx = s
    BY <2>0, RemoveMoves DEF At
  <2>3. ~Occupied(s)'
    <3>1. Latest(Version(s)) \in Nat
      <4>1. Latest(Version(s)) = Last(Version(s)) - 1 /\ Last(Version(s)) \in Nat \ {0}
        BY Values, Lasts, Words
      <4>. QED  BY <4>1
    <3>2. (Latest(Version(s)) + 1) % 2 # 1  BY <2>2, <3>1, Parity DEF Occupied
    <3>. QED  BY <2>2, <3>2 DEF Occupied
  <2>5. CountsKept(Slot) /\ VersionsKept(Slot \ {s})  BY <2>2, VersionWritten
  <2>6. MapRef(r)' = IF r = s THEN MapRef(r) - 1 ELSE MapRef(r)
    BY <2>2, <2>3, <2>5 DEF VersionsKept, MapRef
  <2>7. Holds(t, r) = 0 /\ Holds(t, r)' = IF r = s THEN 1 ELSE 0
    BY <2>2 DEF Holds, RefPC
  <2>8. Refs(r)' = Refs(r)  BY <2>5 DEF CountsKept
  <2>9. Refs(r)' = Refs(r) + (MapRef(r)' - MapRef(r)) + 0 + (Holds(t, r)' - Holds(t, r))
    BY <1>0, <2>6, <2>7, <2>8
  <2>10. /\ Cardinality(RefGuards(r)) \in Nat
         /\ Cardinality(RefGuards(r))' = Cardinality(RefGuards(r)) + 0
    BY <2>1, GuardsStay
  <2>. QED  BY <1>0, <2>9, <2>10, Balance
<1>. QED
  BY <1>2, <1>3, <1>4, <1>5, <1>6, <1>7, <1>8, <1>9, <1>10, <1>11, <1>12, <1>13 DEF Turn

----------------------------------------------------------------------------
(* The owners *)

\* What thread u owns after the step.
WillOwn(u, s) == th'[u].pc \in OwnerPC /\ th'[u].idx = s

LEMMA WillOwns == \A u \in Thread, s \in Slot : Owns(u, s)' <=> WillOwn(u, s)
BY DEF Owns, WillOwn

\* A step that makes no new owner.
LEMMA OwnersStay ==
  ASSUME OwnersAlone, \A u \in Thread, s \in Slot : WillOwn(u, s) =>
           /\ Owns(u, s) /\ ~Occupied(s)'
           /\ th'[u].pc # "store_version" => Refs(s)' = 0
  PROVE  OwnersAlone'
BY DEF OwnersAlone, Owns, WillOwn

\* A step that makes t the owner of s.
LEMMA OwnerNew ==
  ASSUME OwnersAlone, NEW t \in Thread, \A u \in Thread \ {t} : th'[u] = th[u], NEW s \in Slot,
         th'[t].pc # "store_version", th'[t].idx = s,
         \A u \in Thread : ~Owns(u, s),
         ~Occupied(s)', Refs(s)' = 0,
         \A r \in Slot \ {s} : Refs(r)' = Refs(r) /\ (Occupied(r)' <=> Occupied(r))
  PROVE  OwnersAlone'
<1>1. \A u \in Thread \ {t}, r \in Slot : WillOwn(u, r) => Owns(u, r) /\ r # s
  BY DEF WillOwn, Owns
<1>2. \A r \in Slot : WillOwn(t, r) => r = s  BY DEF WillOwn
<1>3. ASSUME NEW u \in Thread, NEW r \in Slot, WillOwn(u, r)
      PROVE  /\ ~Occupied(r)' /\ (th'[u].pc # "store_version" => Refs(r)' = 0)
             /\ \A x \in Thread \ {u} : ~WillOwn(x, r)
  <2>1. CASE u = t
    <3>1. r = s  BY <1>2, <1>3, <2>1
    <3>. QED  BY <1>1, <2>1, <3>1
  <2>2. CASE u # t
    <3>1. Owns(u, r) /\ r # s /\ th'[u] = th[u]  BY <1>1, <1>3, <2>2
    <3>2. ~Occupied(r) /\ (th[u].pc # "store_version" => Refs(r) = 0)
          /\ \A x \in Thread \ {u} : ~Owns(x, r)
      BY <3>1 DEF OwnersAlone
    <3>3. ~WillOwn(t, r)  BY <1>2, <3>1
    <3>4. \A x \in Thread \ {u} : ~WillOwn(x, r)  BY <1>1, <3>2, <3>3
    <3>. QED  BY <3>1, <3>2, <3>4
  <2>. QED  BY <2>1, <2>2
<1>. QED  BY <1>3 DEF OwnersAlone, Owns, WillOwn

LEMMA OwnersStep ==
  ASSUME Memory, Locals, HeadsRead, RefsExact, OwnersAlone, ListSound, Untouched, LocalsSound,
         NEW t \in Thread, Turn(t)
  PROVE  OwnersAlone'
<1>0. /\ \A u \in Thread \ {t} : th'[u] = th[u]
      /\ \A u \in Thread \ {t}, s \in Slot : WillOwn(u, s) <=> Owns(u, s)
      /\ \A u \in Thread, s \in Slot : Owns(u, s) =>
           ~Occupied(s) /\ (th[u].pc # "store_version" => Refs(s) = 0)
  BY Alone DEF OwnersAlone, WillOwn, Owns
<1>1. ASSUME CountsKept(Slot), VersionsKept(Slot), \A s \in Slot : WillOwn(t, s) => Owns(t, s),
             th'[t].pc # "store_version" => th[t].pc # "store_version" \/ th'[t].pc \notin OwnerPC
      PROVE  OwnersAlone'
  BY <1>0, <1>1, OwnersStay DEF CountsKept, VersionsKept, WillOwn
<1>2. CASE Quiet(t)
  <2>1. /\ mem' = mem /\ th[t].pc # "store_version"
        /\ \A s \in Slot : WillOwn(t, s) <=> Owns(t, s)
    BY <1>2, QuietMoves DEF WillOwn, RefPC
  <2>. QED  BY <1>1, <2>1, NothingWritten
<1>3. CASE PopSwap(t)
  <2>1. PICK s \in Slot :
          /\ ListHead.idx = s /\ Wrote(FreeHead)
          /\ th'[t].pc = "load_version" /\ th'[t].idx = s
    BY <1>3, PopSwapMoves DEF At
  <2>2. Free(s)  BY <2>1, IdleState DEF ListSound
  <2>. QED  BY <1>0, <2>1, <2>2, OwnerNew, HeadWritten DEF CountsKept, VersionsKept, Free
<1>4. CASE PushZeroed(t)
  <2>1. /\ len \in Slot /\ th'[t].pc = "call" /\ th'[t].idx = len
        /\ mem' = mem \/ Wrote(Chunk)
    BY <1>4, PushZeroedMoves DEF At
  <2>2. CountsKept(Slot) /\ VersionsKept(Slot)  BY <2>1, NothingWritten, ChunkWritten
  <2>3. \A u \in Thread : ~Owns(u, len)
    <3>1. \A u \in Thread : th[u].pc \in OwnerPC => th[u].idx < len  BY DEF LocalsSound
    <3>2. ~(len < len)  BY <2>1 DEF Slot
    <3>. QED  BY <3>1, <3>2 DEF Owns
  <2>4. ~Occupied(len) /\ Refs(len) = 0
    <3>1. len >= len  BY <2>1 DEF Slot
    <3>2. Last(Version(len)) = 1 /\ Refs(len) = 0  BY <2>1, <3>1 DEF Untouched
    <3>. QED  BY <2>1, <3>2, Occupancy
  <2>5. PICK s \in Slot : s = len  BY <2>1
  <2>6. ~Occupied(s)' /\ Refs(s)' = 0
    BY <2>2, <2>4, <2>5 DEF CountsKept, VersionsKept
  <2>. QED  BY <1>0, <2>1, <2>2, <2>3, <2>5, <2>6, OwnerNew DEF CountsKept, VersionsKept
<1>5. CASE StoreRef(t)
  <2>1. PICK s \in Slot :
          /\ s = th[t].idx /\ th[t].pc = "call" /\ Wrote(RefCount(s))
          /\ th'[t].pc = "store_version" /\ th'[t].idx = s
    BY <1>5, StoreRefMoves DEF At
  <2>2. CountsKept(Slot \ {s}) /\ VersionsKept(Slot)  BY <2>1, CountWritten
  <2>3. Owns(t, s) /\ \A u \in Thread \ {t} : ~Owns(u, s)
    BY <2>1 DEF OwnersAlone, Owns, OwnerPC
  <2>. QED
    BY <1>0, <2>1, <2>2, <2>3, OwnersStay DEF CountsKept, VersionsKept, WillOwn
<1>6. CASE StoreVersion(t)
  <2>1. PICK s \in Slot :
          s = th[t].idx /\ th[t].pc = "store_version" /\ Wrote(Version(s)) /\ th'[t] = Idle
    BY <1>6, StoreVersionMoves DEF At
  <2>2. CountsKept(Slot) /\ VersionsKept(Slot \ {s})  BY <2>1, VersionWritten
  <2>3. \A u \in Thread \ {t} : ~Owns(u, s)
    BY <2>1 DEF OwnersAlone, Owns, OwnerPC
  <2>4. \A r \in Slot : ~WillOwn(t, r)  BY <2>1, IdleState DEF WillOwn, OwnerPC
  <2>. QED  BY <1>0, <2>2, <2>3, <2>4, OwnersStay DEF CountsKept, VersionsKept
<1>7. CASE (\E s \in Slot, ver \in Asked, g \in Guard : AcquireGuard(t, s, ver, g))
           \/ (\E g, h \in Guard : CloneGuard(t, g, h))
  <2>1. PICK s \in Slot :
          /\ Wrote(RefCount(s)) /\ Refs(s) > 0
          /\ \A r \in Slot : WillOwn(t, r) => Owns(t, r) /\ th'[t] = th[t]
    <3>1. CASE \E s \in Slot, ver \in Asked, g \in Guard : AcquireGuard(t, s, ver, g)
      BY <3>1, AcquireMoves DEF WillOwn, OwnerPC, At
    <3>2. CASE \E g, h \in Guard : CloneGuard(t, g, h)
      <4>1. PICK g \in Guard, h \in Guard : CloneGuard(t, g, h)  BY <3>2
      <4>2. PICK s \in Slot : guard[g] # None /\ guard[g].idx = s /\ Wrote(RefCount(s))
        BY <4>1, CloneMoves
      <4>3. Refs(s) > 0  BY <4>2, Referenced
      <4>4. th' = th  BY <4>1 DEF CloneGuard
      <4>. QED  BY <4>2, <4>3, <4>4 DEF WillOwn, Owns
    <3>. QED  BY <1>7, <3>1, <3>2
  <2>2. CountsKept(Slot \ {s}) /\ VersionsKept(Slot)  BY <2>1, CountWritten
  <2>3. \A u \in Thread : Owns(u, s) => th[u].pc = "store_version"  BY <1>0, <2>1
  <2>. QED  BY <1>0, <2>1, <2>2, <2>3, OwnersStay DEF CountsKept, VersionsKept
<1>8. CASE CheckVersion(t) \/ \E g \in Guard : SendGuard(g, t)
  <2>1. mem' = mem  BY <1>8 DEF CheckVersion, SendGuard
  <2>2. \A s \in Slot : WillOwn(t, s) => Owns(t, s) /\ th'[t] = th[t]
    <3>1. CASE CheckVersion(t)  BY <3>1, CheckMoves DEF WillOwn, OwnerPC, At
    <3>2. CASE \E g \in Guard : SendGuard(g, t)
      BY <3>2 DEF WillOwn, Owns, SendGuard
    <3>. QED  BY <1>8, <3>1, <3>2
  <2>. QED  BY <1>0, <2>1, <2>2, NothingWritten, OwnersStay DEF CountsKept, VersionsKept
<1>9. CASE Release(t)
  <2>1. PICK s \in Slot :
          /\ Refs(s) > 0
          /\ \/ th[t].pc = "dec" /\ th[t].idx = s
             \/ th[t].pc = "idle" /\ \E g \in Guard : guard[g] # None /\ guard[g].idx = s
          /\ Wrote(RefCount(s)) /\ Refs(s)' = Refs(s) - 1
          /\ IF Refs(s) = 1 THEN th'[t].pc = "drop_value" /\ th'[t].idx = s
             ELSE th'[t].pc = "idle"
    BY <1>9, ReleaseMoves DEF At
  <2>2. CountsKept(Slot \ {s}) /\ VersionsKept(Slot)  BY <2>1, CountWritten
  <2>3. \A u \in Thread : Owns(u, s) => th[u].pc = "store_version"  BY <1>0, <2>1
  <2>4. CASE Refs(s) = 1
    <3>1. /\ ~Occupied(s)
          /\ \A u \in Thread : th[u].pc = "store_version" => th[u].idx # s
      <4>1. CASE th[t].pc = "dec" /\ th[t].idx = s
        BY <2>4, <4>1, Referenced DEF RefPC
      <4>2. CASE \E g \in Guard : guard[g] # None /\ guard[g].idx = s
        BY <2>4, <4>2, Referenced DEF RefPC
      <4>. QED  BY <2>1, <4>1, <4>2
    <3>2. \A u \in Thread : ~Owns(u, s)  BY <2>3, <3>1 DEF Owns
    <3>3. Refs(s)' = 0  BY <2>1, <2>4
    <3>. QED
      BY <1>0, <2>1, <2>2, <2>4, <3>1, <3>2, <3>3, OwnerNew DEF CountsKept, VersionsKept
  <2>5. CASE Refs(s) # 1
    <3>1. \A r \in Slot : ~WillOwn(t, r)  BY <2>1, <2>5 DEF WillOwn, OwnerPC
    <3>. QED  BY <1>0, <2>2, <2>3, <3>1, OwnersStay DEF CountsKept, VersionsKept
  <2>. QED  BY <2>4, <2>5
<1>10. CASE \E s \in Slot : Remove(t, s)
  <2>1. PICK s \in Slot : Remove(t, s)  BY <1>10
  <2>2. Occupied(s) /\ Wrote(Version(s)) /\ th'[t].pc = "dec"  BY <2>1, RemoveMoves DEF At
  <2>3. CountsKept(Slot) /\ VersionsKept(Slot \ {s})  BY <2>2, VersionWritten
  <2>4. \A r \in Slot : ~WillOwn(t, r)  BY <2>2 DEF WillOwn, OwnerPC
  <2>5. \A u \in Thread : ~Owns(u, s)  BY <1>0, <2>2
  <2>. QED  BY <1>0, <2>3, <2>4, <2>5, OwnersStay DEF CountsKept, VersionsKept
<1>11. CASE PushStoreNext(t)
  <2>1. PICK s \in Slot :
          /\ s = th[t].idx /\ th[t].pc = "push_next" /\ Wrote(NextFree(s))
          /\ th'[t].pc = "push_swap" /\ th'[t].idx = s
    BY <1>11, PushStoreNextMoves DEF At
  <2>2. \A r \in Slot : WillOwn(t, r) => Owns(t, r)  BY <2>1 DEF WillOwn, Owns, OwnerPC
  <2>. QED  BY <1>1, <2>1, <2>2, LinkWritten
<1>12. CASE PushSwap(t)
  <2>1. Wrote(FreeHead) /\ th'[t].pc \notin OwnerPC
    BY <1>12, PushSwapMoves, IdleState DEF OwnerPC
  <2>. QED  BY <1>1, <2>1, HeadWritten DEF WillOwn
<1>. QED
  BY <1>2, <1>3, <1>4, <1>5, <1>6, <1>7, <1>8, <1>9, <1>10, <1>11, <1>12 DEF Turn

----------------------------------------------------------------------------
(* The slots that a step leaves alone *)

\* Only its owner writes to a slot that no one has a reference to.
LEMMA Touches ==
  ASSUME Memory, Locals, HeadsRead, RefsExact, LocalsSound,
         NEW t \in Thread, Turn(t), NEW s \in Slot, ~Owns(t, s)
  PROVE  /\ LinksKept({s})
         /\ ~Occupied(s) => VersionsKept({s})
         /\ Refs(s) = 0 => CountsKept({s}) /\ data'[s] = data[s]
         /\ data'[s].ver = data[s].ver /\ data'[s].written = data[s].written
<1>1. CASE Quiet(t)
  <2>1. mem' = mem /\ data'[s] = data[s]  BY <1>1, QuietMoves
  <2>. QED  BY <2>1, NothingWritten DEF CountsKept, VersionsKept, LinksKept
<1>2. CASE PopSwap(t) \/ PushSwap(t)
  <2>1. data' = data  BY <1>2 DEF PopSwap, PushSwap
  <2>2. Wrote(FreeHead)  BY <1>2, PopSwapMoves, PushSwapMoves
  <2>. QED  BY <2>1, <2>2, HeadWritten DEF CountsKept, VersionsKept, LinksKept
<1>3. CASE PushZeroed(t)
  <2>1. data' = data  BY <1>3 DEF PushZeroed
  <2>2. mem' = mem \/ Wrote(Chunk)  BY <1>3, PushZeroedMoves
  <2>. QED  BY <2>1, <2>2, NothingWritten, ChunkWritten DEF CountsKept, VersionsKept, LinksKept
<1>4. CASE StoreRef(t)
  <2>1. PICK r \in Slot :
          /\ r = th[t].idx /\ th[t].pc = "call" /\ Wrote(RefCount(r))
          /\ \A q \in Slot \ {r} : data'[q] = data[q]
    BY <1>4, StoreRefMoves DEF At
  <2>2. s # r  BY <2>1 DEF Owns, OwnerPC
  <2>. QED  BY <2>1, <2>2, CountWritten DEF CountsKept, VersionsKept, LinksKept
<1>5. CASE StoreVersion(t)
  <2>1. data' = data  BY <1>5 DEF StoreVersion
  <2>2. PICK r \in Slot : r = th[t].idx /\ th[t].pc = "store_version" /\ Wrote(Version(r))
    BY <1>5, StoreVersionMoves DEF At
  <2>3. s # r  BY <2>2 DEF Owns, OwnerPC
  <2>. QED  BY <2>1, <2>2, <2>3, VersionWritten DEF CountsKept, VersionsKept, LinksKept
<1>6. CASE \/ \E r \in Slot, ver \in Asked, g \in Guard : AcquireGuard(t, r, ver, g)
           \/ \E g, h \in Guard : CloneGuard(t, g, h)
  <2>1. data' = data  BY <1>6 DEF AcquireGuard, CloneGuard
  <2>2. PICK r \in Slot : Wrote(RefCount(r)) /\ Refs(r) > 0
    <3>1. CASE \E r \in Slot, ver \in Asked, g \in Guard : AcquireGuard(t, r, ver, g)
      BY <3>1, AcquireMoves
    <3>2. CASE \E g, h \in Guard : CloneGuard(t, g, h)
      <4>1. PICK g \in Guard, r \in Slot :
              guard[g] # None /\ guard[g].idx = r /\ Wrote(RefCount(r))
        BY <3>2, CloneMoves
      <4>. QED  BY <4>1, Referenced
    <3>. QED  BY <1>6, <3>1, <3>2
  <2>3. Refs(s) = 0 => s # r  BY <2>2
  <2>. QED  BY <2>1, <2>2, <2>3, CountWritten DEF CountsKept, VersionsKept, LinksKept
<1>7. CASE CheckVersion(t) \/ \E g \in Guard : SendGuard(g, t)
  <2>1. mem' = mem /\ data' = data  BY <1>7 DEF CheckVersion, SendGuard
  <2>. QED  BY <2>1, NothingWritten DEF CountsKept, VersionsKept, LinksKept
<1>8. CASE Release(t)
  <2>1. PICK r \in Slot :
          /\ Refs(r) > 0 /\ Wrote(RefCount(r))
          /\ \A q \in Slot \ {r} : data'[q] = data[q]
          /\ data'[r].ver = data[r].ver /\ data'[r].written = data[r].written
    BY <1>8, ReleaseMoves
  <2>2. Refs(s) = 0 => s # r  BY <2>1
  <2>. QED  BY <2>1, <2>2, CountWritten DEF CountsKept, VersionsKept, LinksKept
<1>9. CASE \E r \in Slot : Remove(t, r)
  <2>1. data' = data  BY <1>9 DEF Remove
  <2>2. PICK r \in Slot : Occupied(r) /\ Wrote(Version(r))  BY <1>9, RemoveMoves
  <2>3. ~Occupied(s) => s # r  BY <2>2
  <2>. QED  BY <2>1, <2>2, <2>3, VersionWritten DEF CountsKept, VersionsKept, LinksKept
<1>10. CASE PushStoreNext(t)
  <2>1. data' = data  BY <1>10 DEF PushStoreNext
  <2>2. PICK r \in Slot : r = th[t].idx /\ th[t].pc = "push_next" /\ Wrote(NextFree(r))
    BY <1>10, PushStoreNextMoves DEF At
  <2>3. s # r  BY <2>2 DEF Owns, OwnerPC
  <2>. QED  BY <2>1, <2>2, <2>3, LinkWritten DEF CountsKept, VersionsKept, LinksKept
<1>. QED  BY <1>1, <1>2, <1>3, <1>4, <1>5, <1>6, <1>7, <1>8, <1>9, <1>10 DEF Turn

\* A step makes t the owner of the slot it pops, adds or is to destroy.
LEMMA NewOwner ==
  ASSUME Memory, Locals, HeadsRead, RefsExact, LocalsSound,
         NEW t \in Thread, Turn(t), NEW s \in Slot, WillOwn(t, s)
  PROVE  \/ Owns(t, s)
         \/ PopSwap(t) /\ ListHead.idx = s
         \/ PushZeroed(t) /\ s = len
         \/ Release(t) /\ Refs(s) = 1
<1>1. CASE Quiet(t)  BY <1>1, QuietMoves DEF WillOwn
<1>2. CASE PopSwap(t)  BY <1>2, PopSwapMoves DEF WillOwn
<1>3. CASE PushZeroed(t)  BY <1>3, PushZeroedMoves DEF WillOwn
<1>4. CASE StoreRef(t)  BY <1>4, StoreRefMoves DEF WillOwn, Owns, OwnerPC, At
<1>5. CASE StoreVersion(t)  BY <1>5, StoreVersionMoves, IdleState DEF WillOwn, OwnerPC
<1>6. CASE \E r \in Slot, ver \in Asked, g \in Guard : AcquireGuard(t, r, ver, g)
  BY <1>6, AcquireMoves DEF WillOwn, OwnerPC, At
<1>7. CASE CheckVersion(t)  BY <1>7, CheckMoves DEF WillOwn, OwnerPC, At
<1>8. CASE Release(t)  BY <1>8, ReleaseMoves DEF WillOwn, OwnerPC, At
<1>9. CASE (\E g, h \in Guard : CloneGuard(t, g, h)) \/ \E g \in Guard : SendGuard(g, t)
  BY <1>9 DEF WillOwn, Owns, CloneGuard, SendGuard
<1>10. CASE \E r \in Slot : Remove(t, r)  BY <1>10, RemoveMoves DEF WillOwn, OwnerPC, At
<1>11. CASE PushStoreNext(t)
  BY <1>11, PushStoreNextMoves DEF WillOwn, Owns, OwnerPC, At
<1>12. CASE PushSwap(t)  BY <1>12, PushSwapMoves, IdleState DEF WillOwn, OwnerPC
<1>. QED
  BY <1>1, <1>2, <1>3, <1>4, <1>5, <1>6, <1>7, <1>8, <1>9, <1>10, <1>11, <1>12 DEF Turn

\* An owner publishes its slot, or gives it back to the list.
LEMMA OldOwner ==
  ASSUME Memory, Locals, HeadsRead, RefsExact, LocalsSound,
         NEW t \in Thread, Turn(t), NEW s \in Slot, Owns(t, s)
  PROVE  WillOwn(t, s) \/ StoreVersion(t) \/ PushSwap(t)
<1>0. th[t].pc \in OwnerPC /\ th[t].idx = s  BY DEF Owns
<1>1. CASE Quiet(t)  BY <1>1, QuietMoves DEF WillOwn
<1>2. CASE PopSwap(t)  BY <1>0, <1>2, PopSwapMoves DEF OwnerPC, At
<1>3. CASE PushZeroed(t)  BY <1>0, <1>3, PushZeroedMoves DEF OwnerPC, At
<1>4. CASE StoreRef(t)  BY <1>0, <1>4, StoreRefMoves DEF WillOwn, OwnerPC, At
<1>6. CASE \E r \in Slot, ver \in Asked, g \in Guard : AcquireGuard(t, r, ver, g)
  BY <1>0, <1>6, AcquireMoves DEF OwnerPC, At
<1>7. CASE CheckVersion(t)  BY <1>0, <1>7, CheckMoves DEF OwnerPC, At
<1>8. CASE Release(t)  BY <1>0, <1>8, ReleaseMoves DEF OwnerPC, At
<1>9. CASE (\E g, h \in Guard : CloneGuard(t, g, h)) \/ \E g \in Guard : SendGuard(g, t)
  BY <1>0, <1>9 DEF WillOwn, CloneGuard, SendGuard
<1>10. CASE \E r \in Slot : Remove(t, r)  BY <1>0, <1>10, RemoveMoves DEF OwnerPC, At
<1>11. CASE PushStoreNext(t)
  BY <1>0, <1>11, PushStoreNextMoves DEF WillOwn, OwnerPC, At
<1>. QED
  BY <1>1, <1>2, <1>3, <1>4, <1>6, <1>7, <1>8, <1>9, <1>10, <1>11 DEF Turn

LEMMA Length ==
  ASSUME Memory, Locals, NEW t \in Thread, Turn(t)
  PROVE  /\ len \in Nat /\ len' \in Nat /\ len <= len' /\ \A s \in Slot : s \in Nat
         /\ len' # len => PushZeroed(t) /\ len \in Slot /\ len' = len + 1
<1>1. len \in Nat /\ \A s \in Slot : s \in Nat  BY OrderingsAssumption DEF Locals, Slot
<1>2. CASE PushZeroed(t)  BY <1>1, <1>2, PushZeroedMoves
<1>3. CASE len' = len  BY <1>1, <1>3
<1>. QED
  BY <1>2, <1>3
  DEF Turn, Quiet, Release, BeginInsert, PopReadNext, PopRetry, LoadVersion, DropValue,
      CallErr, PushRetry, PopSwap, StoreRef, StoreVersion, AcquireGuard, CheckVersion,
      GiveUp, DropGuard, CloneGuard, SendGuard, Remove, PushStoreNext, PushSwap

\* Only who gives the last reference up brings a count to zero.
LEMMA LastRef ==
  ASSUME Memory, Locals, HeadsRead, RefsExact, LocalsSound,
         NEW t \in Thread, Turn(t), NEW s \in Slot, Refs(s) # 0, Refs(s)' = 0
  PROVE  Release(t) /\ Refs(s) = 1 /\ WillOwn(t, s)
<1>0. Refs(s) \in Nat  BY Referenced
<1>1. CASE Quiet(t)
  <2>1. mem' = mem  BY <1>1, QuietMoves
  <2>. QED  BY <2>1, NothingWritten DEF CountsKept
<1>2. CASE PopSwap(t) \/ PushSwap(t)
  <2>1. Wrote(FreeHead)  BY <1>2, PopSwapMoves, PushSwapMoves
  <2>. QED  BY <2>1, HeadWritten DEF CountsKept
<1>3. CASE PushZeroed(t)
  <2>1. mem' = mem \/ Wrote(Chunk)  BY <1>3, PushZeroedMoves
  <2>. QED  BY <2>1, NothingWritten, ChunkWritten DEF CountsKept
<1>4. CASE StoreRef(t)
  <2>1. PICK r \in Slot : Wrote(RefCount(r)) /\ Refs(r)' = 1  BY <1>4, StoreRefMoves
  <2>. QED  BY <2>1, CountWritten DEF CountsKept
<1>5. CASE StoreVersion(t)
  <2>1. PICK r \in Slot : Wrote(Version(r))  BY <1>5, StoreVersionMoves
  <2>. QED  BY <2>1, VersionWritten DEF CountsKept
<1>6. CASE \/ \E r \in Slot, ver \in Asked, g \in Guard : AcquireGuard(t, r, ver, g)
           \/ \E g, h \in Guard : CloneGuard(t, g, h)
  <2>1. PICK r \in Slot : Wrote(RefCount(r)) /\ Refs(r)' = Refs(r) + 1
    BY <1>6, AcquireMoves, CloneMoves
  <2>2. Refs(r) + 1 # 0  BY Referenced
  <2>. QED  BY <2>1, <2>2, CountWritten DEF CountsKept
<1>7. CASE CheckVersion(t) \/ \E g \in Guard : SendGuard(g, t)
  <2>1. mem' = mem  BY <1>7 DEF CheckVersion, SendGuard
  <2>. QED  BY <2>1, NothingWritten DEF CountsKept
<1>8. CASE Release(t)
  <2>1. PICK r \in Slot :
          /\ Wrote(RefCount(r)) /\ Refs(r)' = Refs(r) - 1
          /\ Refs(r) = 1 => th'[t].pc = "drop_value" /\ th'[t].idx = r
    BY <1>8, ReleaseMoves DEF At
  <2>2. s = r  BY <2>1, CountWritten DEF CountsKept
  <2>3. Refs(s) = 1  BY <1>0, <2>1, <2>2
  <2>. QED  BY <1>8, <2>1, <2>2, <2>3 DEF WillOwn, OwnerPC
<1>9. CASE \E r \in Slot : Remove(t, r)
  <2>1. PICK r \in Slot : Wrote(Version(r))  BY <1>9, RemoveMoves
  <2>. QED  BY <2>1, VersionWritten DEF CountsKept
<1>10. CASE PushStoreNext(t)
  <2>1. PICK r \in Slot : Wrote(NextFree(r))  BY <1>10, PushStoreNextMoves
  <2>. QED  BY <2>1, LinkWritten DEF CountsKept
<1>. QED  BY <1>1, <1>2, <1>3, <1>4, <1>5, <1>6, <1>7, <1>8, <1>9, <1>10 DEF Turn

\* What a store of a version publishes is a value.
LEMMA Publishes ==
  ASSUME Memory, Locals, OwnersAlone, LocalsSound, NEW t \in Thread, StoreVersion(t)
  PROVE  \E s \in Slot :
           /\ s = th[t].idx /\ At(t, "store_version") /\ ~Occupied(s) /\ Occupied(s)'
           /\ th[t].ver = Last(Version(s)) /\ Last(Version(s)) % 2 = 1
           /\ data[s].ver = th[t].ver
<1>1. PICK s \in Slot :
        /\ s = th[t].idx /\ th[t].pc = "store_version"
        /\ Latest(Version(s))' = th[t].ver
  BY StoreVersionMoves DEF At
<1>2. ~Occupied(s)  BY <1>1 DEF OwnersAlone, Owns, OwnerPC
<1>3. Last(Version(s)) % 2 = 1  BY <1>2, Occupancy
<1>4. th[t].ver = Last(Version(s)) /\ data[s].ver = th[t].ver  BY <1>1 DEF LocalsSound, At
<1>5. Occupied(s)'  BY <1>1, <1>3, <1>4 DEF Occupied
<1>. QED  BY <1>1, <1>2, <1>3, <1>4, <1>5 DEF At

\* A slot stays free but for the one that is popped,
LEMMA FreeStays ==
  ASSUME Memory, Locals, HeadsRead, RefsExact, LocalsSound,
         NEW t \in Thread, Turn(t), NEW s \in Slot, Free(s)
  PROVE  Free(s)' \/ (PopSwap(t) /\ ListHead.idx = s)
<1>1. s < len /\ ~Occupied(s) /\ Refs(s) = 0 /\ \A u \in Thread : ~Owns(u, s)  BY DEF Free
<1>2. ~Occupied(s)' /\ Refs(s)' = 0
  BY <1>1, Touches DEF CountsKept, VersionsKept
<1>3. s < len' /\ s # len  BY <1>1, Length
<1>4. ASSUME ~(PopSwap(t) /\ ListHead.idx = s), NEW u \in Thread  PROVE ~Owns(u, s)'
  <2>1. CASE u = t  BY <1>1, <1>3, <1>4, <2>1, NewOwner, WillOwns
  <2>2. CASE u # t  BY <1>1, <2>2, Alone DEF Owns
  <2>. QED  BY <2>1, <2>2
<1>. QED  BY <1>2, <1>3, <1>4 DEF Free

\* and none becomes free but one that is pushed.
LEMMA NewFree ==
  ASSUME Memory, Locals, HeadsRead, RefsExact, OwnersAlone, LocalsSound,
         NEW t \in Thread, Turn(t), NEW s \in Slot, Free(s)'
  PROVE  Free(s) \/ (PushSwap(t) /\ th[t].idx = s)
<1>1. s < len' /\ ~Occupied(s)' /\ Refs(s)' = 0 /\ \A u \in Thread : ~WillOwn(u, s)
  BY WillOwns DEF Free
<1>2. CASE Owns(t, s)
  <2>1. StoreVersion(t) \/ PushSwap(t)  BY <1>1, <1>2, OldOwner
  <2>2. ~StoreVersion(t)  BY <1>1, <1>2, Publishes DEF Owns
  <2>. QED  BY <1>2, <2>1, <2>2 DEF Owns
<1>3. CASE ~Owns(t, s)
  <2>1. \A u \in Thread : ~Owns(u, s)  BY <1>1, <1>3, Alone DEF Owns, WillOwn
  <2>2. Refs(s) = 0  BY <1>1, LastRef
  <2>3. ~Occupied(s)  BY <2>2, Referenced
  <2>4. s < len
    <3>1. CASE len' = len  BY <1>1, <3>1
    <3>2. CASE len' # len
      <4>1. PushZeroed(t) /\ len' = len + 1 /\ len \in Slot /\ s \in Nat /\ len \in Nat
        BY <3>2, Length
      <4>2. s # len  BY <1>1, <4>1, PushZeroedMoves DEF WillOwn, OwnerPC, At
      <4>. QED  BY <1>1, <4>1, <4>2
    <3>. QED  BY <3>1, <3>2
  <2>. QED  BY <2>1, <2>2, <2>3, <2>4 DEF Free
<1>. QED  BY <1>2, <1>3

----------------------------------------------------------------------------
(* The list *)

LEMMA ListStep ==
  ASSUME OrderInv, NEW t \in Thread, Turn(t)
  PROVE  ListSound'
<1>0. /\ Memory /\ Locals /\ HeadsRead /\ RefsExact /\ OwnersAlone /\ ListSound /\ LocalsSound
      /\ SuccessorCurrent
  BY DEF OrderInv
<1>1. ASSUME NEW s \in Slot, Free(s)  PROVE Linked(s)' = Linked(s)
  <2>1. ~Owns(t, s)  BY <1>1 DEF Free
  <2>. QED  BY <1>0, <2>1, Touches DEF LinksKept
<1>2. ListHead.idx \in Slot \cup {SENTINEL} /\ \A s \in Slot : Linked(s) \in Slot \cup {SENTINEL}
  <2>1. ListHead \in TaggedIndex /\ \A s \in Slot : Linked(s) \in Slot \cup {SENTINEL}
    BY <1>0, Values, IdleState
  <2>. QED  BY <2>1 DEF TaggedIndex
<1>3. SENTINEL \notin Slot  BY IdleState
<1>4. CASE ~PopSwap(t) /\ ~PushSwap(t)
  <2>1. \A s \in Slot : Free(s)' <=> Free(s)  BY <1>0, <1>4, FreeStays, NewFree
  <2>2. ListHead' = ListHead
    <3>1. CASE Quiet(t)  BY <1>0, <3>1, QuietMoves, NothingWritten DEF HeadKept
    <3>2. CASE PushZeroed(t)
      BY <1>0, <3>2, PushZeroedMoves, NothingWritten, ChunkWritten DEF HeadKept
    <3>3. CASE StoreRef(t)  BY <1>0, <3>3, StoreRefMoves, CountWritten DEF HeadKept
    <3>4. CASE StoreVersion(t)
      BY <1>0, <3>4, StoreVersionMoves, VersionWritten DEF HeadKept
    <3>5. CASE \E s \in Slot, ver \in Asked, g \in Guard : AcquireGuard(t, s, ver, g)
      BY <1>0, <3>5, AcquireMoves, CountWritten DEF HeadKept
    <3>6. CASE CheckVersion(t) \/ \E g \in Guard : SendGuard(g, t)
      BY <3>6, NothingWritten DEF HeadKept, CheckVersion, SendGuard
    <3>7. CASE Release(t)  BY <1>0, <3>7, ReleaseMoves, CountWritten DEF HeadKept
    <3>8. CASE \E g, h \in Guard : CloneGuard(t, g, h)
      BY <1>0, <3>8, CloneMoves, CountWritten DEF HeadKept
    <3>9. CASE \E s \in Slot : Remove(t, s)
      BY <1>0, <3>9, RemoveMoves, VersionWritten DEF HeadKept
    <3>10. CASE PushStoreNext(t)
      BY <1>0, <3>10, PushStoreNextMoves, LinkWritten DEF HeadKept
    <3>. QED
      BY <1>4, <3>1, <3>2, <3>3, <3>4, <3>5, <3>6, <3>7, <3>8, <3>9, <3>10 DEF Turn
  <2>3. ListHead'.idx # SENTINEL => Free(ListHead.idx)'
    BY <1>0, <1>2, <2>1, <2>2 DEF ListSound
  <2>4. ASSUME NEW s \in Slot, Free(s)', Linked(s)' # SENTINEL
        PROVE  /\ Free(Linked(s))' /\ Linked(s)' # ListHead'.idx
               /\ \A r \in Slot : Free(r)' /\ Linked(r)' = Linked(s)' => r = s
    <3>1. Free(s) /\ Linked(s)' = Linked(s)  BY <1>1, <2>1, <2>4
    <3>2. /\ Free(Linked(s)) /\ Linked(s) # ListHead.idx /\ Linked(s) \in Slot
          /\ \A r \in Slot : Free(r) /\ Linked(r) = Linked(s) => r = s
      BY <1>0, <1>2, <2>4, <3>1 DEF ListSound
    <3>. QED  BY <1>1, <2>1, <2>2, <3>1, <3>2
  <2>. QED  BY <2>3, <2>4 DEF ListSound
<1>5. CASE PopSwap(t)
  <2>1. PICK q \in Slot :
          /\ q = th[t].head.idx /\ ListHead = th[t].head /\ At(t, "pop_swap")
          /\ Latest(FreeHead)' = [tag |-> ListHead.tag + 1, idx |-> th[t].next]
          /\ WillOwn(t, q)
    BY <1>0, <1>5, PopSwapMoves DEF WillOwn, OwnerPC, At
  <2>2. ListHead'.idx = Linked(q)
    <3>1. th[t].next = Linked(q)  BY <1>0, <2>1 DEF SuccessorCurrent, ListHead, Linked
    <3>. QED  BY <2>1, <3>1 DEF ListHead
  <2>3. Free(q) /\ ~Free(q)'
    <3>1. Free(q)  BY <1>0, <1>3, <2>1 DEF ListSound
    <3>2. ~Free(q)'  BY <2>1, WillOwns DEF Free
    <3>. QED  BY <3>1, <3>2
  <2>4. \A s \in Slot : Free(s)' <=> Free(s) /\ s # q
    <3>1. ~PushSwap(t)  BY <2>1 DEF PushSwap, At
    <3>. QED  BY <1>0, <2>1, <2>3, <3>1, FreeStays, NewFree
  <2>5. Linked(q) # q
    BY <1>0, <1>3, <2>1, <2>3 DEF ListSound
  <2>6. ListHead'.idx # SENTINEL => Free(ListHead.idx)'
    <3>1. Linked(q) # SENTINEL => Linked(q) \in Slot /\ Free(Linked(q))
      BY <1>0, <1>2, <2>3 DEF ListSound
    <3>. QED  BY <2>2, <2>4, <2>5, <3>1
  <2>7. ASSUME NEW s \in Slot, Free(s)', Linked(s)' # SENTINEL
        PROVE  /\ Free(Linked(s))' /\ Linked(s)' # ListHead'.idx
               /\ \A r \in Slot : Free(r)' /\ Linked(r)' = Linked(s)' => r = s
    <3>1. Free(s) /\ s # q /\ Linked(s)' = Linked(s)  BY <1>1, <2>4, <2>7
    <3>2. /\ Free(Linked(s)) /\ Linked(s) # ListHead.idx /\ Linked(s) \in Slot
          /\ \A r \in Slot : Free(r) /\ Linked(r) = Linked(s) => r = s
      BY <1>0, <1>2, <2>7, <3>1 DEF ListSound
    <3>3. Linked(s) # Linked(q)  BY <2>3, <3>1, <3>2
    <3>. QED  BY <1>1, <2>1, <2>2, <2>4, <3>1, <3>2, <3>3
  <2>. QED  BY <2>6, <2>7 DEF ListSound
<1>6. CASE PushSwap(t)
  <2>1. PICK q \in Slot :
          /\ q = th[t].idx /\ At(t, "push_swap") /\ ListHead = th[t].head /\ Wrote(FreeHead)
          /\ Latest(FreeHead)' = [tag |-> ListHead.tag + 1, idx |-> q]
          /\ th'[t] = Idle
    BY <1>0, <1>6, PushSwapMoves
  <2>2. ListHead'.idx = q /\ ListHead' # ListHead
    <3>1. ListHead.tag \in Nat  BY <1>0, Values DEF TaggedIndex
    <3>. QED  BY <2>1, <3>1 DEF ListHead
  <2>3. /\ ~Free(q) /\ \A s \in Slot : Free(s)' <=> Free(s) \/ s = q
    <3>1. Owns(t, q)  BY <2>1 DEF Owns, OwnerPC, At
    <3>2. /\ ~Occupied(q) /\ Refs(q) = 0 /\ q < len /\ \A u \in Thread \ {t} : ~Owns(u, q)
      BY <1>0, <2>1, <3>1 DEF OwnersAlone, LocalsSound, OwnerPC, At
    <3>3. len' = len  BY <1>6 DEF PushSwap
    <3>4. ~Occupied(q)' /\ Refs(q)' = 0
      BY <2>1, <3>2, HeadWritten DEF CountsKept, VersionsKept
    <3>5. \A u \in Thread : ~WillOwn(u, q)
      BY <1>0, <2>1, <3>2, Alone, IdleState DEF WillOwn, Owns, OwnerPC
    <3>6. Free(q)'  BY <3>2, <3>3, <3>4, <3>5, WillOwns DEF Free
    <3>7. ~PopSwap(t)  BY <2>1 DEF PopSwap, At
    <3>8. ~Free(q)  BY <3>1 DEF Free
    <3>. QED  BY <1>0, <2>1, <3>6, <3>7, <3>8, FreeStays, NewFree
  <2>4. Linked(q)' = ListHead.idx
    <3>1. Linked(q) = th[t].head.idx  BY <1>0, <2>1 DEF HeadsRead
    <3>. QED  BY <2>1, <3>1, HeadWritten DEF LinksKept
  <2>5. ListHead.idx # SENTINEL => ListHead.idx \in Slot /\ Free(ListHead.idx)
    BY <1>0, <1>2 DEF ListSound
  <2>6. ListHead'.idx # SENTINEL => Free(ListHead.idx)'  BY <2>2, <2>3
  <2>7. ASSUME NEW s \in Slot, Free(s)', Linked(s)' # SENTINEL
        PROVE  /\ Free(Linked(s))' /\ Linked(s)' # ListHead'.idx
               /\ \A r \in Slot : Free(r)' /\ Linked(r)' = Linked(s)' => r = s
    <3>1. CASE s = q
      <4>1. ListHead.idx \in Slot /\ Free(ListHead.idx) /\ ListHead.idx # q
        BY <2>3, <2>4, <2>5, <2>7, <3>1
      <4>2. \A r \in Slot : Free(r) => Linked(r)' # ListHead.idx
        BY <1>0, <1>1, <2>4, <2>7, <3>1 DEF ListSound
      <4>. QED  BY <2>2, <2>3, <2>4, <3>1, <4>1, <4>2
    <3>2. CASE s # q
      <4>1. Free(s) /\ Linked(s)' = Linked(s)  BY <1>1, <2>3, <2>7, <3>2
      <4>2. /\ Free(Linked(s)) /\ Linked(s) # ListHead.idx /\ Linked(s) \in Slot
            /\ \A r \in Slot : Free(r) /\ Linked(r) = Linked(s) => r = s
        BY <1>0, <1>2, <2>7, <4>1 DEF ListSound
      <4>. QED  BY <1>1, <2>2, <2>3, <2>4, <4>1, <4>2
    <3>. QED  BY <3>1, <3>2
  <2>. QED  BY <2>6, <2>7 DEF ListSound
<1>. QED  BY <1>4, <1>5, <1>6

LEMMA UntouchedStep ==
  ASSUME OrderInv, NEW t \in Thread, Turn(t)
  PROVE  Untouched'
<1>0. Memory /\ Locals /\ HeadsRead /\ RefsExact /\ LocalsSound /\ Untouched  BY DEF OrderInv
<1>1. ASSUME NEW s \in Slot, s >= len'
      PROVE  /\ Last(Version(s))' = 1 /\ Last(RefCount(s))' = 1 /\ Last(NextFree(s))' = 1
             /\ Refs(s)' = 0 /\ data'[s].used = NoClock
  <2>1. len \in Nat /\ s \in Nat /\ s >= len /\ ~(s < len)
    <3>1. len \in Nat /\ len' \in Nat /\ len <= len' /\ s \in Nat  BY <1>0, Length
    <3>. QED  BY <1>1, <3>1
  <2>2. /\ Last(Version(s)) = 1 /\ Last(RefCount(s)) = 1 /\ Last(NextFree(s)) = 1
        /\ Refs(s) = 0 /\ data[s].used = NoClock
    BY <1>0, <2>1 DEF Untouched
  <2>3. ~Owns(t, s)  BY <1>0, <2>1 DEF LocalsSound, Owns
  <2>4. ~Occupied(s)  BY <1>0, <2>2, Occupancy
  <2>. QED
    BY <1>0, <2>2, <2>3, <2>4, Touches DEF CountsKept, VersionsKept, LinksKept
<1>2. NoClock' = NoClock  BY DEF NoClock
<1>. QED  BY <1>1, <1>2 DEF Untouched

----------------------------------------------------------------------------
(* What threads and guards keep *)

\* Where a guard comes from.
LEMMA GuardMoves ==
  ASSUME Memory, Locals, HeadsRead, RefsExact, LocalsSound,
         NEW t \in Thread, Turn(t), NEW g \in Guard, guard'[g] # None
  PROVE  \/ guard'[g] = guard[g]
         \/ /\ CheckVersion(t) /\ At(t, "check") /\ g = th[t].out /\ th'[t].out = None
            /\ guard'[g].by = t /\ guard'[g].idx = th[t].idx /\ guard'[g].ver = th[t].ver
            /\ view[t][Version(th[t].idx)] <= th[t].ver + 1
            /\ th[t].ver + 1 <= Last(Version(th[t].idx))
         \/ \E h \in Guard :
              /\ CloneGuard(t, h, g) /\ guard[h] # None /\ guard[h].by = t /\ Unused(g)
              /\ guard'[g] = guard[h]
         \/ /\ SendGuard(g, t) /\ guard[g] # None
            /\ guard'[g].by = t /\ guard'[g].idx = guard[g].idx
            /\ guard'[g].ver = guard[g].ver /\ Below(view[guard[g].by], view'[t])
<1>1. CASE CheckVersion(t)
  <2>1. PICK s \in Slot, h \in Guard :
          /\ At(t, "check") /\ s = th[t].idx /\ h = th[t].out /\ th'[t].out = None
          /\ \/ /\ guard' = [guard EXCEPT ![h] = [by |-> t, idx |-> s, ver |-> th[t].ver]]
                /\ view[t][Version(s)] <= th[t].ver + 1 /\ th[t].ver + 1 <= Last(Version(s))
             \/ guard' = guard
    BY <1>1, CheckMoves
  <2>. DEFINE c == [by |-> t, idx |-> s, ver |-> th[t].ver]
  <2>2. c.by = t /\ c.idx = s /\ c.ver = th[t].ver  OBVIOUS
  <2>3. CASE guard' = guard  BY <2>3
  <2>4. CASE guard' # guard
    <3>1. guard' = [guard EXCEPT ![h] = c]  BY <2>1, <2>4
    <3>. HIDE DEF c
    <3>2. (g = h /\ guard'[g] = c) \/ guard'[g] = guard[g]  BY <3>1 DEF Locals
    <3>. QED  BY <1>1, <2>1, <2>2, <2>4, <3>2
  <2>. QED  BY <2>3, <2>4
<1>2. CASE \E x, h \in Guard : CloneGuard(t, x, h)
  <2>1. PICK x \in Guard, h \in Guard : CloneGuard(t, x, h)  BY <1>2
  <2>2. /\ guard[x] # None /\ guard[x].by = t /\ Unused(h) /\ guard'[h] = guard[x]
        /\ \A y \in Guard \ {h} : guard'[y] = guard[y]
    BY <2>1, CloneMoves
  <2>. QED  BY <2>1, <2>2
<1>3. CASE \E x \in Guard : SendGuard(x, t)
  <2>1. PICK x \in Guard : SendGuard(x, t)  BY <1>3
  <2>2. PICK u \in Thread :
          /\ guard[x] # None /\ guard[x].by = u /\ Below(view[u], view'[t])
          /\ \A h \in Guard \ {x} : guard'[h] = guard[h]
          /\ guard'[x].by = t /\ guard'[x].idx = guard[x].idx /\ guard'[x].ver = guard[x].ver
    BY <2>1, SendMoves
  <2>. QED  BY <2>1, <2>2
<1>4. CASE Release(t)  BY <1>4, ReleaseMoves
<1>5. CASE guard' = guard  BY <1>5
<1>. QED
  BY <1>1, <1>2, <1>3, <1>4, <1>5, QuietMoves
  DEF Turn, PopSwap, PushZeroed, StoreRef, StoreVersion, AcquireGuard, Remove,
      PushStoreNext, PushSwap

\* What a get is to deliver stays reserved for it.
LEMMA OutMoves ==
  ASSUME Memory, Locals, HeadsRead, RefsExact, LocalsSound, NEW t \in Thread, Turn(t)
  PROVE  \/ th'[t].out \in {None, th[t].out}
         \/ Unused(th'[t].out) /\ th'[t].out \in Guard /\ guard' = guard
<1>1. CASE Quiet(t)  BY <1>1, QuietMoves
<1>2. CASE PopSwap(t)  BY <1>2, PopSwapMoves
<1>3. CASE PushZeroed(t)  BY <1>3, PushZeroedMoves
<1>4. CASE StoreRef(t)  BY <1>4, StoreRefMoves
<1>5. CASE StoreVersion(t)  BY <1>5, StoreVersionMoves, IdleState
<1>6. CASE \E r \in Slot, ver \in Asked, g \in Guard : AcquireGuard(t, r, ver, g)
  BY <1>6, AcquireMoves DEF AcquireGuard
<1>7. CASE CheckVersion(t)  BY <1>7, CheckMoves
<1>8. CASE Release(t)  BY <1>8, ReleaseMoves
<1>9. CASE (\E g, h \in Guard : CloneGuard(t, g, h)) \/ \E g \in Guard : SendGuard(g, t)
  BY <1>9 DEF CloneGuard, SendGuard
<1>10. CASE \E r \in Slot : Remove(t, r)  BY <1>10, RemoveMoves
<1>11. CASE PushStoreNext(t)  BY <1>11, PushStoreNextMoves
<1>12. CASE PushSwap(t)  BY <1>12, PushSwapMoves, IdleState
<1>. QED
  BY <1>1, <1>2, <1>3, <1>4, <1>5, <1>6, <1>7, <1>8, <1>9, <1>10, <1>11, <1>12 DEF Turn

\* A reference that is to be checked or given up was there before, or is of a
\* slot of the vector.
LEMMA NewRef ==
  ASSUME Memory, Locals, HeadsRead, RefsExact, LocalsSound, NEW t \in Thread, Turn(t),
         th'[t].pc \in {"check", "dec"}
  PROVE  \/ th[t].pc = "check" /\ th'[t].pc = "dec" /\ th'[t].idx = th[t].idx
         \/ th'[t] = th[t]
         \/ \E s \in Slot : /\ s < len /\ th'[t].idx = s
                            /\ th'[t].pc = "check" => th'[t].ver \in Asked /\ th'[t].out # None
<1>1. CASE Quiet(t)  BY <1>1, QuietMoves DEF RefPC
<1>2. CASE PopSwap(t)  BY <1>2, PopSwapMoves DEF At
<1>3. CASE PushZeroed(t)  BY <1>3, PushZeroedMoves DEF At
<1>4. CASE StoreRef(t)  BY <1>4, StoreRefMoves DEF At
<1>5. CASE StoreVersion(t)  BY <1>5, StoreVersionMoves, IdleState
<1>6. CASE \E r \in Slot, ver \in Asked, g \in Guard : AcquireGuard(t, r, ver, g)
  BY <1>6, AcquireMoves, OrderingsAssumption
<1>7. CASE CheckVersion(t)  BY <1>7, CheckMoves DEF At
<1>8. CASE Release(t)  BY <1>8, ReleaseMoves DEF At
<1>9. CASE (\E g, h \in Guard : CloneGuard(t, g, h)) \/ \E g \in Guard : SendGuard(g, t)
  BY <1>9 DEF CloneGuard, SendGuard
<1>10. CASE \E r \in Slot : Remove(t, r)  BY <1>10, RemoveMoves DEF At
<1>11. CASE PushStoreNext(t)  BY <1>11, PushStoreNextMoves DEF At
<1>12. CASE PushSwap(t)  BY <1>12, PushSwapMoves, IdleState
<1>. QED
  BY <1>1, <1>2, <1>3, <1>4, <1>5, <1>6, <1>7, <1>8, <1>9, <1>10, <1>11, <1>12 DEF Turn

\* Where the value that is to be stored comes from.
LEMMA NewCall ==
  ASSUME Memory, Locals, HeadsRead, RefsExact, LocalsSound, NEW t \in Thread, Turn(t),
         th'[t].pc \in {"call", "store_version"}
  PROVE  LoadVersion(t) \/ PushZeroed(t) \/ StoreRef(t)
<1>1. CASE Quiet(t) /\ ~LoadVersion(t)
  <2>1. CASE BeginInsert(t) \/ PopRetry(t)
    BY <2>1, PopFromMoves DEF BeginInsert, PopRetry
  <2>2. CASE PopReadNext(t)  BY <2>2, PopReadNextMoves DEF At
  <2>3. CASE DropValue(t)  BY <2>3, DropValueMoves DEF At
  <2>4. CASE CallErr(t) \/ PushRetry(t)
    <3>1. PICK s \in Slot : s = th[t].idx  BY DEF Locals, ThreadState
    <3>2. Bounded(view[t]) /\ Below(view[t], view[t])
      BY DEF Locals, Bounded, View, Below
    <3>3. PushOnto(t, view[t], s) /\ mem' = mem  BY <2>4, <3>1 DEF CallErr, PushRetry
    <3>. QED  BY <3>2, <3>3, PushOntoMoves DEF At
  <2>. QED  BY <1>1, <2>1, <2>2, <2>3, <2>4 DEF Quiet
<1>2. CASE PopSwap(t)  BY <1>2, PopSwapMoves DEF At
<1>5. CASE StoreVersion(t)  BY <1>5, StoreVersionMoves, IdleState
<1>6. CASE \E r \in Slot, ver \in Asked, g \in Guard : AcquireGuard(t, r, ver, g)
  BY <1>6, AcquireMoves DEF At
<1>7. CASE CheckVersion(t)  BY <1>7, CheckMoves DEF At
<1>8. CASE Release(t)  BY <1>8, ReleaseMoves DEF At
<1>9. CASE (\E g, h \in Guard : CloneGuard(t, g, h)) \/ \E g \in Guard : SendGuard(g, t)
  BY <1>9 DEF CloneGuard, SendGuard, At
<1>10. CASE \E r \in Slot : Remove(t, r)  BY <1>10, RemoveMoves DEF At
<1>11. CASE PushStoreNext(t)  BY <1>11, PushStoreNextMoves DEF At
<1>12. CASE PushSwap(t)  BY <1>12, PushSwapMoves, IdleState
<1>. QED
  BY <1>1, <1>2, <1>5, <1>6, <1>7, <1>8, <1>9, <1>10, <1>11, <1>12 DEF Turn

LEMMA LocalsSoundStep ==
  ASSUME OrderInv, NEW t \in Thread, Turn(t)
  PROVE  LocalsSound'
<1>0. /\ Memory /\ Locals /\ HeadsRead /\ RefsExact /\ OwnersAlone /\ ListSound /\ Untouched
      /\ LocalsSound /\ OwnersSee
  BY DEF OrderInv
<1>1. /\ \A u \in Thread \ {t} : th'[u] = th[u]
      /\ len \in Nat /\ len' \in Nat /\ len <= len' /\ \A s \in Slot : s \in Nat
      /\ th \in [Thread -> ThreadState] /\ th' \in [Thread -> ThreadState]
  BY <1>0, Alone, Length DEF Locals
<1>2. ASSUME NEW s \in Slot, Refs(s) > 0  PROVE s < len
  <2>1. s >= len => Refs(s) = 0  BY <1>0 DEF Untouched
  <2>. QED  BY <1>0, <1>1, <1>2, <2>1, Referenced
<1>3. ASSUME NEW u \in Thread, NEW s \in Slot, WillOwn(u, s)  PROVE s < len'
  <2>1. CASE Owns(u, s)
    <3>1. s < len  BY <1>0, <2>1 DEF LocalsSound, Owns
    <3>. QED  BY <1>1, <3>1
  <2>2. CASE ~Owns(u, s)
    <3>1. u = t  BY <1>1, <1>3, <2>2 DEF WillOwn, Owns
    <3>2. CASE PopSwap(t) /\ ListHead.idx = s
      <4>1. s < len  BY <1>0, <3>2, IdleState DEF ListSound, Free
      <4>. QED  BY <1>1, <4>1
    <3>3. CASE PushZeroed(t) /\ s = len
      <4>1. len' = len + 1  BY <1>0, <3>3, PushZeroedMoves
      <4>. QED  BY <1>1, <3>3, <4>1
    <3>4. CASE Refs(s) = 1
      <4>1. s < len  BY <1>2, <3>4
      <4>. QED  BY <1>1, <4>1
    <3>. QED  BY <1>0, <1>3, <2>2, <3>1, <3>2, <3>3, <3>4, NewOwner
  <2>. QED  BY <2>1, <2>2
<1>4. ASSUME NEW u \in Thread, th'[u].pc \in OwnerPC \cup {"check", "dec"}
      PROVE  th'[u].idx < len'
  <2>0. PICK s \in Slot : s = th'[u].idx  BY <1>1 DEF ThreadState
  <2>1. CASE th'[u].pc \in OwnerPC  BY <1>3, <2>0, <2>1 DEF WillOwn
  <2>2. CASE th'[u].pc \in {"check", "dec"}
    <3>1. s < len
      <4>1. CASE u = t  BY <1>0, <2>0, <2>2, <4>1, NewRef DEF LocalsSound
      <4>2. CASE u # t  BY <1>0, <1>1, <2>0, <2>2, <4>2 DEF LocalsSound
      <4>. QED  BY <4>1, <4>2
    <3>. QED  BY <1>1, <2>0, <3>1
  <2>. QED  BY <1>4, <2>1, <2>2
<1>5. ASSUME NEW u \in Thread, th'[u].pc \in {"call", "store_version"}
      PROVE  th'[u].ver = Last(Version(th[u].idx))'
  <2>0. PICK s \in Slot : s = th'[u].idx  BY <1>1 DEF ThreadState
  <2>. SUFFICES th'[u].ver = Last(Version(s))'  BY <2>0
  <2>1. CASE u # t
    <3>1. th[u].pc \in {"call", "store_version"} /\ th[u].idx = s /\ th'[u].ver = th[u].ver
      BY <1>1, <1>5, <2>0, <2>1
    <3>2. ~Occupied(s) /\ ~Owns(t, s)
      BY <1>0, <2>1, <3>1 DEF OwnersAlone, Owns, OwnerPC
    <3>3. th[u].ver = Last(Version(s))  BY <1>0, <3>1 DEF LocalsSound
    <3>. QED  BY <1>0, <3>1, <3>2, <3>3, Touches DEF VersionsKept
  <2>2. CASE u = t /\ LoadVersion(t)
    <3>1. /\ mem' = mem /\ At(t, "load_version") /\ th[t].idx = s
          /\ \E i \in 1 .. Last(Version(s)) :
               /\ view[t][Version(s)] <= i
               /\ th'[t].ver = IF (i - 1) % 2 = 0 THEN i ELSE i - 1
      BY <1>0, <2>0, <2>2, LoadVersionMoves
    <3>2. Owns(t, s)  BY <3>1 DEF Owns, OwnerPC, At
    <3>3. view[t][Version(s)] = Last(Version(s)) /\ ~Occupied(s)
      BY <1>0, <3>1, <3>2 DEF OwnersSee, OwnersAlone, Full, At
    <3>4. Last(Version(s)) \in Nat /\ Last(Version(s)) % 2 = 1
      BY <1>0, <3>3, Occupancy
    <3>5. (Last(Version(s)) - 1) % 2 = 0  BY <3>4
    <3>6. th'[t].ver = Last(Version(s))
      <4>1. PICK i \in 1 .. Last(Version(s)) :
              /\ Last(Version(s)) <= i
              /\ th'[t].ver = IF (i - 1) % 2 = 0 THEN i ELSE i - 1
        BY <3>1, <3>3
      <4>2. i = Last(Version(s))  BY <3>4, <4>1
      <4>. QED  BY <3>5, <4>1, <4>2
    <3>. QED  BY <2>2, <3>1, <3>6, NothingWritten DEF VersionsKept
  <2>3. CASE u = t /\ PushZeroed(t)
    <3>1. /\ th'[t].ver = 1 /\ s = len /\ (mem' = mem \/ Wrote(Chunk))
      BY <1>0, <2>0, <2>3, PushZeroedMoves
    <3>2. s >= len  BY <1>1, <3>1
    <3>3. Last(Version(s)) = 1  BY <1>0, <3>2 DEF Untouched
    <3>. QED  BY <2>3, <3>1, <3>3, NothingWritten, ChunkWritten DEF VersionsKept
  <2>4. CASE u = t /\ StoreRef(t)
    <3>1. /\ th[t].pc = "call" /\ th[t].idx = s /\ th'[t].ver = th[t].ver
          /\ Wrote(RefCount(s))
      BY <1>0, <2>0, <2>4, StoreRefMoves DEF At
    <3>2. th[t].ver = Last(Version(s))  BY <1>0, <3>1 DEF LocalsSound
    <3>. QED  BY <2>4, <3>1, <3>2, CountWritten DEF VersionsKept
  <2>. QED  BY <1>0, <1>5, <2>1, <2>2, <2>3, <2>4, NewCall
<1>6. ASSUME NEW u \in Thread, At(u, "store_version")'
      PROVE  data'[th'[u].idx].ver = th'[u].ver
  <2>0. PICK s \in Slot : s = th'[u].idx  BY <1>1 DEF ThreadState
  <2>1. CASE u # t
    <3>1. th[u].pc = "store_version" /\ th[u].idx = s /\ th'[u].ver = th[u].ver
      BY <1>1, <1>6, <2>0, <2>1 DEF At
    <3>2. ~Owns(t, s)
      BY <1>0, <2>1, <3>1 DEF OwnersAlone, Owns, OwnerPC
    <3>3. data[s].ver = th[u].ver  BY <1>0, <3>1 DEF LocalsSound, At
    <3>. QED  BY <1>0, <2>0, <3>1, <3>2, <3>3, Touches
  <2>2. CASE u = t
    <3>1. StoreRef(t)
      <4>1. th'[t].pc \in {"call", "store_version"}  BY <1>6, <2>2 DEF At
      <4>2. ~LoadVersion(t)  BY <1>0, <1>6, <2>2, LoadVersionMoves DEF At
      <4>3. ~PushZeroed(t)  BY <1>0, <1>6, <2>2, PushZeroedMoves DEF At
      <4>. QED  BY <1>0, <4>1, <4>2, <4>3, NewCall
    <3>2. data'[s].ver = th[t].ver /\ th'[t].ver = th[t].ver
      BY <1>0, <2>0, <2>2, <3>1, StoreRefMoves
    <3>. QED  BY <2>0, <2>2, <3>2
  <2>. QED  BY <2>1, <2>2
<1>7. ASSUME NEW u \in Thread, At(u, "check")'
      PROVE  th'[u].ver % 2 = 1 /\ th'[u].out # None
  <2>1. CASE th'[u] = th[u]  BY <1>0, <1>7, <2>1 DEF LocalsSound, At
  <2>2. CASE th'[u] # th[u]
    <3>1. u = t  BY <1>1, <2>2
    <3>2. th'[t].ver \in Asked /\ th'[t].out # None
      BY <1>0, <1>7, <2>2, <3>1, NewRef DEF At
    <3>. QED  BY <3>1, <3>2, AskedAssumption
  <2>. QED  BY <2>1, <2>2
<1>8. ASSUME NEW u \in Thread, th'[u].out # None
      PROVE  guard'[th'[u].out] = None
  <2>0. th'[u].out \in Guard  BY <1>1, <1>8 DEF ThreadState
  <2>1. CASE th'[u].out = th[u].out
    <3>0. PICK g \in Guard : g = th[u].out  BY <2>0, <2>1
    <3>1. guard[g] = None /\ \A x \in Thread \ {u} : th[x].out # g
      BY <1>0, <1>8, <2>1, <3>0 DEF LocalsSound
    <3>2. ~(g = th[t].out /\ th'[t].out = None)
      BY <1>8, <2>1, <3>0, <3>1
    <3>3. ~Unused(g)  BY <3>0 DEF Unused
    <3>4. guard'[g] = None  BY <1>0, <3>1, <3>2, <3>3, GuardMoves
    <3>. QED  BY <2>1, <3>0, <3>4
  <2>2. CASE th'[u].out # th[u].out
    <3>1. u = t  BY <1>1, <2>2
    <3>. QED  BY <1>0, <1>8, <2>0, <2>2, <3>1, OutMoves DEF Unused
  <2>. QED  BY <2>1, <2>2
<1>9. ASSUME NEW u \in Thread, th'[u].out # None, NEW x \in Thread \ {u}
      PROVE  th'[x].out # th'[u].out
  <2>1. ASSUME NEW y \in Thread, th'[y].out # None
        PROVE  th'[y].out = th[y].out \/ (y = t /\ Unused(th'[y].out))
    <3>1. CASE y = t  BY <1>0, <2>1, <3>1, OutMoves
    <3>2. CASE y # t  BY <1>1, <3>2
    <3>. QED  BY <3>1, <3>2
  <2>2. CASE th'[u].out = th[u].out /\ th'[x].out = th[x].out
    BY <1>0, <1>9, <2>2 DEF LocalsSound
  <2>3. CASE u = t /\ Unused(th'[u].out)
    BY <1>1, <1>9, <2>3 DEF Unused
  <2>4. CASE x = t /\ Unused(th'[x].out)
    BY <1>1, <1>9, <2>4 DEF Unused
  <2>. QED  BY <1>9, <2>1, <2>2, <2>3, <2>4
<1>10. ASSUME NEW g \in Guard, guard'[g] # None  PROVE guard'[g].idx < len'
  <2>1. ASSUME guard'[g].idx < len  PROVE guard'[g].idx < len'
    <3>1. guard'[g] \in GuardState  BY <1>0, <1>10, GuardStepType
    <3>. QED  BY <1>1, <2>1, <3>1 DEF GuardState
  <2>2. guard'[g].idx < len
    BY <1>0, <1>10, GuardMoves DEF LocalsSound, At
  <2>. QED  BY <2>1, <2>2
<1>. QED  BY <1>4, <1>5, <1>6, <1>7, <1>8, <1>9, <1>10 DEF LocalsSound

----------------------------------------------------------------------------
(* The heads that are kept *)

\* The head changes by an exchange, which gives it a tag of its own.
LEMMA HeadGrows ==
  ASSUME Memory, Locals, HeadsRead, RefsExact, LocalsSound, NEW t \in Thread, Turn(t)
  PROVE  /\ Last(FreeHead) \in Nat /\ Last(FreeHead)' \in Nat
         /\ Last(FreeHead) <= Last(FreeHead)'
         /\ \A i \in 1 .. Last(FreeHead) : mem'[FreeHead][i] = mem[FreeHead][i]
         /\ \/ ListHead' = ListHead /\ LastView(FreeHead)' = LastView(FreeHead)
            \/ (PopSwap(t) \/ PushSwap(t)) /\ ListHead'.tag = Last(FreeHead)
<1>1. Last(FreeHead) \in Nat /\ ListHead.tag = Last(FreeHead) - 1
  BY Lasts, Values, Words, IdleState
<1>2. CASE PopSwap(t) \/ PushSwap(t)
  <2>1. \E n : Latest(FreeHead)' = [tag |-> ListHead.tag + 1, idx |-> n]
    BY <1>2, PopSwapMoves, PushSwapMoves
  <2>2. ListHead'.tag = Last(FreeHead)  BY <1>1, <2>1 DEF ListHead
  <2>3. Wrote(FreeHead)  BY <1>2, PopSwapMoves, PushSwapMoves
  <2>. QED  BY <1>1, <1>2, <2>2, <2>3 DEF Wrote, Last
<1>3. CASE ~PopSwap(t) /\ ~PushSwap(t)
  <2>1. mem'[FreeHead] = mem[FreeHead]
    <3>1. CASE mem' = mem  BY <3>1
    <3>2. CASE PushZeroed(t)  BY <3>2, PushZeroedMoves, Words DEF Wrote
    <3>3. CASE StoreRef(t)  BY <3>3, StoreRefMoves, Words DEF Wrote
    <3>4. CASE StoreVersion(t)  BY <3>4, StoreVersionMoves, Words DEF Wrote
    <3>5. CASE \E s \in Slot, ver \in Asked, g \in Guard : AcquireGuard(t, s, ver, g)
      BY <3>5, AcquireMoves, Words DEF Wrote
    <3>6. CASE Release(t)  BY <3>6, ReleaseMoves, Words DEF Wrote
    <3>7. CASE \E g, h \in Guard : CloneGuard(t, g, h)
      BY <3>7, CloneMoves, Words DEF Wrote
    <3>8. CASE \E s \in Slot : Remove(t, s)  BY <3>8, RemoveMoves, Words DEF Wrote
    <3>9. CASE PushStoreNext(t)  BY <3>9, PushStoreNextMoves, Words DEF Wrote
    <3>. QED
      BY <1>3, <3>1, <3>2, <3>3, <3>4, <3>5, <3>6, <3>7, <3>8, <3>9, QuietMoves
      DEF Turn, CheckVersion, SendGuard
  <2>2. HeadKept  BY <2>1, Kept
  <2>. QED  BY <1>1, <2>2 DEF HeadKept
<1>. QED  BY <1>2, <1>3

\* Where a head that is kept comes from.
LEMMA NewHead ==
  ASSUME Memory, Locals, HeadsRead, RefsExact, LocalsSound, NEW t \in Thread, Turn(t),
         th'[t].pc \in {"pop_next", "pop_swap", "push_next", "push_swap"}
  PROVE  \/ /\ mem' = mem /\ th'[t].pc \in {"pop_next", "push_next"}
            /\ \E i \in 1 .. Last(FreeHead) :
                 /\ th'[t].head = mem[FreeHead][i].val
                 /\ th'[t].pc = "pop_next" =>
                      th'[t].head.idx # SENTINEL /\ Below(mem[FreeHead][i].view, view'[t])
         \/ PopReadNext(t) /\ th'[t].pc = "pop_swap"
         \/ PushStoreNext(t) /\ th'[t].pc = "push_swap"
<1>1. CASE BeginInsert(t) \/ PopRetry(t)
  <2>1. PopFrom(t, PopLoad) /\ mem' = mem  BY <1>1 DEF BeginInsert, PopRetry
  <2>. QED  BY <2>1, PopFromMoves DEF At
<1>2. CASE PopReadNext(t)  BY <1>2, PopReadNextMoves DEF At
<1>3. CASE DropValue(t)  BY <1>3, DropValueMoves DEF At
<1>4. CASE CallErr(t) \/ PushRetry(t)
  <2>1. PICK s \in Slot : s = th[t].idx  BY DEF Locals, ThreadState
  <2>2. Bounded(view[t]) /\ Below(view[t], view[t])
    BY DEF Locals, Bounded, View, Below
  <2>3. PushOnto(t, view[t], s) /\ mem' = mem  BY <1>4, <2>1 DEF CallErr, PushRetry
  <2>. QED  BY <2>2, <2>3, PushOntoMoves DEF At
<1>5. CASE LoadVersion(t)  BY <1>5, LoadVersionMoves DEF At
<1>6. CASE PopSwap(t)  BY <1>6, PopSwapMoves DEF At
<1>7. CASE PushZeroed(t)  BY <1>7, PushZeroedMoves DEF At
<1>8. CASE StoreRef(t)  BY <1>8, StoreRefMoves DEF At
<1>9. CASE StoreVersion(t)  BY <1>9, StoreVersionMoves, IdleState
<1>10. CASE \E r \in Slot, ver \in Asked, g \in Guard : AcquireGuard(t, r, ver, g)
  BY <1>10, AcquireMoves DEF At
<1>11. CASE CheckVersion(t)  BY <1>11, CheckMoves DEF At
<1>12. CASE Release(t)  BY <1>12, ReleaseMoves DEF At
<1>13. CASE (\E g, h \in Guard : CloneGuard(t, g, h)) \/ \E g \in Guard : SendGuard(g, t)
  BY <1>13 DEF CloneGuard, SendGuard, At
<1>14. CASE \E r \in Slot : Remove(t, r)  BY <1>14, RemoveMoves DEF At
<1>15. CASE PushStoreNext(t)  BY <1>15, PushStoreNextMoves DEF At
<1>16. CASE PushSwap(t)  BY <1>16, PushSwapMoves, IdleState
<1>. QED
  BY <1>1, <1>2, <1>3, <1>4, <1>5, <1>6, <1>7, <1>8, <1>9, <1>10, <1>11, <1>12, <1>13, <1>14,
     <1>15, <1>16 DEF Turn, Quiet

\* A head that was read before the step and is the head after it was not
\* exchanged in between, and its slot was left alone.
LEMMA HeadStill ==
  ASSUME Memory, Locals, HeadsRead, RefsExact, ListSound, LocalsSound,
         NEW t \in Thread, Turn(t), NEW h \in TaggedIndex,
         h.tag < Last(FreeHead), h.idx # SENTINEL, ListHead' = h
  PROVE  ListHead = h /\ h.idx \in Slot /\ LinksKept({h.idx})
<1>1. ListHead = h
  <2>1. h.tag \in Nat  BY DEF TaggedIndex
  <2>. QED  BY <2>1, HeadGrows
<1>2. h.idx \in Slot  BY DEF TaggedIndex
<1>3. Free(h.idx)  BY <1>1 DEF ListSound
<1>4. ~Owns(t, h.idx)  BY <1>3 DEF Free
<1>. QED  BY <1>1, <1>2, <1>4, Touches

LEMMA HeadsReadStep ==
  ASSUME OrderInv, NEW t \in Thread, Turn(t)
  PROVE  HeadsRead'
<1>0. /\ Memory /\ Locals /\ HeadsRead /\ RefsExact /\ OwnersAlone /\ ListSound /\ LocalsSound
      /\ HeadSees
  BY DEF OrderInv
<1>1. /\ \A u \in Thread \ {t} : th'[u] = th[u] /\ view'[u] = view[u]
      /\ th \in [Thread -> ThreadState] /\ th' \in [Thread -> ThreadState]
      /\ \A u \in Thread : th[u].head \in TaggedIndex /\ th'[u].head \in TaggedIndex
      /\ \A h \in TaggedIndex : h.tag \in Nat
  BY <1>0, Alone DEF Locals, Advances, ThreadState, TaggedIndex
<1>2. ASSUME NEW h \in TaggedIndex, h.tag < Last(FreeHead), mem[FreeHead][h.tag + 1].val = h
      PROVE  h.tag < Last(FreeHead)' /\ mem'[FreeHead][h.tag + 1].val = h
  <2>1. h.tag \in Nat  BY <1>1
  <2>2. /\ Last(FreeHead) \in Nat /\ Last(FreeHead)' \in Nat
        /\ Last(FreeHead) <= Last(FreeHead)'
        /\ \A i \in 1 .. Last(FreeHead) : mem'[FreeHead][i] = mem[FreeHead][i]
    BY <1>0, HeadGrows
  <2>3. h.tag + 1 \in 1 .. Last(FreeHead)  BY <1>2, <2>1, <2>2
  <2>. QED  BY <1>2, <2>1, <2>2, <2>3
<1>3. ASSUME NEW i \in 1 .. Last(FreeHead)
      PROVE  LET h == mem[FreeHead][i].val
             IN  h.tag = i - 1 /\ h.tag < Last(FreeHead) /\ mem[FreeHead][h.tag + 1].val = h
  <2>1. mem[FreeHead][i].val.tag = i - 1  BY <1>0 DEF Memory
  <2>2. Last(FreeHead) \in Nat  BY <1>0, HeadGrows
  <2>3. i - 1 < Last(FreeHead) /\ (i - 1) + 1 = i  BY <2>2
  <2>. QED  BY <2>1, <2>3
<1>4. ASSUME NEW u \in Thread, th'[u].pc \in {"pop_next", "pop_swap", "push_next", "push_swap"}
      PROVE  /\ th'[u].head.tag < Last(FreeHead)'
             /\ mem'[FreeHead][th'[u].head.tag + 1].val = th'[u].head
             /\ th'[u].pc \in {"pop_next", "pop_swap"} => th'[u].head.idx # SENTINEL
  <2>. DEFINE h == th'[u].head
  <2>1. /\ h.tag < Last(FreeHead) /\ mem[FreeHead][h.tag + 1].val = h
        /\ th'[u].pc \in {"pop_next", "pop_swap"} => h.idx # SENTINEL
    <3>1. CASE u # t  BY <1>0, <1>1, <1>4, <3>1 DEF HeadsRead
    <3>2. CASE u = t /\ \E i \in 1 .. Last(FreeHead) :
                 /\ th'[t].head = mem[FreeHead][i].val
                 /\ th'[t].pc \in {"pop_next", "push_next"}
                 /\ th'[t].pc = "pop_next" => th'[t].head.idx # SENTINEL
      BY <1>3, <3>2
    <3>3. CASE u = t /\ PopReadNext(t)
      BY <1>0, <1>4, <3>3, PopReadNextMoves DEF HeadsRead, At
    <3>4. CASE u = t /\ PushStoreNext(t)
      BY <1>0, <1>4, <3>4, PushStoreNextMoves DEF HeadsRead, At
    <3>. QED  BY <1>0, <1>4, <3>1, <3>2, <3>3, <3>4, NewHead
  <2>2. h \in TaggedIndex  BY <1>1
  <2>. HIDE DEF h
  <2>3. h.tag < Last(FreeHead)' /\ mem'[FreeHead][h.tag + 1].val = h  BY <1>2, <2>1, <2>2
  <2>. QED  BY <2>1, <2>3 DEF h
<1>5. ASSUME NEW u \in Thread, At(u, "pop_next")', ListHead' = th'[u].head
      PROVE  view'[u][NextFree(th'[u].head.idx)] = Last(NextFree(th[u].head.idx))'
  <2>1. CASE u # t
    <3>. DEFINE h == th[u].head
    <3>1. /\ At(u, "pop_next") /\ th'[u].head = h /\ view'[u] = view[u] /\ ListHead' = h
          /\ h \in TaggedIndex
      BY <1>1, <1>5, <2>1 DEF At
    <3>2. h.tag < Last(FreeHead) /\ h.idx # SENTINEL
          /\ (ListHead = h => view[u][NextFree(h.idx)] = Last(NextFree(h.idx)))
      BY <1>0, <3>1 DEF HeadsRead, At
    <3>. HIDE DEF h
    <3>3. ListHead = h /\ h.idx \in Slot /\ LinksKept({h.idx})
      BY <1>0, <3>1, <3>2, HeadStill
    <3>. QED  BY <3>1, <3>2, <3>3 DEF LinksKept
  <2>2. CASE u = t
    <3>1. PICK i \in 1 .. Last(FreeHead) :
            /\ mem' = mem /\ th'[t].head = mem[FreeHead][i].val
            /\ th'[t].head.idx # SENTINEL /\ Below(mem[FreeHead][i].view, view'[t])
      BY <1>0, <1>5, <2>2, NewHead DEF At
    <3>2. ListHead = mem[FreeHead][i].val  BY <1>5, <2>2, <3>1, NothingWritten DEF HeadKept
    <3>3. i = Last(FreeHead)
      <4>1. ListHead.tag = Last(FreeHead) - 1 /\ Last(FreeHead) \in Nat
        BY <1>0, Values, HeadGrows, IdleState
      <4>2. ListHead.tag = i - 1  BY <1>3, <3>2
      <4>. QED  BY <4>1, <4>2
    <3>4. PICK s \in Slot : s = th'[t].head.idx
      BY <1>1, <3>1 DEF TaggedIndex
    <3>5. Free(s)  BY <1>0, <3>1, <3>2, <3>4, IdleState DEF ListSound
    <3>6. LastView(FreeHead)[NextFree(s)] = Last(NextFree(s))
      BY <1>0, <3>5 DEF HeadSees, Full
    <3>7. /\ Below(LastView(FreeHead), view'[t]) /\ BoundedNext(view'[t])
          /\ Last(NextFree(s)) \in Nat /\ Len(mem'[NextFree(s)]) = Last(NextFree(s))
      BY <1>0, <3>1, <3>3, Alone, Lasts, Words DEF LastView, Advances, Last
    <3>8. /\ LastView(FreeHead)[NextFree(s)] <= view'[t][NextFree(s)]
          /\ view'[t][NextFree(s)] <= Last(NextFree(s)) /\ view'[t][NextFree(s)] \in Nat
      BY <3>7, Words DEF Below, Known, BoundedNext, View
    <3>9. view'[t][NextFree(s)] = Last(NextFree(s))'  BY <3>6, <3>7, <3>8 DEF Last
    <3>. QED  BY <2>2, <3>4, <3>9
  <2>. QED  BY <2>1, <2>2
<1>6. ASSUME NEW u \in Thread, At(u, "push_swap")'
      PROVE  Linked(th[u].idx)' = th'[u].head.idx
  <2>0. PICK s \in Slot : s = th'[u].idx  BY <1>1 DEF ThreadState
  <2>1. CASE u # t
    <3>1. At(u, "push_swap") /\ th[u].idx = s /\ th'[u].head = th[u].head
      BY <1>1, <1>6, <2>0, <2>1 DEF At
    <3>2. ~Owns(t, s)
      BY <1>0, <2>1, <3>1 DEF OwnersAlone, Owns, OwnerPC, At
    <3>3. Linked(s) = th[u].head.idx  BY <1>0, <3>1 DEF HeadsRead
    <3>. QED  BY <1>0, <2>0, <3>1, <3>2, <3>3, Touches DEF LinksKept
  <2>2. CASE u = t
    <3>1. PushStoreNext(t)  BY <1>0, <1>6, <2>2, NewHead DEF At
    <3>2. Linked(s)' = th'[t].head.idx  BY <1>0, <2>0, <2>2, <3>1, PushStoreNextMoves
    <3>. QED  BY <2>0, <2>2, <3>2
  <2>. QED  BY <2>1, <2>2
<1>. QED  BY <1>4, <1>5, <1>6 DEF HeadsRead, At

LEMMA SuccessorStep ==
  ASSUME OrderInv, NEW t \in Thread, Turn(t)
  PROVE  SuccessorCurrent'
<1>0. /\ Memory /\ Locals /\ HeadsRead /\ RefsExact /\ OwnersAlone /\ ListSound /\ LocalsSound
      /\ SuccessorCurrent
  BY DEF OrderInv
<1>1. /\ \A u \in Thread \ {t} : th'[u] = th[u]
      /\ \A u \in Thread : th[u].head \in TaggedIndex
  BY <1>0, Alone DEF Locals, ThreadState
<1>2. ASSUME NEW u \in Thread, At(u, "pop_swap")', ListHead' = th'[u].head
      PROVE  th'[u].next = Linked(th[u].head.idx)'
  <2>1. CASE u # t
    <3>0. PICK h \in TaggedIndex : h = th[u].head  BY <1>1
    <3>1. /\ At(u, "pop_swap") /\ th'[u] = th[u] /\ ListHead' = h /\ h \in TaggedIndex
      BY <1>1, <1>2, <2>1, <3>0 DEF At
    <3>2. /\ h.tag < Last(FreeHead) /\ h.idx # SENTINEL
          /\ ListHead = h => th[u].next = Linked(h.idx)
      BY <1>0, <3>0, <3>1 DEF HeadsRead, SuccessorCurrent, At, ListHead, Linked
    <3>3. ListHead = h /\ h.idx \in Slot /\ LinksKept({h.idx})
      BY <1>0, <3>1, <3>2, HeadStill
    <3>4. Linked(h.idx)' = Linked(h.idx)  BY <3>3 DEF LinksKept
    <3>5. th'[u].next = Linked(h.idx) /\ th'[u].head = h  BY <3>0, <3>1, <3>2, <3>3
    <3>. QED  BY <3>4, <3>5
  <2>2. CASE u = t
    <3>1. PopReadNext(t)  BY <1>0, <1>2, <2>2, NewHead DEF At
    <3>2. PICK s \in Slot : s = th[t].head.idx  BY <1>0, <3>1, PopReadNextMoves
    <3>3. /\ mem' = mem /\ At(t, "pop_next") /\ th'[t].head = th[t].head
          /\ \E i \in 1 .. Last(NextFree(s)) :
               view[t][NextFree(s)] <= i /\ th'[t].next = mem[NextFree(s)][i].val
      BY <1>0, <3>1, <3>2, PopReadNextMoves
    <3>4. ListHead = th[t].head  BY <1>2, <2>2, <3>3, NothingWritten DEF HeadKept
    <3>5. view[t][NextFree(s)] = Last(NextFree(s)) /\ Last(NextFree(s)) \in Nat
      BY <1>0, <3>2, <3>3, <3>4, Lasts, Words DEF HeadsRead
    <3>6. PICK i \in 1 .. Last(NextFree(s)) :
            Last(NextFree(s)) <= i /\ th'[t].next = mem[NextFree(s)][i].val
      BY <3>3, <3>5
    <3>7. i = Last(NextFree(s))  BY <3>5, <3>6
    <3>8. th'[t].next = Linked(s)'  BY <3>3, <3>6, <3>7 DEF Linked, Latest, Last
    <3>9. s = th'[t].head.idx  BY <3>2, <3>3
    <3>. QED  BY <2>2, <3>8, <3>9
  <2>. QED  BY <2>1, <2>2
<1>. QED  BY <1>2 DEF SuccessorCurrent, At, ListHead, Linked

----------------------------------------------------------------------------
(* The content of the slots *)

\* A step adds one message at most to a word.
LEMMA OneMessage ==
  ASSUME Memory, Locals, HeadsRead, RefsExact, LocalsSound, NEW t \in Thread, Turn(t),
         NEW l \in Word
  PROVE  Last(l) \in Nat /\ (Last(l)' = Last(l) \/ Last(l)' = Last(l) + 1)
<1>1. Last(l) \in Nat  BY Lasts
<1>2. mem' = mem \/ \E k \in Word : Wrote(k)  BY Alone
<1>. QED  BY <1>1, <1>2 DEF Wrote, Last

LEMMA ContentStep ==
  ASSUME OrderInv, NEW t \in Thread, Turn(t)
  PROVE  ContentCurrent'
<1>0. /\ Memory /\ Locals /\ HeadsRead /\ RefsExact /\ OwnersAlone /\ LocalsSound
      /\ ContentCurrent
  BY DEF OrderInv
<1>. SUFFICES ASSUME NEW s \in Slot, Refs(s)' > 0
              PROVE  /\ data'[s].ver % 2 = 1
                     /\ data'[s].ver <= Last(Version(s))'
                     /\ Last(Version(s))' <= data'[s].ver + 2
  BY DEF ContentCurrent
<1>1. /\ Last(Version(s)) \in Nat /\ data[s].ver \in Nat /\ Refs(s) \in Nat
      /\ Last(Version(s))' = Last(Version(s)) \/ Last(Version(s))' = Last(Version(s)) + 1
  BY <1>0, OneMessage, Words, Referenced DEF Locals
<1>2. ASSUME Refs(s) > 0, data'[s].ver = data[s].ver, ~Occupied(s) => VersionsKept({s})
      PROVE  /\ data'[s].ver % 2 = 1
             /\ data'[s].ver <= Last(Version(s))'
             /\ Last(Version(s))' <= data'[s].ver + 2
  <2>. DEFINE n == Last(Version(s))  m == Last(Version(s))'  v == data[s].ver
  <2>1. v % 2 = 1 /\ v <= n /\ n <= v + 2  BY <1>0, <1>2 DEF ContentCurrent
  <2>2. (n % 2 = 1 => m = n) /\ (m = n \/ m = n + 1)
    BY <1>0, <1>1, <1>2, Occupancy DEF VersionsKept
  <2>3. n \in Nat /\ v \in Nat  BY <1>1
  <2>. HIDE DEF n, m, v
  <2>4. m <= v + 2  BY <2>1, <2>2, <2>3
  <2>5. v <= m  BY <2>1, <2>2, <2>3
  <2>. QED  BY <1>2, <2>1, <2>4, <2>5 DEF n, m, v
<1>3. CASE ~Owns(t, s)
  <2>1. /\ ~Occupied(s) => VersionsKept({s}) /\ data'[s].ver = data[s].ver
        /\ Refs(s) = 0 => Refs(s)' = 0
        /\ data'[s].ver = data[s].ver
    BY <1>0, <1>3, Touches DEF CountsKept
  <2>2. Refs(s) > 0  BY <1>1, <2>1
  <2>. QED  BY <1>2, <2>1, <2>2
<1>4. CASE Owns(t, s)
  <2>0. /\ th[t].pc \in OwnerPC /\ th[t].idx = s /\ ~Occupied(s)
        /\ th[t].pc # "store_version" => Refs(s) = 0
    BY <1>0, <1>4 DEF Owns, OwnersAlone
  <2>1. CASE StoreRef(t)
    <3>1. /\ th[t].pc = "call" /\ Wrote(RefCount(s)) /\ data'[s].ver = th[t].ver
      BY <1>0, <2>0, <2>1, StoreRefMoves DEF At
    <3>2. Last(Version(s))' = Last(Version(s))  BY <3>1, CountWritten DEF VersionsKept
    <3>3. th[t].ver = Last(Version(s))  BY <1>0, <2>0, <3>1 DEF LocalsSound
    <3>4. Last(Version(s)) % 2 = 1  BY <1>0, <2>0, Occupancy
    <3>. QED  BY <1>1, <3>1, <3>2, <3>3, <3>4
  <2>2. CASE StoreVersion(t)
    <3>1. /\ Last(Version(s)) % 2 = 1 /\ data[s].ver = Last(Version(s))
      BY <1>0, <2>0, <2>2, Publishes
    <3>2. data' = data  BY <2>2 DEF StoreVersion
    <3>. QED  BY <1>1, <3>1, <3>2
  <2>3. CASE th[t].pc # "store_version" /\ ~StoreRef(t)
    <3>1. Refs(s) = 0  BY <2>0, <2>3
    <3>2. CASE Quiet(t)
      <4>1. mem' = mem  BY <1>0, <3>2, QuietMoves
      <4>. QED  BY <3>1, <4>1, NothingWritten DEF CountsKept
    <3>3. CASE PushSwap(t)
      <4>1. Wrote(FreeHead)  BY <1>0, <3>3, PushSwapMoves
      <4>. QED  BY <3>1, <4>1, HeadWritten DEF CountsKept
    <3>4. CASE PushStoreNext(t)
      <4>1. PICK r \in Slot : Wrote(NextFree(r))  BY <1>0, <3>4, PushStoreNextMoves
      <4>2. CountsKept(Slot)  BY <4>1, LinkWritten
      <4>. QED  BY <3>1, <4>2 DEF CountsKept
    <3>. QED
      BY <2>0, <2>3, <3>2, <3>3, <3>4
      DEF Turn, OwnerPC, At, PopSwap, PushZeroed, StoreVersion, AcquireGuard, CheckVersion,
          Release, GiveUp, DropGuard, CloneGuard, SendGuard, Remove
  <2>4. CASE th[t].pc = "store_version" /\ ~StoreVersion(t)
    BY <2>0, <2>4, QuietMoves, <1>0
    DEF Turn, At, PopSwap, PushZeroed, StoreRef, AcquireGuard, CheckVersion, RefPC,
        Release, GiveUp, DropGuard, CloneGuard, SendGuard, Remove, PushStoreNext, PushSwap
  <2>. QED  BY <2>1, <2>2, <2>3, <2>4 DEF StoreRef, At
<1>. QED  BY <1>3, <1>4

----------------------------------------------------------------------------
(* Who has seen what *)

FullNext(v, s) ==
  /\ v[RefCount(s)] = Last(RefCount(s))'
  /\ v[Version(s)] = Last(Version(s))'
  /\ v[NextFree(s)] = Last(NextFree(s))'
  /\ Knows(v, data'[s].used)

LEMMA FullNexts ==
  ASSUME NEW s \in Slot
  PROVE  /\ \A u \in Thread : Full(view[u], s)' <=> FullNext(view'[u], s)
         /\ Full(LastView(FreeHead), s)' <=> FullNext(NextView(FreeHead), s)
BY DEF Full, FullNext, LastView, NextView, Last, Knows, RefCount, Version, NextFree

\* A later view of a word that is kept knows all of it that an earlier one did.
LEMMA AllKnown ==
  ASSUME Memory, NEW l \in Word, Last(l)' = Last(l), NEW v, v[l] = Last(l),
         NEW w, Below(v, w), BoundedNext(w)
  PROVE  w[l] = Last(l)'
<1>1. Last(l) \in Nat /\ v[l] <= w[l] /\ w[l] <= Len(mem'[l]) /\ w[l] \in Nat
  BY Lasts DEF Below, BoundedNext, View, Known
<1>2. Len(mem'[l]) = Last(l)  BY DEF Last
<1>. QED  BY <1>1, <1>2

\* Nothing was written to slot s, or used but by those whom w knows.
LEMMA FullNow ==
  ASSUME Memory, Locals, NEW s \in Slot, CountsKept({s}), VersionsKept({s}), LinksKept({s}),
         NEW v, v \in View, Full(v, s), NEW w, Below(v, w), BoundedNext(w),
         \A u \in Thread : data'[s].used[u] = data[s].used[u] \/ data'[s].used[u] <= w[u]
  PROVE  FullNext(w, s)
<1>1. /\ Last(RefCount(s))' = Last(RefCount(s)) /\ Last(Version(s))' = Last(Version(s))
      /\ Last(NextFree(s))' = Last(NextFree(s))
  BY DEF CountsKept, VersionsKept, LinksKept
<1>2. /\ w[RefCount(s)] = Last(RefCount(s))' /\ w[Version(s)] = Last(Version(s))'
      /\ w[NextFree(s)] = Last(NextFree(s))'
  BY <1>1, AllKnown, Words DEF Full
<1>3. \A u \in Thread : data[s].used[u] <= v[u] /\ v[u] <= w[u]
                        /\ data[s].used[u] \in Nat /\ v[u] \in Nat /\ w[u] \in Nat
  BY DEF Full, Knows, Below, BoundedNext, Locals, Clock, View, Known
<1>4. Knows(w, data'[s].used)  BY <1>3 DEF Knows
<1>. QED  BY <1>2, <1>4 DEF FullNext

\* An owner that neither stores the reference nor the version leaves both.
LEMMA OwnerKeeps ==
  ASSUME Memory, Locals, HeadsRead, RefsExact, OwnersAlone, LocalsSound,
         NEW t \in Thread, Turn(t), NEW s \in Slot, Owns(t, s)
  PROVE  \/ StoreRef(t) /\ th[t].pc = "call" /\ Refs(s) = 0
         \/ StoreVersion(t) /\ th[t].pc = "store_version"
         \/ /\ Quiet(t) \/ PushStoreNext(t) \/ PushSwap(t)
            /\ th[t].pc # "store_version" /\ Refs(s) = 0
            /\ CountsKept({s}) /\ VersionsKept({s})
<1>0. /\ th[t].pc \in OwnerPC /\ th[t].idx = s
      /\ th[t].pc # "store_version" => Refs(s) = 0
  BY DEF Owns, OwnersAlone
<1>1. CASE StoreRef(t)  BY <1>0, <1>1 DEF StoreRef, At
<1>2. CASE StoreVersion(t)  BY <1>0, <1>2 DEF StoreVersion, At
<1>3. CASE Quiet(t)
  <2>1. mem' = mem /\ th[t].pc # "store_version"  BY <1>3, QuietMoves DEF RefPC
  <2>2. CountsKept(Slot) /\ VersionsKept(Slot)  BY <2>1, NothingWritten
  <2>. QED  BY <1>0, <1>3, <2>1, <2>2 DEF CountsKept, VersionsKept
<1>4. CASE PushSwap(t)
  <2>1. Wrote(FreeHead) /\ th[t].pc # "store_version"  BY <1>4, PushSwapMoves DEF At
  <2>2. CountsKept(Slot) /\ VersionsKept(Slot)  BY <2>1, HeadWritten
  <2>. QED  BY <1>0, <1>4, <2>1, <2>2 DEF CountsKept, VersionsKept
<1>5. CASE PushStoreNext(t)
  <2>1. PICK r \in Slot : Wrote(NextFree(r)) /\ th[t].pc # "store_version"
    BY <1>5, PushStoreNextMoves DEF At
  <2>2. CountsKept(Slot) /\ VersionsKept(Slot)  BY <2>1, LinkWritten
  <2>. QED  BY <1>0, <1>5, <2>1, <2>2 DEF CountsKept, VersionsKept
<1>. QED
  BY <1>0, <1>1, <1>2, <1>3, <1>4, <1>5
  DEF Turn, OwnerPC, At, PopSwap, PushZeroed, AcquireGuard, CheckVersion,
      Release, GiveUp, DropGuard, CloneGuard, SendGuard, Remove

LEMMA HeadSeesStep ==
  ASSUME OrderInv, NEW t \in Thread, Turn(t)
  PROVE  HeadSees'
<1>0. /\ Memory /\ Locals /\ HeadsRead /\ RefsExact /\ OwnersAlone /\ ListSound /\ LocalsSound
      /\ OwnersSee /\ HeadSees
  BY DEF OrderInv
<1>. SUFFICES ASSUME NEW s \in Slot, Free(s)'  PROVE FullNext(NextView(FreeHead), s)
  BY FullNexts DEF HeadSees
<1>1. CASE Free(s)
  <2>1. ~Owns(t, s) /\ ~Occupied(s) /\ Refs(s) = 0  BY <1>1 DEF Free
  <2>2. CountsKept({s}) /\ VersionsKept({s}) /\ LinksKept({s}) /\ data'[s] = data[s]
    BY <1>0, <2>1, Touches
  <2>3. Full(LastView(FreeHead), s) /\ LastView(FreeHead) \in View
    BY <1>0, <1>1, Lasts, Words DEF HeadSees
  <2>4. Below(LastView(FreeHead), NextView(FreeHead)) /\ BoundedNext(NextView(FreeHead))
    <3>1. CASE PopSwap(t) \/ PushSwap(t)  BY <1>0, <3>1, PopSwapMoves, PushSwapMoves
    <3>2. CASE ~PopSwap(t) /\ ~PushSwap(t)
      <4>1. NextView(FreeHead) = LastView(FreeHead)
        BY <1>0, <3>2, HeadGrows DEF NextView, LastView, Last
      <4>2. Bounded(LastView(FreeHead))  BY <1>0, Lasts, Words
      <4>3. BoundedNext(LastView(FreeHead))  BY <1>0, <4>2, Alone, Remain
      <4>. QED  BY <2>3, <4>1, <4>3 DEF Below, View
    <3>. QED  BY <3>1, <3>2
  <2>. QED  BY <1>0, <2>2, <2>3, <2>4, FullNow
<1>2. CASE ~Free(s)
  <2>1. PushSwap(t) /\ th[t].idx = s  BY <1>0, <1>2, NewFree
  <2>2. /\ th[t].pc = "push_swap" /\ Wrote(FreeHead)
        /\ BoundedNext(NextView(FreeHead)) /\ Below(view[t], NextView(FreeHead))
    BY <1>0, <2>1, PushSwapMoves DEF At
  <2>3. Owns(t, s)  BY <2>1, <2>2 DEF Owns, OwnerPC
  <2>4. Full(view[t], s) /\ view[t] \in View  BY <1>0, <2>2, <2>3 DEF OwnersSee, At, Locals
  <2>5. CountsKept(Slot) /\ VersionsKept(Slot) /\ LinksKept(Slot)  BY <2>2, HeadWritten
  <2>6. data' = data  BY <2>1 DEF PushSwap
  <2>7. CountsKept({s}) /\ VersionsKept({s}) /\ LinksKept({s})
    BY <2>5 DEF CountsKept, VersionsKept, LinksKept
  <2>. QED  BY <1>0, <2>2, <2>4, <2>6, <2>7, FullNow
<1>. QED  BY <1>1, <1>2

LEMMA OwnersSeeStep ==
  ASSUME OrderInv, NEW t \in Thread, Turn(t)
  PROVE  OwnersSee'
<1>0. /\ Memory /\ Locals /\ HeadsRead /\ RefsExact /\ OwnersAlone /\ ListSound /\ Untouched
      /\ LocalsSound /\ OwnersSee /\ HeadSees /\ CountsSee
  BY DEF OrderInv
<1>1. /\ Advances(t, view[t]) /\ BoundedNext(view'[t]) /\ Below(view[t], view'[t])
      /\ \A u \in Thread \ {t} : th'[u] = th[u] /\ view'[u] = view[u]
      /\ view[t] \in View
  BY <1>0, Alone DEF Advances, Locals
<1>. SUFFICES ASSUME NEW u \in Thread, NEW s \in Slot, WillOwn(u, s)
              PROVE  IF th'[u].pc = "store_version"
                     THEN view'[u][Version(s)] = Last(Version(s))'
                     ELSE FullNext(view'[u], s)
  BY FullNexts, WillOwns DEF OwnersSee, At
<1>2. CASE u # t
  <2>1. Owns(u, s) /\ th'[u] = th[u] /\ view'[u] = view[u]  BY <1>1, <1>2 DEF WillOwn, Owns
  <2>2. /\ ~Owns(t, s) /\ ~Occupied(s) /\ (th[u].pc # "store_version" => Refs(s) = 0)
    BY <1>0, <1>2, <2>1 DEF OwnersAlone
  <2>3. /\ VersionsKept({s}) /\ LinksKept({s})
        /\ th[u].pc # "store_version" => CountsKept({s}) /\ data'[s] = data[s]
    BY <1>0, <2>2, Touches
  <2>. QED
    BY <1>0, <2>1, <2>3 DEF OwnersSee, At, Full, FullNext, CountsKept, VersionsKept, LinksKept
<1>3. CASE u = t /\ Owns(t, s)
  <2>0. th[t].idx = s  BY <1>3 DEF Owns
  <2>1. CASE Quiet(t) \/ PushSwap(t)
    <3>1. /\ th[t].pc # "store_version" /\ th'[t].pc # "store_version"
          /\ \A x \in Thread : data'[s].used[x] = data[s].used[x]
                               \/ data'[s].used[x] <= view'[t][x]
          /\ CountsKept({s}) /\ VersionsKept({s}) /\ LinksKept({s})
      <4>1. CASE Quiet(t)
        <5>1. mem' = mem  BY <1>0, <4>1, QuietMoves
        <5>2. /\ th[t].pc # "store_version" /\ th'[t].pc # "store_version"
              /\ \A x \in Thread : data'[s].used[x] = data[s].used[x]
                                   \/ data'[s].used[x] <= view'[t][x]
          BY <1>0, <4>1, QuietMoves DEF RefPC
        <5>. QED  BY <5>1, <5>2, NothingWritten DEF CountsKept, VersionsKept, LinksKept
      <4>2. CASE PushSwap(t)
        <5>1. th'[t].pc = "idle"  BY <1>0, <4>2, PushSwapMoves, IdleState
        <5>. QED  BY <1>3, <5>1 DEF WillOwn, OwnerPC
      <4>. QED  BY <2>1, <4>1, <4>2
    <3>2. Full(view[t], s)  BY <1>0, <1>3, <3>1 DEF OwnersSee, At
    <3>. QED  BY <1>0, <1>1, <1>3, <3>1, <3>2, FullNow
  <2>2. CASE StoreRef(t)
    <3>1. /\ th[t].pc = "call" /\ Wrote(RefCount(s)) /\ th'[t].pc = "store_version"
          /\ view'[t][Version(s)] = view[t][Version(s)]
      BY <1>0, <2>0, <2>2, StoreRefMoves, Words DEF At
    <3>2. view[t][Version(s)] = Last(Version(s))
      BY <1>0, <1>3, <3>1 DEF OwnersSee, At, Full
    <3>. QED  BY <1>3, <3>1, <3>2, CountWritten DEF VersionsKept
  <2>3. CASE PushStoreNext(t)
    <3>1. /\ th[t].pc = "push_next" /\ Wrote(NextFree(s)) /\ th'[t].pc = "push_swap"
          /\ Last(NextFree(s))' = Last(NextFree(s)) + 1
          /\ view'[t][NextFree(s)] = Last(NextFree(s)) + 1
          /\ view'[t][Version(s)] = view[t][Version(s)]
          /\ view'[t][RefCount(s)] = view[t][RefCount(s)]
      BY <1>0, <2>0, <2>3, PushStoreNextMoves, Words DEF At
    <3>2. Full(view[t], s)
      BY <1>0, <1>3, <3>1 DEF OwnersSee, At
    <3>3. data' = data  BY <2>3 DEF PushStoreNext
    <3>4. CountsKept(Slot) /\ VersionsKept(Slot)  BY <3>1, LinkWritten
    <3>5. Knows(view'[t], data[s].used)
      <4>1. data[s].used \in Clock /\ view'[t] \in View  BY <1>0, <1>1 DEF Locals, BoundedNext
      <4>. QED  BY <1>1, <3>2, <4>1, Later DEF Full
    <3>. QED
      BY <1>3, <3>1, <3>2, <3>3, <3>4, <3>5 DEF Full, FullNext, CountsKept, VersionsKept
  <2>4. CASE StoreVersion(t)
    <3>1. th'[t].pc = "idle"  BY <1>0, <2>4, StoreVersionMoves, IdleState
    <3>. QED  BY <1>3, <3>1 DEF WillOwn, OwnerPC
  <2>. QED  BY <1>0, <1>3, <2>1, <2>2, <2>3, <2>4, OwnerKeeps
<1>4. CASE u = t /\ PopSwap(t) /\ ListHead.idx = s
  <2>1. /\ Wrote(FreeHead) /\ th'[t].pc = "load_version" /\ Below(LastView(FreeHead), view'[t])
    BY <1>0, <1>4, PopSwapMoves DEF At
  <2>2. Free(s)  BY <1>0, <1>4, IdleState DEF ListSound
  <2>3. Full(LastView(FreeHead), s) /\ LastView(FreeHead) \in View
    BY <1>0, <2>2, Lasts, Words DEF HeadSees
  <2>4. CountsKept(Slot) /\ VersionsKept(Slot) /\ LinksKept(Slot)  BY <2>1, HeadWritten
  <2>5. data' = data  BY <1>4 DEF PopSwap
  <2>6. CountsKept({s}) /\ VersionsKept({s}) /\ LinksKept({s})
    BY <2>4 DEF CountsKept, VersionsKept, LinksKept
  <2>7. FullNext(view'[t], s)  BY <1>0, <1>1, <2>1, <2>3, <2>5, <2>6, FullNow
  <2>. QED  BY <1>4, <2>1, <2>7
<1>5. CASE u = t /\ PushZeroed(t) /\ s = len
  <2>1. (mem' = mem \/ Wrote(Chunk)) /\ th'[t].pc = "call"
    BY <1>0, <1>5, PushZeroedMoves DEF At
  <2>2. /\ Last(Version(s)) = 1 /\ Last(RefCount(s)) = 1 /\ Last(NextFree(s)) = 1
        /\ data[s].used = NoClock
    <3>1. s >= len  BY <1>5 DEF Slot
    <3>. QED  BY <1>0, <3>1 DEF Untouched
  <2>3. CountsKept(Slot) /\ VersionsKept(Slot) /\ LinksKept(Slot)
    BY <2>1, NothingWritten, ChunkWritten
  <2>4. /\ Last(Version(s))' = 1 /\ Last(RefCount(s))' = 1 /\ Last(NextFree(s))' = 1
    BY <2>2, <2>3 DEF CountsKept, VersionsKept, LinksKept
  <2>5. data'[s].used = NoClock  BY <1>5, <2>2 DEF PushZeroed
  <2>6. /\ \A l \in Word : view'[t][l] \in Nat /\ 1 <= view'[t][l] /\ view'[t][l] <= Last(l)'
        /\ \A x \in Thread : view'[t][x] \in Nat
    BY <1>1 DEF BoundedNext, View, Known, Last
  <2>7. /\ view'[t][Version(s)] = 1 /\ view'[t][RefCount(s)] = 1 /\ view'[t][NextFree(s)] = 1
    BY <2>4, <2>6, Words
  <2>8. Knows(view'[t], data'[s].used)  BY <2>5, <2>6 DEF Knows, NoClock
  <2>. QED  BY <1>5, <2>1, <2>4, <2>7, <2>8 DEF FullNext
<1>6. CASE u = t /\ Release(t) /\ Refs(s) = 1
  <2>1. PICK r \in Slot :
          /\ \/ th[t].pc = "dec" /\ th[t].idx = r
             \/ \E g \in Guard : guard[g] # None /\ guard[g].idx = r
          /\ Wrote(RefCount(r)) /\ Last(RefCount(r))' = Last(RefCount(r)) + 1
          /\ view'[t][RefCount(r)] = Last(RefCount(r)) + 1
          /\ IF Refs(r) = 1
             THEN /\ th'[t].pc = "drop_value" /\ th'[t].idx = r
                  /\ Below(LastView(RefCount(r)), view'[t])
             ELSE th'[t].pc = "idle"
          /\ \/ data'[r].used[t] = data[r].used[t]
             \/ data'[r].used[t] <= view'[t][t]
          /\ \A x \in Thread \ {t} : data'[r].used[x] = data[r].used[x]
    BY <1>0, <1>6, ReleaseMoves DEF At
  <2>2. r = s /\ th'[t].pc = "drop_value"  BY <1>6, <2>1 DEF WillOwn, OwnerPC
  <2>. DEFINE v == LastView(RefCount(s))
  <2>3. v \in View /\ Below(v, view'[t])  BY <1>0, <2>1, <2>2, Lasts, Words DEF WillOwn
  <2>4. /\ v[NextFree(s)] = Last(NextFree(s)) /\ Knows(v, data[s].used)
        /\ \/ v[Version(s)] = Last(Version(s)) \/ Occupied(s) \/ Removal(s)
           \/ \E x \in Thread : At(x, "store_version") /\ th[x].idx = s
    BY <1>0, <1>6 DEF CountsSee
  <2>. HIDE DEF v
  <2>5. v[Version(s)] = Last(Version(s)) \/ view[t][Version(s)] = Last(Version(s))
    <3>1. CASE th[t].pc = "dec" /\ th[t].idx = s
      <4>1. /\ ~Occupied(s)
            /\ \A x \in Thread : th[x].pc \in RefPC /\ th[x].idx = s => x = t
        BY <1>0, <1>6, <3>1, Referenced DEF RefPC
      <4>. QED  BY <2>4, <3>1, <4>1 DEF Removal, RefPC, At
    <3>2. CASE \E g \in Guard : guard[g] # None /\ guard[g].idx = s
      <4>1. ~Occupied(s) /\ \A x \in Thread : th[x].pc \in RefPC => th[x].idx # s
        BY <1>0, <1>6, <3>2, Referenced
      <4>. QED  BY <2>4, <4>1 DEF Removal, RefPC, At
    <3>. QED  BY <2>1, <2>2, <3>1, <3>2
  <2>6. VersionsKept(Slot) /\ LinksKept(Slot)  BY <2>1, CountWritten
  <2>7. Last(Version(s))' = Last(Version(s)) /\ Last(NextFree(s))' = Last(NextFree(s))
    BY <2>6 DEF VersionsKept, LinksKept
  <2>8. view'[t][Version(s)] = Last(Version(s))'
    BY <1>0, <1>1, <2>3, <2>5, <2>7, AllKnown, Words
  <2>9. view'[t][NextFree(s)] = Last(NextFree(s))'
    BY <1>0, <1>1, <2>3, <2>4, <2>7, AllKnown, Words
  <2>10. Knows(view'[t], data'[s].used)
    <3>1. data[s].used \in Clock /\ view'[t] \in View  BY <1>0, <1>1 DEF Locals, BoundedNext
    <3>2. Knows(view'[t], data[s].used)  BY <2>3, <2>4, <3>1, Later
    <3>. QED  BY <2>1, <2>2, <3>2 DEF Knows
  <2>. QED  BY <1>6, <2>1, <2>2, <2>8, <2>9, <2>10 DEF FullNext
<1>. QED  BY <1>0, <1>2, <1>3, <1>4, <1>5, <1>6, <1>1, NewOwner DEF WillOwn, Owns

\* The thread of a removal gives its reference up, and does nothing before.
LEMMA OnlyReleases ==
  ASSUME Memory, Locals, HeadsRead, RefsExact, LocalsSound,
         NEW t \in Thread, Turn(t), th[t].pc = "dec"
  PROVE  Release(t)
<1>1. ~Quiet(t)  BY QuietMoves DEF RefPC
<1>. QED
  BY <1>1
  DEF Turn, At, PopSwap, PushZeroed, StoreRef, StoreVersion, AcquireGuard, CheckVersion,
      CloneGuard, SendGuard, Remove, PushStoreNext, PushSwap

\* Without the value a removal has replaced the version.
LEMMA OnlyRemoves ==
  ASSUME Memory, Locals, HeadsRead, RefsExact, OwnersAlone, LocalsSound,
         NEW t \in Thread, Turn(t), NEW s \in Slot, Occupied(s)
  PROVE  \/ VersionsKept({s})
         \/ Remove(t, s)
<1>0. ~Owns(t, s)  BY DEF OwnersAlone
<1>1. CASE Quiet(t)
  <2>1. mem' = mem  BY <1>1, QuietMoves
  <2>. QED  BY <2>1, NothingWritten DEF VersionsKept
<1>2. CASE PopSwap(t) \/ PushSwap(t)
  <2>1. Wrote(FreeHead)  BY <1>2, PopSwapMoves, PushSwapMoves
  <2>. QED  BY <2>1, HeadWritten DEF VersionsKept
<1>3. CASE PushZeroed(t)
  <2>1. mem' = mem \/ Wrote(Chunk)  BY <1>3, PushZeroedMoves
  <2>. QED  BY <2>1, NothingWritten, ChunkWritten DEF VersionsKept
<1>4. CASE StoreRef(t)
  <2>1. PICK r \in Slot : Wrote(RefCount(r))  BY <1>4, StoreRefMoves
  <2>2. VersionsKept(Slot)  BY <2>1, CountWritten
  <2>. QED  BY <2>2 DEF VersionsKept
<1>5. CASE StoreVersion(t)
  <2>1. PICK r \in Slot : r = th[t].idx /\ th[t].pc = "store_version" /\ Wrote(Version(r))
    BY <1>5, StoreVersionMoves DEF At
  <2>2. s # r  BY <1>0, <2>1 DEF Owns, OwnerPC
  <2>3. VersionsKept(Slot \ {r})  BY <2>1, VersionWritten
  <2>. QED  BY <2>2, <2>3 DEF VersionsKept
<1>6. CASE \/ \E r \in Slot, ver \in Asked, g \in Guard : AcquireGuard(t, r, ver, g)
           \/ \E g, h \in Guard : CloneGuard(t, g, h)
           \/ Release(t)
  <2>1. PICK r \in Slot : Wrote(RefCount(r))  BY <1>6, AcquireMoves, CloneMoves, ReleaseMoves
  <2>2. VersionsKept(Slot)  BY <2>1, CountWritten
  <2>. QED  BY <2>2 DEF VersionsKept
<1>7. CASE CheckVersion(t) \/ \E g \in Guard : SendGuard(g, t)
  <2>1. mem' = mem  BY <1>7 DEF CheckVersion, SendGuard
  <2>. QED  BY <2>1, NothingWritten DEF VersionsKept
<1>8. CASE \E r \in Slot : Remove(t, r)
  <2>1. PICK r \in Slot : Remove(t, r)  BY <1>8
  <2>2. Wrote(Version(r))  BY <2>1, RemoveMoves
  <2>3. VersionsKept(Slot \ {r})  BY <2>2, VersionWritten
  <2>. QED  BY <2>1, <2>3 DEF VersionsKept
<1>9. CASE PushStoreNext(t)
  <2>1. PICK r \in Slot : Wrote(NextFree(r))  BY <1>9, PushStoreNextMoves
  <2>2. VersionsKept(Slot)  BY <2>1, LinkWritten
  <2>. QED  BY <2>2 DEF VersionsKept
<1>. QED  BY <1>1, <1>2, <1>3, <1>4, <1>5, <1>6, <1>7, <1>8, <1>9 DEF Turn

\* A count with references is kept, or exchanged: its message then passes on
\* what the last one knew, and what a thread that gives a reference up knows.
LEMMA CountMoves ==
  ASSUME Memory, Locals, HeadsRead, RefsExact, OwnersAlone, LocalsSound,
         NEW t \in Thread, Turn(t), NEW s \in Slot, Refs(s) > 0
  PROVE  \/ CountsKept({s}) /\ data'[s] = data[s] /\ ~(th[t].pc = "dec" /\ th[t].idx = s)
         \/ /\ Wrote(RefCount(s)) /\ mem'[RefCount(s)][Last(RefCount(s)) + 1].rmw
            /\ BoundedNext(NextView(RefCount(s)))
            /\ Below(LastView(RefCount(s)), NextView(RefCount(s)))
            /\ th[t].pc = "dec" => Below(view[t], NextView(RefCount(s)))
            /\ data'[s].ver = data[s].ver /\ data'[s].written = data[s].written
            /\ \A u \in Thread : data'[s].used[u] = data[s].used[u]
                                 \/ data'[s].used[u] <= NextView(RefCount(s))[u]
<1>1. CASE Owns(t, s)
  <2>0. Refs(s) # 0  OBVIOUS
  <2>1. th[t].pc = "store_version" /\ StoreVersion(t)  BY <1>1, <2>0, OwnerKeeps
  <2>2. PICK r \in Slot : Wrote(Version(r))  BY <2>1, StoreVersionMoves
  <2>3. CountsKept(Slot)  BY <2>2, VersionWritten
  <2>4. data' = data  BY <2>1 DEF StoreVersion
  <2>. QED  BY <2>1, <2>3, <2>4 DEF CountsKept
<1>. SUFFICES ASSUME ~Owns(t, s)
     PROVE  \/ CountsKept({s}) /\ data'[s] = data[s] /\ ~(th[t].pc = "dec" /\ th[t].idx = s)
            \/ /\ Wrote(RefCount(s)) /\ mem'[RefCount(s)][Last(RefCount(s)) + 1].rmw
               /\ BoundedNext(NextView(RefCount(s)))
               /\ Below(LastView(RefCount(s)), NextView(RefCount(s)))
               /\ th[t].pc = "dec" => Below(view[t], NextView(RefCount(s)))
               /\ data'[s].ver = data[s].ver /\ data'[s].written = data[s].written
               /\ \A u \in Thread : data'[s].used[u] = data[s].used[u]
                                    \/ data'[s].used[u] <= NextView(RefCount(s))[u]
  BY <1>1
<1>2. CASE Release(t)
  <2>1. PICK r \in Slot :
          /\ \/ th[t].pc = "dec" /\ th[t].idx = r /\ Below(view[t], NextView(RefCount(r)))
             \/ th[t].pc = "idle"
          /\ Wrote(RefCount(r)) /\ mem'[RefCount(r)][Last(RefCount(r)) + 1].rmw
          /\ BoundedNext(NextView(RefCount(r)))
          /\ Below(LastView(RefCount(r)), NextView(RefCount(r)))
          /\ \A q \in Slot \ {r} : data'[q] = data[q]
          /\ data'[r].ver = data[r].ver /\ data'[r].written = data[r].written
          /\ \/ data'[r].used[t] = data[r].used[t]
             \/ data'[r].used[t] <= NextView(RefCount(r))[t]
          /\ \A u \in Thread \ {t} : data'[r].used[u] = data[r].used[u]
    BY <1>2, ReleaseMoves DEF At
  <2>2. CASE s = r  BY <2>1, <2>2
  <2>3. CASE s # r
    <3>1. CountsKept(Slot \ {r})  BY <2>1, CountWritten
    <3>. QED  BY <2>1, <2>3, <3>1 DEF CountsKept
  <2>. QED  BY <2>2, <2>3
<1>3. CASE ~Release(t)
  <2>1. th[t].pc # "dec"  BY <1>3, OnlyReleases
  <2>2. CASE Quiet(t)
    <3>1. mem' = mem /\ data'[s] = data[s]  BY <2>2, QuietMoves
    <3>2. CountsKept(Slot)  BY <3>1, NothingWritten
    <3>. QED  BY <2>1, <3>1, <3>2 DEF CountsKept
  <2>3. CASE PopSwap(t) \/ PushSwap(t)
    <3>1. Wrote(FreeHead)  BY <2>3, PopSwapMoves, PushSwapMoves
    <3>2. CountsKept(Slot) /\ data' = data  BY <2>3, <3>1, HeadWritten DEF PopSwap, PushSwap
    <3>. QED  BY <2>1, <3>2 DEF CountsKept
  <2>4. CASE PushZeroed(t)
    <3>1. mem' = mem \/ Wrote(Chunk)  BY <2>4, PushZeroedMoves
    <3>2. CountsKept(Slot) /\ data' = data
      BY <2>4, <3>1, NothingWritten, ChunkWritten DEF PushZeroed
    <3>. QED  BY <2>1, <3>2 DEF CountsKept
  <2>5. CASE StoreRef(t)
    <3>1. PICK r \in Slot :
            /\ r = th[t].idx /\ th[t].pc = "call" /\ Wrote(RefCount(r))
            /\ \A q \in Slot \ {r} : data'[q] = data[q]
      BY <2>5, StoreRefMoves DEF At
    <3>2. s # r  BY <3>1 DEF Owns, OwnerPC
    <3>3. CountsKept(Slot \ {r})  BY <3>1, CountWritten
    <3>. QED  BY <2>1, <3>1, <3>2, <3>3 DEF CountsKept
  <2>6. CASE StoreVersion(t)
    <3>1. PICK r \in Slot : Wrote(Version(r))  BY <2>6, StoreVersionMoves
    <3>2. CountsKept(Slot) /\ data' = data  BY <2>6, <3>1, VersionWritten DEF StoreVersion
    <3>. QED  BY <2>1, <3>2 DEF CountsKept
  <2>7. CASE \/ \E r \in Slot, ver \in Asked, g \in Guard : AcquireGuard(t, r, ver, g)
             \/ \E g, h \in Guard : CloneGuard(t, g, h)
    <3>1. PICK r \in Slot :
            /\ Wrote(RefCount(r)) /\ mem'[RefCount(r)][Last(RefCount(r)) + 1].rmw
            /\ BoundedNext(NextView(RefCount(r)))
            /\ Below(LastView(RefCount(r)), NextView(RefCount(r)))
      BY <2>7, AcquireMoves, CloneMoves
    <3>2. data' = data  BY <2>7 DEF AcquireGuard, CloneGuard
    <3>3. CASE s = r  BY <2>1, <3>1, <3>2, <3>3
    <3>4. CASE s # r
      <4>1. CountsKept(Slot \ {r})  BY <3>1, CountWritten
      <4>. QED  BY <2>1, <3>2, <3>4, <4>1 DEF CountsKept
    <3>. QED  BY <3>3, <3>4
  <2>8. CASE CheckVersion(t) \/ \E g \in Guard : SendGuard(g, t)
    <3>1. mem' = mem /\ data' = data  BY <2>8 DEF CheckVersion, SendGuard
    <3>2. CountsKept(Slot)  BY <3>1, NothingWritten
    <3>. QED  BY <2>1, <3>1, <3>2 DEF CountsKept
  <2>9. CASE \E r \in Slot : Remove(t, r)
    <3>1. PICK r \in Slot : Wrote(Version(r))  BY <2>9, RemoveMoves
    <3>2. CountsKept(Slot) /\ data' = data  BY <2>9, <3>1, VersionWritten DEF Remove
    <3>. QED  BY <2>1, <3>2 DEF CountsKept
  <2>10. CASE PushStoreNext(t)
    <3>1. PICK r \in Slot : Wrote(NextFree(r))  BY <2>10, PushStoreNextMoves
    <3>2. CountsKept(Slot) /\ data' = data  BY <2>10, <3>1, LinkWritten DEF PushStoreNext
    <3>. QED  BY <2>1, <3>2 DEF CountsKept
  <2>. QED
    BY <1>3, <2>2, <2>3, <2>4, <2>5, <2>6, <2>7, <2>8, <2>9, <2>10 DEF Turn
<1>. QED  BY <1>2, <1>3

\* What CountsSee asks of the view v of the last message of a count next.
CountSeen(v, s) ==
  /\ v[NextFree(s)] = Last(NextFree(s))'
  /\ Knows(v, data'[s].used) /\ Knows(v, data'[s].written)
  /\ v[Version(s)] >= data'[s].ver
  /\ \/ v[Version(s)] = Last(Version(s))' \/ Occupied(s)'
     \/ \E u \in Thread :
          th'[u].pc = "dec" /\ th'[u].idx = s /\ view'[u][Version(s)] = Last(Version(s))'
     \/ \E u \in Thread : th'[u].pc = "store_version" /\ th'[u].idx = s

LEMMA CountsSeen ==
  ASSUME \A s \in Slot : Refs(s)' > 0 => CountSeen(NextView(RefCount(s)), s)
  PROVE  CountsSee'
BY DEF CountSeen, CountsSee, Removal, At, LastView, NextView, Last, Knows

LEMMA CountsSeeStep ==
  ASSUME OrderInv, NEW t \in Thread, Turn(t)
  PROVE  CountsSee'
<1>0. /\ Memory /\ Locals /\ HeadsRead /\ RefsExact /\ OwnersAlone /\ LocalsSound
      /\ OwnersSee /\ CountsSee /\ ContentCurrent
  BY DEF OrderInv
<1>1. /\ BoundedNext(view'[t]) /\ Below(view[t], view'[t])
      /\ \A u \in Thread \ {t} : th'[u] = th[u] /\ view'[u] = view[u]
      /\ view[t] \in View /\ view'[t] \in View
  BY <1>0, Alone DEF Advances, Locals, BoundedNext
<1>. SUFFICES ASSUME NEW s \in Slot, Refs(s)' > 0  PROVE CountSeen(NextView(RefCount(s)), s)
  BY CountsSeen
<1>. DEFINE v == LastView(RefCount(s))  w == NextView(RefCount(s))
<1>2. /\ Refs(s) \in Nat /\ v \in View /\ Bounded(v)
      /\ data[s].ver \in Nat /\ data[s].used \in Clock /\ data[s].written \in Clock
  BY <1>0, Referenced, Lasts, Words DEF Locals
<1>3. ASSUME Refs(s) > 0
      PROVE  /\ v[NextFree(s)] = Last(NextFree(s))
             /\ Knows(v, data[s].used) /\ Knows(v, data[s].written)
             /\ v[Version(s)] >= data[s].ver
             /\ \/ v[Version(s)] = Last(Version(s)) \/ Occupied(s)
                \/ \E u \in Thread :
                     th[u].pc = "dec" /\ th[u].idx = s /\ view[u][Version(s)] = Last(Version(s))
                \/ \E u \in Thread : th[u].pc = "store_version" /\ th[u].idx = s
  BY <1>0, <1>3 DEF CountsSee, Removal, At
<1>4. CASE StoreRef(t) /\ Owns(t, s)
  <2>1. /\ th[t].pc = "call" /\ th[t].idx = s /\ Wrote(RefCount(s)) /\ w = view'[t]
        /\ view'[t][Version(s)] = view[t][Version(s)]
        /\ view'[t][NextFree(s)] = view[t][NextFree(s)]
        /\ data'[s].ver = th[t].ver /\ data'[s].written = data'[s].used
        /\ Knows(view'[t], data'[s].used)
    BY <1>0, <1>4, StoreRefMoves, Words DEF At, Owns
  <2>2. /\ view[t][Version(s)] = Last(Version(s)) /\ view[t][NextFree(s)] = Last(NextFree(s))
        /\ th[t].ver = Last(Version(s)) /\ Last(Version(s)) \in Nat
    BY <1>0, <1>4, <2>1, Lasts, Words DEF OwnersSee, Full, At, LocalsSound
  <2>3. Last(Version(s))' = Last(Version(s)) /\ Last(NextFree(s))' = Last(NextFree(s))
    BY <2>1, CountWritten DEF VersionsKept, LinksKept
  <2>4. w[Version(s)] >= data'[s].ver  BY <2>1, <2>2
  <2>. HIDE DEF w
  <2>. QED  BY <2>1, <2>2, <2>3, <2>4 DEF CountSeen, w
<1>5. CASE ~(StoreRef(t) /\ Owns(t, s))
  <2>0. Refs(s) > 0
    <3>1. CASE Owns(t, s)
      <4>1. Refs(s) # 0
        <5>1. CASE StoreVersion(t) /\ th[t].pc = "store_version"
          BY <1>0, <3>1, <5>1, Referenced DEF Owns, RefPC
        <5>2. CASE CountsKept({s})  BY <5>2 DEF CountsKept
        <5>. QED  BY <1>0, <1>5, <3>1, <5>1, <5>2, OwnerKeeps
      <4>. QED  BY <1>2, <4>1
    <3>2. CASE ~Owns(t, s)
      <4>1. Refs(s) = 0 => Refs(s)' = 0  BY <1>0, <3>2, Touches DEF CountsKept
      <4>. QED  BY <1>2, <4>1
    <3>. QED  BY <3>1, <3>2
  \* What the message knows is as much as before,
  <2>1. /\ Below(v, w) /\ BoundedNext(w) /\ Knows(w, data'[s].used)
        /\ data'[s].ver = data[s].ver /\ data'[s].written = data[s].written
        /\ ((th[t].pc = "dec" /\ th[t].idx = s) => Below(view[t], w))
    <3>1. CASE CountsKept({s}) /\ data'[s] = data[s] /\ ~(th[t].pc = "dec" /\ th[t].idx = s)
      <4>1. w = v  BY <3>1 DEF CountsKept, LastView, NextView, Last
      <4>2. BoundedNext(v)  BY <1>0, <1>2, Alone, Remain
      <4>3. Below(v, v)  BY <1>2 DEF Below, View
      <4>. QED  BY <1>3, <2>0, <3>1, <4>1, <4>2, <4>3
    <3>2. CASE /\ BoundedNext(w) /\ Below(v, w)
               /\ (th[t].pc = "dec" => Below(view[t], w))
               /\ data'[s].ver = data[s].ver /\ data'[s].written = data[s].written
               /\ \A u \in Thread : data'[s].used[u] = data[s].used[u]
                                    \/ data'[s].used[u] <= w[u]
      <4>. HIDE DEF w, v
      <4>1. w \in View  BY <3>2 DEF BoundedNext
      <4>2. Knows(w, data[s].used)  BY <1>2, <1>3, <2>0, <3>2, <4>1, Later
      <4>3. Knows(w, data'[s].used)  BY <3>2, <4>2 DEF Knows
      <4>. QED  BY <3>2, <4>3
    <3>. QED  BY <1>0, <2>0, <3>1, <3>2, CountMoves
  <2>. HIDE DEF w, v
  <2>2. w \in View /\ Knows(w, data'[s].written) /\ w[Version(s)] >= data'[s].ver
    <3>1. w \in View  BY <2>1 DEF BoundedNext
    <3>2. Knows(w, data[s].written)  BY <1>2, <1>3, <2>0, <2>1, <3>1, Later
    <3>3. /\ v[Version(s)] <= w[Version(s)] /\ v[Version(s)] \in Nat /\ w[Version(s)] \in Nat
          /\ v[Version(s)] >= data[s].ver
      BY <1>2, <1>3, <2>0, <2>1, <3>1, Words DEF Below, View, Known
    <3>4. w[Version(s)] >= data[s].ver  BY <1>2, <3>3
    <3>. QED  BY <2>1, <3>1, <3>2, <3>4
  \* and the slot has no other link,
  <2>3. w[NextFree(s)] = Last(NextFree(s))'
    <3>1. LinksKept({s})
      <4>1. CASE ~Owns(t, s)  BY <1>0, <4>1, Touches
      <4>2. CASE Owns(t, s)
        <5>0. Refs(s) # 0  BY <2>0
        <5>1. StoreVersion(t)  BY <1>0, <1>5, <4>2, <5>0, OwnerKeeps
        <5>2. PICK r \in Slot : Wrote(Version(r))  BY <1>0, <5>1, StoreVersionMoves
        <5>3. LinksKept(Slot)  BY <5>2, VersionWritten
        <5>. QED  BY <5>3 DEF LinksKept
      <4>. QED  BY <4>1, <4>2
    <3>2. Last(NextFree(s))' = Last(NextFree(s))  BY <3>1 DEF LinksKept
    <3>. QED  BY <1>0, <1>3, <2>0, <2>1, <3>2, AllKnown, Words
  \* nor another version that it could not know.
  <2>4. \/ w[Version(s)] = Last(Version(s))' \/ Occupied(s)'
        \/ \E u \in Thread :
             th'[u].pc = "dec" /\ th'[u].idx = s /\ view'[u][Version(s)] = Last(Version(s))'
        \/ \E u \in Thread : th'[u].pc = "store_version" /\ th'[u].idx = s
    <3>1. CASE Occupied(s)
      <4>1. CASE VersionsKept({s})  BY <3>1, <4>1 DEF VersionsKept
      <4>2. CASE Remove(t, s)
        <5>1. /\ th'[t].pc = "dec" /\ th'[t].idx = s
              /\ view'[t][Version(s)] = Last(Version(s))'
          BY <1>0, <4>2, RemoveMoves DEF At
        <5>. QED  BY <5>1
      <4>. QED  BY <1>0, <3>1, <4>1, <4>2, OnlyRemoves
    <3>2. CASE ~Occupied(s) /\ Owns(t, s)
      <4>0. Refs(s) # 0  BY <2>0
      <4>1. StoreVersion(t)  BY <1>0, <1>5, <3>2, <4>0, OwnerKeeps
      <4>. QED  BY <1>0, <3>2, <4>1, Publishes DEF Owns
    <3>3. CASE ~Occupied(s) /\ ~Owns(t, s)
      <4>1. Last(Version(s))' = Last(Version(s))
        BY <1>0, <3>3, Touches DEF VersionsKept
      <4>2. CASE v[Version(s)] = Last(Version(s))
        BY <1>0, <2>1, <4>1, <4>2, AllKnown, Words
      <4>3. ASSUME NEW u \in Thread, th[u].pc = "dec", th[u].idx = s,
                   view[u][Version(s)] = Last(Version(s))
            PROVE  w[Version(s)] = Last(Version(s))'
                   \/ (th'[u].pc = "dec" /\ th'[u].idx = s
                       /\ view'[u][Version(s)] = Last(Version(s))')
        <5>1. CASE u # t  BY <1>1, <4>1, <4>3, <5>1
        <5>2. CASE u = t
          <6>1. Below(view[t], w)  BY <2>1, <4>3, <5>2
          <6>. QED  BY <1>0, <2>1, <4>1, <4>3, <5>2, <6>1, AllKnown, Words
        <5>. QED  BY <5>1, <5>2
      <4>4. ASSUME NEW u \in Thread, th[u].pc = "store_version", th[u].idx = s
            PROVE  th'[u].pc = "store_version" /\ th'[u].idx = s
        <5>1. u # t  BY <3>3, <4>4 DEF Owns, OwnerPC
        <5>. QED  BY <1>1, <4>4, <5>1
      <4>. QED  BY <1>3, <2>0, <3>3, <4>2, <4>3, <4>4
    <3>. QED  BY <3>1, <3>2, <3>3
  <2>. QED  BY <2>1, <2>2, <2>3, <2>4 DEF CountSeen, w
<1>. QED  BY <1>4, <1>5

\* Of a count with references no store is forgotten.
StoresNext(v, l) == \A i \in 1 .. Len(mem'[l]) : v[l] < i => mem'[l][i].rmw

LEMMA StoresStay ==
  ASSUME Memory, Locals, HeadsRead, RefsExact, OwnersAlone, LocalsSound,
         NEW t \in Thread, Turn(t), NEW s \in Slot, Refs(s) > 0,
         NEW v, v \in View, StoresKnown(v, RefCount(s)), NEW w, w \in View, Below(v, w)
  PROVE  StoresNext(w, RefCount(s))
<1>. DEFINE l == RefCount(s)
<1>0. l \in Word /\ Last(l) \in Nat  BY Lasts, Words
<1>1. StoresKnown(w, l)  BY <1>0, Later
<1>2. CASE mem'[l] = mem[l]  BY <1>1, <1>2 DEF StoresKnown, StoresNext, Last
<1>3. CASE Wrote(l) /\ mem'[l][Last(l) + 1].rmw
  <2>1. Len(mem'[l]) = Last(l) + 1 /\ \A i \in 1 .. Last(l) : mem'[l][i] = mem[l][i]
    BY <1>3 DEF Wrote, Last
  <2>. HIDE DEF l
  <2>2. ASSUME NEW i \in 1 .. Len(mem'[l]), w[l] < i  PROVE mem'[l][i].rmw
    <3>1. CASE i = Last(l) + 1  BY <1>3, <3>1
    <3>2. CASE i \in 1 .. Last(l)  BY <1>1, <2>1, <2>2, <3>2 DEF StoresKnown
    <3>. QED  BY <1>0, <2>1, <3>1, <3>2
  <2>. QED  BY <2>2 DEF StoresNext, l
<1>4. mem'[l] = mem[l] \/ (Wrote(l) /\ mem'[l][Last(l) + 1].rmw)
  <2>1. CASE CountsKept({s})
    <3>1. Last(l)' = Last(l)  BY <2>1 DEF CountsKept
    <3>2. mem' = mem \/ \E k \in Word : Wrote(k)  BY Alone
    <3>3. ~Wrote(l)  BY <1>0, <3>1 DEF Wrote, Last
    <3>. QED  BY <1>0, <3>2, <3>3 DEF Wrote
  <2>. QED  BY <2>1, CountMoves
<1>. QED  BY <1>2, <1>3, <1>4

LEMMA StoresAll ==
  ASSUME Memory, NEW l \in Word, Wrote(l), NEW v \in View, v[l] = Last(l) + 1
  PROVE  StoresNext(v, l)
<1>1. Len(mem'[l]) = Last(l) + 1 /\ Last(l) \in Nat  BY Lasts DEF Wrote, Last
<1>. QED  BY <1>1 DEF StoresNext

LEMMA StoresNexts ==
  ASSUME NEW s \in Slot
  PROVE  /\ \A u \in Thread :
              StoresKnown(view[u], RefCount(s))' <=> StoresNext(view'[u], RefCount(s))
         /\ StoresKnown(LastView(Version(s)), RefCount(s))'
              <=> StoresNext(NextView(Version(s)), RefCount(s))
BY DEF StoresKnown, StoresNext, LastView, NextView, Last

\* A value that is referenced stays.
LEMMA ContentKept ==
  ASSUME Memory, Locals, HeadsRead, RefsExact, OwnersAlone, LocalsSound,
         NEW t \in Thread, Turn(t), NEW s \in Slot, Refs(s) > 0
  PROVE  data'[s].ver = data[s].ver /\ data'[s].written = data[s].written
BY CountMoves

\* Where a reference comes from.
LEMMA RefMoves ==
  ASSUME Memory, Locals, HeadsRead, RefsExact, LocalsSound, NEW t \in Thread, Turn(t),
         th'[t].pc \in RefPC
  PROVE  \/ th'[t] = th[t]
         \/ StoreRef(t) /\ th'[t].pc = "store_version"
         \/ th[t].pc = "check" /\ th'[t].pc = "dec" /\ th'[t].idx = th[t].idx
         \/ \E s \in Slot, ver \in Asked, g \in Guard :
              AcquireGuard(t, s, ver, g) /\ th'[t].pc = "check" /\ th'[t].idx = s
         \/ \E s \in Slot : Remove(t, s) /\ th'[t].pc = "dec" /\ th'[t].idx = s
<1>1. CASE Quiet(t)  BY <1>1, QuietMoves
<1>2. CASE PopSwap(t)  BY <1>2, PopSwapMoves DEF At, RefPC
<1>3. CASE PushZeroed(t)  BY <1>3, PushZeroedMoves DEF At, RefPC
<1>4. CASE StoreRef(t)  BY <1>4, StoreRefMoves DEF At
<1>5. CASE StoreVersion(t)  BY <1>5, StoreVersionMoves, IdleState DEF RefPC
<1>6. CASE \E r \in Slot, ver \in Asked, g \in Guard : AcquireGuard(t, r, ver, g)
  BY <1>6, AcquireMoves DEF At
<1>7. CASE CheckVersion(t)  BY <1>7, CheckMoves DEF At, RefPC
<1>8. CASE Release(t)  BY <1>8, ReleaseMoves DEF At, RefPC
<1>9. CASE (\E g, h \in Guard : CloneGuard(t, g, h)) \/ \E g \in Guard : SendGuard(g, t)
  BY <1>9 DEF CloneGuard, SendGuard
<1>10. CASE \E r \in Slot : Remove(t, r)  BY <1>10, RemoveMoves DEF At
<1>11. CASE PushStoreNext(t)  BY <1>11, PushStoreNextMoves DEF At, RefPC
<1>12. CASE PushSwap(t)  BY <1>12, PushSwapMoves, IdleState DEF RefPC
<1>. QED
  BY <1>1, <1>2, <1>3, <1>4, <1>5, <1>6, <1>7, <1>8, <1>9, <1>10, <1>11, <1>12 DEF Turn

LEMMA GetsSeeStep ==
  ASSUME OrderInv, NEW t \in Thread, Turn(t)
  PROVE  GetsSee'
<1>0. /\ Memory /\ Locals /\ HeadsRead /\ RefsExact /\ OwnersAlone /\ LocalsSound
      /\ CountsSee /\ GetsSee /\ VersionsSee
  BY DEF OrderInv
<1>1. /\ Below(view[t], view'[t]) /\ \A u \in Thread \ {t} : th'[u] = th[u] /\ view'[u] = view[u]
      /\ \A u \in Thread : view[u] \in View /\ view'[u] \in View
  BY <1>0, Alone DEF Advances, Locals
<1>2. \A u \in Thread : Below(view[u], view'[u])  BY <1>1 DEF Below, View
<1>3. \A s \in Slot : data[s].ver \in Nat /\ data[s].written \in Clock  BY <1>0 DEF Locals
\* A reference that was there before,
<1>4. ASSUME NEW u \in Thread, NEW s \in Slot, th[u].idx = s, th[u].pc \in RefPC
      PROVE  /\ StoresNext(view'[u], RefCount(s))
             /\ (th[u].pc = "check" => /\ Knows(view'[u], data'[s].written)
                                       /\ view'[u][Version(s)] >= data'[s].ver)
  <2>1. Refs(s) > 0  BY <1>0, <1>4, Referenced
  <2>2. data'[s].ver = data[s].ver /\ data'[s].written = data[s].written
    BY <1>0, <2>1, ContentKept
  <2>3. StoresKnown(view[u], RefCount(s))  BY <1>0, <1>4 DEF GetsSee
  <2>4. StoresNext(view'[u], RefCount(s))  BY <1>0, <1>1, <1>2, <2>1, <2>3, StoresStay
  <2>5. ASSUME th[u].pc = "check"
        PROVE  Knows(view'[u], data'[s].written) /\ view'[u][Version(s)] >= data'[s].ver
    <3>1. Knows(view[u], data[s].written) /\ view[u][Version(s)] >= data[s].ver
      BY <1>0, <1>4, <2>5 DEF GetsSee, At
    <3>2. Knows(view'[u], data[s].written)  BY <1>1, <1>2, <1>3, <3>1, Later
    <3>3. /\ view[u][Version(s)] <= view'[u][Version(s)]
          /\ view[u][Version(s)] \in Nat /\ view'[u][Version(s)] \in Nat
      BY <1>1, <1>2, Words DEF Below, View, Known
    <3>4. view'[u][Version(s)] >= data[s].ver  BY <1>3, <3>1, <3>3
    <3>. QED  BY <2>2, <3>2, <3>4
  <2>. QED  BY <2>4, <2>5
\* and one that is taken.
<1>5. ASSUME th'[t].pc = "check", th'[t] # th[t], NEW s \in Slot, th'[t].idx = s
      PROVE  /\ Knows(view'[t], data'[s].written) /\ view'[t][Version(s)] >= data'[s].ver
             /\ StoresNext(view'[t], RefCount(s))
  <2>1. PICK ver \in Asked, g \in Guard : AcquireGuard(t, s, ver, g)
    BY <1>0, <1>5, RefMoves DEF RefPC
  <2>2. /\ Refs(s) > 0 /\ Wrote(RefCount(s)) /\ view'[t][RefCount(s)] = Last(RefCount(s)) + 1
        /\ Below(LastView(RefCount(s)), view'[t])
    BY <1>0, <2>1, AcquireMoves
  <2>3. data' = data  BY <2>1 DEF AcquireGuard
  <2>4. /\ Knows(LastView(RefCount(s)), data[s].written)
        /\ LastView(RefCount(s))[Version(s)] >= data[s].ver
    BY <1>0, <2>2 DEF CountsSee
  <2>5. LastView(RefCount(s)) \in View  BY <1>0, Lasts, Words
  <2>6. Knows(view'[t], data[s].written)  BY <1>1, <1>3, <2>2, <2>4, <2>5, Later
  <2>7. view'[t][Version(s)] >= data[s].ver
    <3>1. /\ LastView(RefCount(s))[Version(s)] <= view'[t][Version(s)]
          /\ LastView(RefCount(s))[Version(s)] \in Nat /\ view'[t][Version(s)] \in Nat
      BY <1>1, <2>2, <2>5, Words DEF Below, View, Known
    <3>. QED  BY <1>3, <2>4, <3>1
  <2>8. StoresNext(view'[t], RefCount(s))  BY <1>0, <1>1, <2>2, Words, StoresAll
  <2>. QED  BY <2>3, <2>6, <2>7, <2>8
<1>6. ASSUME th'[t].pc \in RefPC, th'[t].pc # "check", th'[t] # th[t],
             NEW s \in Slot, th'[t].idx = s
      PROVE  StoresNext(view'[t], RefCount(s))
  <2>1. CASE StoreRef(t)
    <3>1. /\ Wrote(RefCount(s)) /\ view'[t][RefCount(s)] = Last(RefCount(s)) + 1
      BY <1>0, <1>6, <2>1, StoreRefMoves
    <3>. QED  BY <1>0, <1>1, <3>1, Words, StoresAll
  <2>2. CASE th[t].pc = "check" /\ th'[t].idx = th[t].idx
    BY <1>4, <1>6, <2>2 DEF RefPC
  <2>3. CASE Remove(t, s)
    <3>1. Occupied(s) /\ Below(LastView(Version(s)), view'[t])  BY <1>0, <2>3, RemoveMoves
    <3>2. StoresKnown(LastView(Version(s)), RefCount(s))  BY <1>0, <3>1 DEF VersionsSee
    <3>3. Refs(s) > 0  BY <1>0, <3>1, Referenced
    <3>4. LastView(Version(s)) \in View  BY <1>0, Lasts, Words
    <3>. QED  BY <1>0, <1>1, <3>1, <3>2, <3>3, <3>4, StoresStay
  <2>. QED  BY <1>0, <1>6, <2>1, <2>2, <2>3, RefMoves
<1>7. ASSUME NEW u \in Thread, NEW s \in Slot, th'[u].idx = s, th'[u].pc \in RefPC
      PROVE  /\ StoresNext(view'[u], RefCount(s))
             /\ (th'[u].pc = "check" => /\ Knows(view'[u], data'[s].written)
                                        /\ view'[u][Version(s)] >= data'[s].ver)
  <2>1. CASE th'[u] = th[u]  BY <1>4, <1>7, <2>1
  <2>2. CASE th'[u] # th[u]
    <3>1. u = t  BY <1>1, <2>2
    <3>. QED  BY <1>5, <1>6, <1>7, <2>2, <3>1
  <2>. QED  BY <2>1, <2>2
<1>8. \A u \in Thread : th'[u].idx \in Slot  BY <1>0, Alone DEF ThreadState
<1>9. \A u \in Thread : th'[u].pc \in RefPC =>
        /\ StoresNext(view'[u], RefCount(th'[u].idx))
        /\ (th'[u].pc = "check" => /\ Knows(view'[u], data'[th'[u].idx].written)
                                   /\ view'[u][Version(th'[u].idx)] >= data'[th'[u].idx].ver)
  BY <1>7, <1>8
<1>. QED  BY <1>9 DEF GetsSee, At, RefPC, StoresKnown, StoresNext, Last, Knows, RefCount, Version

LEMMA VersionsSeeStep ==
  ASSUME OrderInv, NEW t \in Thread, Turn(t)
  PROVE  VersionsSee'
<1>0. /\ Memory /\ Locals /\ HeadsRead /\ RefsExact /\ OwnersAlone /\ LocalsSound
      /\ GetsSee /\ VersionsSee
  BY DEF OrderInv
<1>. SUFFICES ASSUME NEW s \in Slot, Occupied(s)'
     PROVE  StoresNext(NextView(Version(s)), RefCount(s))
  BY StoresNexts DEF VersionsSee
<1>1. /\ view[t] \in View /\ view'[t] \in View /\ Below(view[t], view'[t])
  BY <1>0, Alone DEF Advances, Locals
<1>2. Last(Version(s)) \in Nat \ {0} /\ LastView(Version(s)) \in View
  BY <1>0, Lasts, Words
<1>3. CASE Occupied(s)
  <2>1. ~Remove(t, s)
    <3>1. ASSUME Remove(t, s)  PROVE FALSE
      <4>1. Latest(Version(s))' = Latest(Version(s)) + 1  BY <1>0, <3>1, RemoveMoves
      <4>2. Latest(Version(s)) \in Nat  BY <1>0, <1>2, Values
      <4>. QED  BY <1>3, <4>1, <4>2, Parity DEF Occupied
    <3>. QED  BY <3>1
  <2>2. VersionsKept({s})  BY <1>0, <1>3, <2>1, OnlyRemoves
  <2>3. NextView(Version(s)) = LastView(Version(s))
    BY <2>2 DEF VersionsKept, LastView, NextView, Last
  <2>4. StoresKnown(LastView(Version(s)), RefCount(s))  BY <1>0, <1>3 DEF VersionsSee
  <2>5. Refs(s) > 0  BY <1>0, <1>3, Referenced
  <2>6. Below(LastView(Version(s)), LastView(Version(s)))  BY <1>2 DEF Below, View
  <2>7. StoresNext(LastView(Version(s)), RefCount(s))
    BY <1>0, <1>2, <2>4, <2>5, <2>6, StoresStay
  <2>. QED  BY <2>3, <2>7
<1>4. CASE ~Occupied(s)
  <2>1. Owns(t, s)  BY <1>0, <1>4, Touches DEF VersionsKept
  <2>2. StoreVersion(t)
    <3>1. CASE StoreRef(t) /\ th[t].pc = "call"
      <4>1. PICK r \in Slot : Wrote(RefCount(r))  BY <1>0, <3>1, StoreRefMoves
      <4>2. VersionsKept(Slot)  BY <4>1, CountWritten
      <4>. QED  BY <1>4, <4>2 DEF VersionsKept
    <3>2. CASE VersionsKept({s})  BY <1>4, <3>2 DEF VersionsKept
    <3>. QED  BY <1>0, <2>1, <3>1, <3>2, OwnerKeeps
  <2>3. /\ th[t].idx = s /\ th[t].pc = "store_version"
        /\ NextView(Version(s)) = view'[t]
    BY <1>0, <2>1, <2>2, StoreVersionMoves DEF At, Owns
  <2>4. StoresKnown(view[t], RefCount(s)) /\ Refs(s) > 0
    BY <1>0, <2>3, Referenced DEF GetsSee, RefPC
  <2>5. StoresNext(view'[t], RefCount(s))  BY <1>0, <1>1, <2>4, StoresStay
  <2>. QED  BY <2>3, <2>5
<1>. QED  BY <1>3, <1>4

\* The zeroing happens once, when there is no slot yet.
LEMMA ZeroingMoves ==
  ASSUME Memory, Locals, HeadsRead, RefsExact, LocalsSound, ChunkSees, NEW t \in Thread, Turn(t)
  PROVE  \/ zeroed' = zeroed /\ ChunkKept /\ (Allocated' <=> Allocated)
         \/ PushZeroed(t) /\ ~Allocated /\ len = 0 /\ zeroed = NoClock
<1>1. CASE PushZeroed(t) /\ ~Allocated  BY <1>1 DEF ChunkSees
<1>2. CASE ~(PushZeroed(t) /\ ~Allocated)
  <2>1. ChunkKept
    <3>1. CASE mem' = mem  BY <3>1, NothingWritten
    <3>2. CASE Wrote(FreeHead)  BY <3>2, HeadWritten
    <3>3. ASSUME NEW s \in Slot, Wrote(RefCount(s)) \/ Wrote(Version(s)) \/ Wrote(NextFree(s))
          PROVE  ChunkKept
      BY <3>3, CountWritten, VersionWritten, LinkWritten
    <3>4. CASE Quiet(t) \/ CheckVersion(t) \/ \E g \in Guard : SendGuard(g, t)
      BY <3>1, <3>4, QuietMoves DEF CheckVersion, SendGuard
    <3>5. CASE PopSwap(t) \/ PushSwap(t)  BY <3>2, <3>5, PopSwapMoves, PushSwapMoves
    <3>6. CASE StoreRef(t) \/ StoreVersion(t) \/ PushStoreNext(t) \/ Release(t)
      BY <3>3, <3>6, StoreRefMoves, StoreVersionMoves, PushStoreNextMoves, ReleaseMoves
    <3>7. CASE \/ \E s \in Slot, ver \in Asked, g \in Guard : AcquireGuard(t, s, ver, g)
               \/ \E g, h \in Guard : CloneGuard(t, g, h)
               \/ \E s \in Slot : Remove(t, s)
      BY <3>3, <3>7, AcquireMoves, CloneMoves, RemoveMoves
    <3>8. CASE PushZeroed(t)  BY <1>2, <3>1, <3>8, PushZeroedMoves
    <3>. QED  BY <3>4, <3>5, <3>6, <3>7, <3>8 DEF Turn
  <2>2. zeroed' = zeroed
    <3>1. CASE PushZeroed(t)  BY <1>2, <3>1, PushZeroedMoves
    <3>. QED
      BY <3>1, QuietMoves, ReleaseMoves
      DEF Turn, PopSwap, StoreRef, StoreVersion, AcquireGuard, CheckVersion, CloneGuard,
          SendGuard, Remove, PushStoreNext, PushSwap
  <2>. QED  BY <2>1, <2>2 DEF ChunkKept, Allocated
<1>. QED  BY <1>1, <1>2

LEMMA GuardsSeeStep ==
  ASSUME OrderInv, NEW t \in Thread, Turn(t)
  PROVE  GuardsSee'
<1>0. /\ Memory /\ Locals /\ HeadsRead /\ RefsExact /\ OwnersAlone /\ LocalsSound
      /\ GetsSee /\ GuardsSee /\ ChunkSees /\ ZeroingSeen
  BY DEF OrderInv
<1>1. /\ Below(view[t], view'[t]) /\ \A u \in Thread \ {t} : th'[u] = th[u] /\ view'[u] = view[u]
      /\ \A u \in Thread : view[u] \in View /\ view'[u] \in View
  BY <1>0, Alone DEF Advances, Locals
<1>2. \A u \in Thread : Below(view[u], view'[u])  BY <1>1 DEF Below, View
<1>3. guard' \in [Guard -> GuardState \cup {None}]  BY <1>0, GuardStepType
<1>. SUFFICES ASSUME NEW g \in Guard, guard'[g] # None
     PROVE  /\ StoresNext(view'[guard'[g].by], RefCount(guard'[g].idx))
            /\ Knows(view'[guard'[g].by], zeroed')
  BY <1>3 DEF GuardsSee, StoresKnown, StoresNext, Last, Knows, RefCount
<1>4. PICK s \in Slot, w \in Thread : guard'[g].idx = s /\ guard'[g].by = w
  BY <1>3 DEF GuardState
\* Whoever knew as much before, of a slot with a reference.
<1>5. ASSUME NEW u \in Thread, Below(view[u], view'[w]), Refs(s) > 0, s < len,
             StoresKnown(view[u], RefCount(s)), Knows(view[u], zeroed)
      PROVE  StoresNext(view'[w], RefCount(s)) /\ Knows(view'[w], zeroed')
  <2>1. StoresNext(view'[w], RefCount(s))  BY <1>0, <1>1, <1>5, StoresStay
  <2>2. zeroed' = zeroed
    <3>1. len # 0  BY <1>5 DEF Slot
    <3>. QED  BY <1>0, <3>1, ZeroingMoves
  <2>3. Knows(view'[w], zeroed)
    <3>1. zeroed \in Clock  BY <1>0 DEF Locals
    <3>. QED  BY <1>1, <1>5, <3>1, Later
  <2>. QED  BY <2>1, <2>2, <2>3
<1>6. ASSUME NEW h \in Guard, guard[h] # None, guard[h].idx = s, NEW u \in Thread,
             guard[h].by = u, Below(view[u], view'[w])
      PROVE  StoresNext(view'[w], RefCount(s)) /\ Knows(view'[w], zeroed')
  <2>1. Refs(s) > 0 /\ s < len  BY <1>0, <1>6, Referenced DEF LocalsSound
  <2>2. StoresKnown(view[u], RefCount(s)) /\ Knows(view[u], zeroed)
    BY <1>0, <1>6 DEF GuardsSee
  <2>. QED  BY <1>5, <1>6, <2>1, <2>2
<1>7. CASE guard'[g] = guard[g]  BY <1>2, <1>4, <1>6, <1>7
<1>8. CASE At(t, "check") /\ guard'[g].by = t /\ guard'[g].idx = th[t].idx
  <2>1. StoresKnown(view[t], RefCount(s)) /\ Knows(view[t], zeroed)
    BY <1>0, <1>4, <1>8 DEF GetsSee, ZeroingSeen, At, RefPC
  <2>2. Refs(s) > 0 /\ s < len
    BY <1>0, <1>4, <1>8, Referenced DEF LocalsSound, At, RefPC
  <2>. QED  BY <1>1, <1>4, <1>5, <1>8, <2>1, <2>2
<1>9. ASSUME NEW h \in Guard, guard[h] # None, guard[h].by = t, guard'[g] = guard[h]
      PROVE  StoresNext(view'[w], RefCount(s)) /\ Knows(view'[w], zeroed')
  BY <1>1, <1>4, <1>6, <1>9
<1>10. CASE /\ guard[g] # None /\ guard'[g].by = t /\ guard'[g].idx = guard[g].idx
            /\ Below(view[guard[g].by], view'[t])
  <2>1. guard[g].by \in Thread  BY <1>0, <1>10 DEF Locals, GuardState
  <2>. QED  BY <1>4, <1>6, <1>10, <2>1
<1>. QED  BY <1>0, <1>4, <1>7, <1>8, <1>9, <1>10, GuardMoves

\* Whoever reads the version of its key has read that of the content, and the
\* two are the same.
LEMMA SynchronizedStep ==
  ASSUME OrderInv, NEW t \in Thread, Turn(t)
  PROVE  GuardsSynchronized'
<1>0. /\ Memory /\ Locals /\ HeadsRead /\ RefsExact /\ OwnersAlone /\ LocalsSound
      /\ ContentCurrent /\ GetsSee /\ GuardsSynchronized
  BY DEF OrderInv
<1>1. /\ Below(view[t], view'[t]) /\ \A u \in Thread \ {t} : th'[u] = th[u] /\ view'[u] = view[u]
      /\ \A u \in Thread : view[u] \in View /\ view'[u] \in View
  BY <1>0, Alone DEF Advances, Locals
<1>2. \A u \in Thread : Below(view[u], view'[u])  BY <1>1 DEF Below, View
<1>3. guard' \in [Guard -> GuardState \cup {None}]  BY <1>0, GuardStepType
<1>. SUFFICES ASSUME NEW g \in Guard, guard'[g] # None
     PROVE  /\ data'[guard'[g].idx].ver = guard'[g].ver
            /\ Knows(view'[guard'[g].by], data'[guard'[g].idx].written)
  BY DEF GuardsSynchronized, Knows
<1>4. PICK s \in Slot, w \in Thread : guard'[g].idx = s /\ guard'[g].by = w
  BY <1>3 DEF GuardState
<1>5. ASSUME NEW u \in Thread, Below(view[u], view'[w]), Refs(s) > 0,
             Knows(view[u], data[s].written), data[s].ver = guard'[g].ver
      PROVE  data'[s].ver = guard'[g].ver /\ Knows(view'[w], data'[s].written)
  <2>1. data'[s].ver = data[s].ver /\ data'[s].written = data[s].written
    BY <1>0, <1>5, ContentKept
  <2>2. data[s].written \in Clock  BY <1>0 DEF Locals
  <2>3. Knows(view'[w], data[s].written)  BY <1>1, <1>5, <2>2, Later
  <2>. QED  BY <1>5, <2>1, <2>3
<1>6. ASSUME NEW h \in Guard, guard[h] # None, guard[h].idx = s, NEW u \in Thread,
             guard[h].by = u, guard[h].ver = guard'[g].ver, Below(view[u], view'[w])
      PROVE  data'[s].ver = guard'[g].ver /\ Knows(view'[w], data'[s].written)
  <2>1. Refs(s) > 0  BY <1>0, <1>6, Referenced
  <2>2. Knows(view[u], data[s].written) /\ data[s].ver = guard[h].ver
    BY <1>0, <1>6 DEF GuardsSynchronized
  <2>. QED  BY <1>5, <1>6, <2>1, <2>2
<1>7. CASE guard'[g] = guard[g]  BY <1>2, <1>4, <1>6, <1>7
<1>8. CASE /\ At(t, "check") /\ guard'[g].by = t /\ guard'[g].idx = th[t].idx
           /\ guard'[g].ver = th[t].ver
           /\ view[t][Version(th[t].idx)] <= th[t].ver + 1
           /\ th[t].ver + 1 <= Last(Version(th[t].idx))
  <2>1. /\ Knows(view[t], data[s].written) /\ view[t][Version(s)] >= data[s].ver
        /\ Refs(s) > 0 /\ th[t].ver % 2 = 1
    BY <1>0, <1>4, <1>8, Referenced DEF GetsSee, LocalsSound, At, RefPC
  <2>2. /\ data[s].ver % 2 = 1 /\ Last(Version(s)) <= data[s].ver + 2
    BY <1>0, <2>1 DEF ContentCurrent
  <2>3. /\ data[s].ver \in Nat /\ th[t].ver \in Nat /\ view[t][Version(s)] \in Nat
        /\ Last(Version(s)) \in Nat
    BY <1>0, <1>1, Lasts, Words DEF Locals, ThreadState, View, Known
  <2>4. data[s].ver = th[t].ver
    <3>1. data[s].ver <= th[t].ver + 1 /\ th[t].ver <= data[s].ver + 1
      BY <1>4, <1>8, <2>1, <2>2, <2>3
    <3>. QED  BY <2>1, <2>2, <2>3, <3>1
  <2>. QED  BY <1>1, <1>4, <1>5, <1>8, <2>1, <2>4
<1>9. ASSUME NEW h \in Guard, guard[h] # None, guard[h].by = t, guard'[g] = guard[h]
      PROVE  data'[s].ver = guard'[g].ver /\ Knows(view'[w], data'[s].written)
  BY <1>1, <1>4, <1>6, <1>9
<1>10. CASE /\ guard[g] # None /\ guard'[g].by = t /\ guard'[g].idx = guard[g].idx
            /\ guard'[g].ver = guard[g].ver /\ Below(view[guard[g].by], view'[t])
  <2>1. guard[g].by \in Thread  BY <1>0, <1>10 DEF Locals, GuardState
  <2>. QED  BY <1>4, <1>6, <1>10, <2>1
<1>. QED  BY <1>0, <1>4, <1>7, <1>8, <1>9, <1>10, GuardMoves

LEMMA ChunkStep ==
  ASSUME OrderInv, NEW t \in Thread, Turn(t)
  PROVE  ChunkSees'
<1>0. /\ Memory /\ Locals /\ HeadsRead /\ RefsExact /\ LocalsSound /\ ChunkSees
  BY DEF OrderInv
<1>1. Last(Chunk) \in Nat \ {0}  BY <1>0, Lasts, Words
<1>2. NoClock' = NoClock  BY DEF NoClock
<1>3. CASE PushZeroed(t) /\ ~Allocated
  <2>1. /\ Last(Chunk)' = Last(Chunk) + 1 /\ BoundedNext(NextView(Chunk))
        /\ \A u \in Thread \ {t} : zeroed'[u] = zeroed[u]
        /\ zeroed'[t] <= NextView(Chunk)[t]
    BY <1>0, <1>3, PushZeroedMoves
  <2>2. Allocated'  BY <1>1, <2>1 DEF Allocated
  <2>3. \A u \in Thread : zeroed[u] = 0  BY <1>0, <1>3 DEF ChunkSees, NoClock
  <2>4. \A u \in Thread : NextView(Chunk)[u] \in Nat  BY <2>1 DEF BoundedNext, View, Known
  <2>5. \A u \in Thread : zeroed'[u] <= NextView(Chunk)[u]  BY <2>1, <2>3, <2>4
  <2>. QED  BY <2>2, <2>5 DEF ChunkSees, Knows, LastView, NextView, Last
<1>4. CASE ~(PushZeroed(t) /\ ~Allocated)
  <2>1. zeroed' = zeroed /\ ChunkKept /\ (Allocated' <=> Allocated)
    BY <1>0, <1>4, ZeroingMoves
  <2>2. CASE Allocated
    <3>1. Knows(LastView(Chunk), zeroed)  BY <1>0, <2>2 DEF ChunkSees
    <3>2. Knows(LastView(Chunk)', zeroed')  BY <2>1, <3>1 DEF ChunkKept
    <3>. QED  BY <2>1, <2>2, <3>2 DEF ChunkSees, Knows
  <2>3. CASE ~Allocated
    <3>1. len' = len  BY <1>0, <1>4, <2>3, Length
    <3>. QED  BY <1>0, <1>2, <2>1, <2>3, <3>1 DEF ChunkSees
  <2>. QED  BY <2>2, <2>3
<1>. QED  BY <1>3, <1>4

\* Whoever is inside the vector has found the chunk.
LEMMA Inside ==
  ASSUME Memory, Locals, HeadsRead, LocalsSound, NEW u \in Thread,
         th[u].pc \notin {"idle", "push_zeroed"}, len = 0
  PROVE  FALSE
<1>1. th[u].idx \in Slot /\ th[u].pc \in PC /\ th[u].head \in TaggedIndex
  BY DEF Locals, ThreadState
<1>2. \A s \in Slot : ~(s < 0)  BY DEF Slot
<1>3. CASE th[u].pc \in OwnerPC \cup {"check", "dec"}  BY <1>1, <1>2, <1>3 DEF LocalsSound
<1>4. CASE th[u].pc \in {"pop_next", "pop_swap"}
  <2>1. /\ th[u].head.tag < Last(FreeHead) /\ th[u].head.tag \in Nat
        /\ mem[FreeHead][th[u].head.tag + 1].val = th[u].head
        /\ th[u].head.idx # SENTINEL /\ th[u].head.idx \in Slot
    BY <1>1, <1>4 DEF HeadsRead, TaggedIndex
  <2>2. th[u].head.tag + 1 \in 1 .. Last(FreeHead)  BY <2>1, Lasts, Words
  <2>3. th[u].head.idx < len  BY <2>1, <2>2 DEF Memory
  <2>. QED  BY <1>2, <2>1, <2>3
<1>. QED  BY <1>1, <1>3, <1>4 DEF PC, OwnerPC

\* How a thread comes to the words of a slot.
LEMMA Enters ==
  ASSUME Memory, Locals, HeadsRead, RefsExact, LocalsSound, NEW t \in Thread, Turn(t),
         th[t].pc \in {"idle", "push_zeroed", "pop_next"},
         th'[t].pc \notin {"idle", "push_zeroed", "pop_next"}
  PROVE  \/ PushZeroed(t)
         \/ PopReadNext(t) /\ th[t].pc = "pop_next"
         \/ \E s \in Slot, ver \in Asked, g \in Guard : AcquireGuard(t, s, ver, g)
         \/ \E s \in Slot : Remove(t, s)
         \/ Release(t)
<1>1. CASE Quiet(t)
  <2>1. ~(LoadVersion(t) \/ DropValue(t) \/ CallErr(t) \/ PushRetry(t) \/ PopRetry(t))
    BY DEF LoadVersion, DropValue, CallErr, PushRetry, PopRetry, At
  <2>2. ~BeginInsert(t)  BY PopFromMoves DEF BeginInsert
  <2>3. PopReadNext(t)  BY <1>1, <2>1, <2>2 DEF Quiet
  <2>. QED  BY <2>3 DEF PopReadNext, At
<1>2. CASE (\E g, h \in Guard : CloneGuard(t, g, h)) \/ \E g \in Guard : SendGuard(g, t)
  BY <1>2 DEF CloneGuard, SendGuard
<1>. QED
  BY <1>1, <1>2
  DEF Turn, At, PopSwap, StoreRef, StoreVersion, CheckVersion, PushStoreNext, PushSwap

LEMMA ZeroingStep ==
  ASSUME OrderInv, NEW t \in Thread, Turn(t)
  PROVE  ZeroingSeen'
<1>0. /\ Memory /\ Locals /\ HeadsRead /\ RefsExact /\ LocalsSound /\ ChunkSees
      /\ GuardsSee /\ ZeroingSeen
  BY DEF OrderInv
<1>1. /\ Below(view[t], view'[t]) /\ \A u \in Thread \ {t} : th'[u] = th[u] /\ view'[u] = view[u]
      /\ \A u \in Thread : view[u] \in View /\ view'[u] \in View
  BY <1>0, Alone DEF Advances, Locals
<1>2. zeroed \in Clock  BY <1>0 DEF Locals
<1>. SUFFICES ASSUME NEW u \in Thread, th'[u].pc \notin {"idle", "push_zeroed", "pop_next"}
     PROVE  Knows(view'[u], zeroed')
  BY DEF ZeroingSeen, Knows
<1>3. CASE PushZeroed(t) /\ ~Allocated
  <2>1. len = 0 /\ \A x \in Thread : zeroed[x] = 0  BY <1>0, <1>3 DEF ChunkSees, NoClock
  <2>2. u = t
    <3>1. CASE u # t
      <4>1. th[u].pc \notin {"idle", "push_zeroed", "pop_next"}  BY <1>1, <3>1
      <4>. QED  BY <1>0, <2>1, <4>1, Inside
    <3>. QED  BY <3>1
  <2>3. /\ \A x \in Thread \ {t} : zeroed'[x] = zeroed[x]
        /\ zeroed'[t] <= view'[t][t]
    BY <1>0, <1>3, PushZeroedMoves
  <2>4. \A x \in Thread : view'[t][x] \in Nat  BY <1>1 DEF View, Known
  <2>. QED  BY <2>1, <2>2, <2>3, <2>4 DEF Knows
<1>4. CASE ~(PushZeroed(t) /\ ~Allocated)
  <2>1. zeroed' = zeroed  BY <1>0, <1>4, ZeroingMoves
  <2>2. CASE u # t  BY <1>0, <1>1, <2>1, <2>2 DEF ZeroingSeen
  <2>3. CASE u = t /\ Knows(view[t], zeroed)  BY <1>1, <1>2, <2>1, <2>3, Later
  <2>4. CASE u = t /\ ~Knows(view[t], zeroed)
    <3>1. th[t].pc \in {"idle", "push_zeroed", "pop_next"}  BY <1>0, <2>4 DEF ZeroingSeen
    <3>2. ASSUME Allocated, Below(LastView(Chunk), view'[t])  PROVE Knows(view'[t], zeroed)
      <4>1. Knows(LastView(Chunk), zeroed)  BY <1>0, <3>2 DEF ChunkSees
      <4>2. LastView(Chunk) \in View  BY <1>0, Lasts, Words
      <4>. QED  BY <1>1, <1>2, <3>2, <4>1, <4>2, Later
    <3>3. len # 0 => Allocated  BY <1>0 DEF ChunkSees
    <3>4. CASE PushZeroed(t)  BY <1>0, <1>4, <2>1, <2>4, <3>2, <3>4, PushZeroedMoves
    <3>5. CASE PopReadNext(t) /\ th[t].pc = "pop_next"
      <4>1. Below(LastView(Chunk), view'[t])  BY <1>0, <3>5, PopReadNextMoves
      <4>2. len # 0  BY <1>0, <3>5, Inside
      <4>. QED  BY <2>1, <2>4, <3>2, <3>3, <4>1, <4>2
    <3>6. ASSUME NEW s \in Slot,
                 \/ \E ver \in Asked, g \in Guard : AcquireGuard(t, s, ver, g)
                 \/ Remove(t, s)
          PROVE  Knows(view'[t], zeroed)
      <4>1. s < len /\ Below(LastView(Chunk), view'[t])
        BY <1>0, <3>6, AcquireMoves, RemoveMoves
      <4>2. len # 0  BY <4>1 DEF Slot
      <4>. QED  BY <3>2, <3>3, <4>1, <4>2
    <3>7. CASE Release(t)
      <4>1. PICK g \in Guard : guard[g] # None /\ guard[g].by = t
        BY <1>0, <3>1, <3>7, ReleaseMoves DEF At
      <4>. QED  BY <1>0, <2>4, <4>1 DEF GuardsSee
    <3>. QED  BY <1>0, <2>1, <2>4, <3>1, <3>4, <3>5, <3>6, <3>7, Enters
  <2>. QED  BY <2>2, <2>3, <2>4
<1>. QED  BY <1>3, <1>4

----------------------------------------------------------------------------
(* The invariant *)

LEMMA InitInv == Init => OrderInv
<1>. SUFFICES ASSUME Init  PROVE OrderInv
  OBVIOUS
<1>. DEFINE First(l) == Message(IF l = FreeHead THEN [tag |-> 0, idx |-> SENTINEL] ELSE 0,
                                Bottom, FALSE)
<1>1. /\ mem = [l \in Word |-> <<First(l)>>] /\ view = [t \in Thread |-> Bottom] /\ len = 0
      /\ th = [t \in Thread |-> Idle] /\ guard = [g \in Guard |-> None] /\ left \in Budgets
      /\ data = [s \in Slot |-> [ver |-> 0, written |-> NoClock, used |-> NoClock]]
      /\ zeroed = NoClock
  BY DEF Init
<1>2. \A l \in Word : First(l) \in Messages(l)
  <2>1. [tag |-> 0, idx |-> SENTINEL] \in TaggedIndex  BY DEF TaggedIndex
  <2>. QED  BY <2>1, BottomLowest DEF Message, Messages
<1>3. ASSUME NEW l \in Word
      PROVE  /\ First(l).view = Bottom
             /\ l # FreeHead => First(l).val = 0
             /\ First(FreeHead).val = [tag |-> 0, idx |-> SENTINEL]
  BY DEF Message
<1>. HIDE DEF First
<1>4. ASSUME NEW l \in Word
      PROVE  /\ mem[l] = <<First(l)>> /\ mem[l] \in Seq(Messages(l)) /\ Last(l) = 1
             /\ mem[l][1] = First(l) /\ Latest(l) = First(l).val /\ LastView(l) = First(l).view
  BY <1>1, <1>2 DEF Last, Latest, LastView
<1>5. Bounded(Bottom)  BY <1>4, BottomLowest DEF Bounded
<1>6. /\ ListHead.tag = 0 /\ ListHead.idx = SENTINEL
      /\ \A s \in Slot : Refs(s) = 0 /\ ~Occupied(s)
  <2>1. ListHead.tag = 0 /\ ListHead.idx = SENTINEL  BY <1>3, <1>4, Words DEF ListHead
  <2>2. \A s \in Slot : Refs(s) = 0 /\ Latest(Version(s)) = 0  BY <1>3, <1>4, Words DEF Refs
  <2>. QED  BY <2>1, <2>2 DEF Occupied
<1>7. Memory
  <2>1. mem = [l \in Word |-> mem[l]]  BY <1>1
  <2>2. \A l \in Word : Bounded(mem[l][1].view)  BY <1>3, <1>4, <1>5
  <2>3. mem[FreeHead][1].val.tag = 0 /\ mem[FreeHead][1].val.idx = SENTINEL
    BY <1>3, <1>4, Words
  <2>4. \A s \in Slot : mem[Version(s)][1].val = 0 /\ mem[NextFree(s)][1].val = 0
    BY <1>3, <1>4, Words
  <2>5. \A l \in Word : Last(l) >= 1 /\ \A i \in 1 .. Last(l) : i = 1  BY <1>4
  <2>6. \A l \in Word : mem[l] \in Seq(Messages(l))  BY <1>4
  <2>7. \A l \in Word : \A i \in 1 .. Last(l) : Bounded(mem[l][i].view)  BY <2>2, <2>5
  <2>8. ASSUME NEW i \in 1 .. Last(FreeHead)
        PROVE  mem[FreeHead][i].val.tag = i - 1 /\ mem[FreeHead][i].val.idx = SENTINEL
    BY <2>3, <2>5, Words
  <2>9. ASSUME NEW s \in Slot
        PROVE  /\ \A i \in 1 .. Last(Version(s)) : mem[Version(s)][i].val = i - 1
               /\ \A i \in 1 .. Last(NextFree(s)) : mem[NextFree(s)][i].val \in Slot \cup {SENTINEL}
    BY <2>4, <2>5, Words, IdleState
  <2>. QED  BY <2>1, <2>5, <2>6, <2>7, <2>8, <2>9 DEF Memory
<1>8. \A t \in Thread : /\ view[t] = Bottom /\ th[t] = Idle /\ th[t].pc = "idle"
                        /\ th[t].out = None
  BY <1>1, IdleState
<1>9. NoClock \in Clock  BY DEF NoClock, Clock
<1>10. Locals
  <2>1. view \in [Thread -> View]  BY <1>1, BottomLowest
  <2>2. len \in 0 .. MaxSlots  BY <1>1, OrderingsAssumption
  <2>3. th \in [Thread -> ThreadState]  BY <1>1, IdleState
  <2>4. left \in [insert : Nat, get : Nat, slots : 1 .. MaxSlots]  BY <1>1, OrderingsAssumption
  <2>. QED  BY <1>1, <1>5, <1>8, <1>9, <2>1, <2>2, <2>3, <2>4 DEF Locals
<1>11. RefsExact
  <2>1. ASSUME NEW s \in Slot
        PROVE  Refs(s) = MapRef(s) + Cardinality(RefGuards(s)) + Cardinality(RefThreads(s))
    <3>1. RefGuards(s) = {} /\ RefThreads(s) = {}  BY <1>1, <1>8 DEF RefGuards, RefThreads, RefPC
    <3>2. Cardinality({}) = 0  BY FS_EmptySet
    <3>. QED  BY <1>6, <3>1, <3>2 DEF MapRef
  <2>. QED  BY <2>1 DEF RefsExact
<1>12. OwnersAlone /\ OwnersSee  BY <1>8 DEF OwnersAlone, OwnersSee, Owns, OwnerPC
<1>13. \A s \in Slot : ~Free(s)  BY <1>1 DEF Free, Slot
<1>14. ListSound /\ HeadSees  BY <1>6, <1>13 DEF ListSound, HeadSees
<1>15. Untouched  BY <1>1, <1>4, <1>6, Words DEF Untouched
<1>16. LocalsSound  BY <1>1, <1>8 DEF LocalsSound, OwnerPC, At
<1>17. HeadsRead /\ SuccessorCurrent  BY <1>8 DEF HeadsRead, SuccessorCurrent, At
<1>18. ContentCurrent /\ CountsSee  BY <1>6 DEF ContentCurrent, CountsSee
<1>19. GetsSee /\ VersionsSee  BY <1>6, <1>8 DEF GetsSee, VersionsSee, At, RefPC
<1>20. GuardsSee /\ GuardsSynchronized  BY <1>1 DEF GuardsSee, GuardsSynchronized
<1>21. ChunkSees /\ ZeroingSeen
  <2>1. ~Allocated  BY <1>4, Words DEF Allocated
  <2>. QED  BY <1>1, <1>8, <2>1 DEF ChunkSees, ZeroingSeen
<1>. QED
  BY <1>7, <1>10, <1>11, <1>12, <1>14, <1>15, <1>16, <1>17, <1>18, <1>19, <1>20, <1>21
  DEF OrderInv

LEMMA TurnInv ==
  ASSUME OrderInv, NEW t \in Thread, Turn(t)
  PROVE  OrderInv'
<1>0. /\ Memory /\ Locals /\ RefsExact /\ OwnersAlone /\ ListSound /\ Untouched
      /\ LocalsSound /\ HeadsRead /\ SuccessorCurrent
  BY DEF OrderInv
<1>1. Memory' /\ Locals' /\ RefsExact' /\ OwnersAlone'
  BY <1>0, MemoryStep, LocalsStep, RefsStep, OwnersStep
<1>2. ListSound' /\ Untouched' /\ LocalsSound' /\ HeadsRead'
  BY ListStep, UntouchedStep, LocalsSoundStep, HeadsReadStep
<1>3. SuccessorCurrent' /\ ContentCurrent' /\ OwnersSee' /\ HeadSees' /\ CountsSee'
  BY SuccessorStep, ContentStep, OwnersSeeStep, HeadSeesStep, CountsSeeStep
<1>4. GetsSee' /\ VersionsSee' /\ GuardsSee' /\ GuardsSynchronized' /\ ChunkSees' /\ ZeroingSeen'
  BY GetsSeeStep, VersionsSeeStep, GuardsSeeStep, SynchronizedStep, ChunkStep, ZeroingStep
<1>. QED  BY <1>1, <1>2, <1>3, <1>4 DEF OrderInv

LEMMA StutterInv == OrderInv /\ UNCHANGED vars => OrderInv'
<1>. SUFFICES ASSUME OrderInv, UNCHANGED vars  PROVE OrderInv'
  OBVIOUS
<1>1. /\ mem' = mem /\ view' = view /\ len' = len /\ th' = th /\ guard' = guard
      /\ left' = left /\ data' = data /\ zeroed' = zeroed
  BY DEF vars
<1>2. Memory' /\ Locals'
  BY <1>1 DEF OrderInv, Memory, Locals, Bounded, Last
<1>3. RefsExact' /\ OwnersAlone'
  BY <1>1
  DEF OrderInv, RefsExact, OwnersAlone, Refs, Occupied, MapRef, RefThreads, RefGuards, Owns,
      Last, Latest
<1>4. ListSound'
  BY <1>1 DEF OrderInv, ListSound, ListHead, Linked, Free, Refs, Occupied, Owns, Last, Latest
<1>5. Untouched' /\ LocalsSound' /\ HeadsRead'
  BY <1>1
  DEF OrderInv, Untouched, LocalsSound, HeadsRead, ListHead, Linked, Refs, Last, Latest, At
<1>6. SuccessorCurrent' /\ ContentCurrent' /\ OwnersSee'
  BY <1>1
  DEF OrderInv, SuccessorCurrent, ContentCurrent, OwnersSee, Owns, Full, Knows, Refs, Last,
      Latest, At
<1>7. HeadSees'
  BY <1>1 DEF OrderInv, HeadSees, Free, Full, Knows, LastView, Refs, Occupied, Owns, Last, Latest
<1>8. CountsSee'
  BY <1>1 DEF OrderInv, CountsSee, Knows, LastView, Refs, Occupied, Removal, Last, Latest, At
<1>9. GetsSee' /\ VersionsSee' /\ GuardsSee'
  BY <1>1
  DEF OrderInv, GetsSee, VersionsSee, GuardsSee, StoresKnown, Knows, LastView, Occupied, Last,
      Latest, At
<1>10. GuardsSynchronized' /\ ChunkSees' /\ ZeroingSeen'
  BY <1>1
  DEF OrderInv, GuardsSynchronized, ChunkSees, ZeroingSeen, Knows, LastView, Allocated, Last
<1>. QED  BY <1>2, <1>3, <1>4, <1>5, <1>6, <1>7, <1>8, <1>9, <1>10 DEF OrderInv

\* Every reachable state satisfies the invariant.
THEOREM OrderInvariance == Spec => []OrderInv
<1>1. Init => OrderInv  BY InitInv
<1>2. OrderInv /\ [Next]_vars => OrderInv'
  <2>1. ASSUME OrderInv, Next  PROVE OrderInv'
    <3>1. PICK t \in Thread : Turn(t)  BY <2>1, NextTurns
    <3>. QED  BY <2>1, <3>1, TurnInv
  <2>. QED  BY <2>1, StutterInv
<1>. QED  BY <1>1, <1>2, PTL DEF Spec

----------------------------------------------------------------------------
(* What follows from it *)

\* Every variable keeps its type, however many threads there are and however
\* many messages they have written.
THEOREM TypeCorrect == Spec => []OrderingsTypeOK
<1>1. OrderInv => OrderingsTypeOK
  <2>. SUFFICES ASSUME OrderInv  PROVE OrderingsTypeOK
    OBVIOUS
  <2>1. Memory /\ Locals  BY DEF OrderInv
  <2>2. ASSUME NEW l \in Word, NEW i \in 1 .. Last(l)
        PROVE  /\ mem[l][i].view \in View /\ mem[l][i].rmw \in BOOLEAN
               /\ mem[l][i].val \in IF l = FreeHead THEN TaggedIndex ELSE Nat
    <3>1. mem[l][i] \in Messages(l)  BY <2>1, Lasts
    <3>. QED  BY <3>1 DEF Messages
  <2>. QED  BY <2>1, <2>2 DEF OrderingsTypeOK, Locals, ThreadState, GuardState
<1>. QED  BY <1>1, OrderInvariance, PTL

\* No access to the content of a slot races with the destructor of the value
\* in it or with the next value written there (slot.rs:123-134,
\* lib.rs:376-381): the decrements release what was done under each reference,
\* the fence after the last one acquires it, and the head of the free list
\* passes it on.
THEOREM AccessesNeverRace == Spec => []AccessesOrdered
<1>1. OrderInv => AccessesOrdered
  <2>. SUFFICES ASSUME OrderInv, NEW t \in Thread, th[t].pc \in {"call", "drop_value"}
       PROVE  Knows(view[t], data[th[t].idx].used)
    BY DEF AccessesOrdered
  <2>1. OwnersSee /\ th[t].idx \in Slot  BY DEF OrderInv, Locals, ThreadState
  <2>. QED  BY <2>1 DEF OwnersSee, Owns, OwnerPC, At, Full
<1>. QED  BY <1>1, OrderInvariance, PTL

\* Whoever has a guard, on whichever thread, has the value of the guard's key
\* behind it, and no later insertion's (the acquiring exchange and the version
\* load of SlotGuard::new, the Relaxed increment of clone).
THEOREM GuardsSeeTheirValue == Spec => []GuardsSynchronized
<1>1. OrderInv => GuardsSynchronized  BY DEF OrderInv
<1>. QED  BY <1>1, OrderInvariance, PTL

\* No word of a slot is touched before the zeroing of its chunk is visible
\* (vec.rs:284).
THEOREM ZeroingAlwaysSeen == Spec => []ZeroingSeen
<1>1. OrderInv => ZeroingSeen  BY DEF OrderInv
<1>. QED  BY <1>1, OrderInvariance, PTL

\* The successor that a pop installs is the one its slot is linked to, although
\* it may have read an outdated one before (lib.rs:554-584).
THEOREM SuccessorAlwaysCurrent == Spec => []SuccessorCurrent
<1>1. OrderInv => SuccessorCurrent  BY DEF OrderInv
<1>. QED  BY <1>1, OrderInvariance, PTL

\* debug_assert_exclusively_owned never fails, whichever of the messages that
\* it may still read its two loads return.
THEOREM AssertsNeverFail == Spec => []AssertsHold
<1>1. OrderInv => AssertsHold
  <2>. SUFFICES ASSUME OrderInv, NEW t \in Thread,
                       th[t].pc \in {"load_version", "call", "drop_value", "push_next", "push_swap"}
       PROVE  /\ \A i \in Readable(view[t], RefCount(th[t].idx)) :
                   mem[RefCount(th[t].idx)][i].val = 0
              /\ \A i \in Readable(view[t], Version(th[t].idx)) :
                   mem[Version(th[t].idx)][i].val % 2 = 0
    BY DEF AssertsHold
  <2>1. Memory /\ OwnersAlone /\ OwnersSee /\ RefsExact /\ th[t].idx \in Slot
    BY DEF OrderInv, Locals, ThreadState
  <2>2. PICK s \in Slot : s = th[t].idx  BY <2>1
  <2>3. /\ view[t][RefCount(s)] = Last(RefCount(s)) /\ view[t][Version(s)] = Last(Version(s))
        /\ ~Occupied(s) /\ Refs(s) = 0
    BY <2>1, <2>2 DEF OwnersSee, OwnersAlone, Owns, OwnerPC, At, Full
  <2>4. Last(RefCount(s)) \in Nat /\ Last(Version(s)) \in Nat \ {0}  BY <2>1, Lasts, Words
  <2>5. ASSUME NEW i \in Readable(view[t], RefCount(s))  PROVE mem[RefCount(s)][i].val = 0
    <3>1. i = Last(RefCount(s))  BY <2>3, <2>4 DEF Readable
    <3>. QED  BY <2>3, <3>1 DEF Refs, Latest
  <2>6. ASSUME NEW i \in Readable(view[t], Version(s))  PROVE mem[Version(s)][i].val % 2 = 0
    <3>1. i = Last(Version(s))  BY <2>3, <2>4 DEF Readable
    <3>2. mem[Version(s)][i].val = Last(Version(s)) - 1  BY <2>1, <3>1, Values DEF Latest
    <3>3. Last(Version(s)) % 2 = 1  BY <2>1, <2>3, Occupancy
    <3>. QED  BY <2>4, <3>2, <3>3
  <2>. QED  BY <2>2, <2>5, <2>6
<1>. QED  BY <1>1, OrderInvariance, PTL

\* Every plain store goes behind all that was written to its word, and a
\* reference is given up only behind the store it was counted from: the
\* modification orders agree with the order of the operations.
THEOREM WritesAlwaysInOrder == Spec => []WritesInOrder
<1>1. OrderInv => WritesInOrder
  <2>. SUFFICES ASSUME OrderInv  PROVE WritesInOrder
    OBVIOUS
  <2>1. OwnersSee /\ GetsSee /\ GuardsSee /\ \A t \in Thread : th[t].idx \in Slot
    BY DEF OrderInv, Locals, ThreadState
  <2>2. ASSUME NEW t \in Thread
        PROVE  /\ At(t, "load_version") => view[t][Version(th[t].idx)] = Last(Version(th[t].idx))
               /\ At(t, "call") => view[t][RefCount(th[t].idx)] = Last(RefCount(th[t].idx))
               /\ At(t, "store_version") => view[t][Version(th[t].idx)] = Last(Version(th[t].idx))
               /\ At(t, "push_next") => view[t][NextFree(th[t].idx)] = Last(NextFree(th[t].idx))
               /\ th[t].pc \in {"check", "dec"} => StoresKnown(view[t], RefCount(th[t].idx))
    <3>1. th[t].pc \in OwnerPC => Owns(t, th[t].idx)  BY <2>1 DEF Owns
    <3>2. /\ At(t, "load_version") => view[t][Version(th[t].idx)] = Last(Version(th[t].idx))
          /\ At(t, "call") => view[t][RefCount(th[t].idx)] = Last(RefCount(th[t].idx))
          /\ At(t, "store_version") => view[t][Version(th[t].idx)] = Last(Version(th[t].idx))
          /\ At(t, "push_next") => view[t][NextFree(th[t].idx)] = Last(NextFree(th[t].idx))
      BY <2>1, <3>1 DEF OwnersSee, OwnerPC, At, Full
    <3>3. th[t].pc \in {"check", "dec"} => StoresKnown(view[t], RefCount(th[t].idx))
      BY <2>1 DEF GetsSee, RefPC
    <3>. QED  BY <3>2, <3>3
  <2>. QED  BY <2>1, <2>2 DEF WritesInOrder, GuardsSee
<1>. QED  BY <1>1, OrderInvariance, PTL
=============================================================================
