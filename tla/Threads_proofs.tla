--------------------------- MODULE Threads_proofs ---------------------------
(***************************************************************************)
(* Proofs about what the threads of the process are built with.            *)
(*                                                                         *)
(* The ring buffer, for every capacity and every set of threads: the       *)
(* indices stay in range, it is a bounded FIFO queue, and no wake-up is    *)
(* lost.  The periodic task: it does not outlive stop(), however its       *)
(* thread and the owner's calls are interleaved and whatever wakes the     *)
(* thread.  The program: no thread of it outlives what it uses, for every  *)
(* front end and whatever is typed, closed or signalled.                   *)
(***************************************************************************)
EXTENDS RingBuffer, Integers, FiniteSetTheorems, SequenceTheorems, PeriodicTask, Program, TLAPS

-----------------------------------------------------------------------------
(* The ring buffer.                                                        *)

\* A sequence with one element more, as a function.
LEMMA AppendIsFunction ==
    ASSUME NEW S, NEW q \in Seq(S), NEW v \in S, NEW n \in Nat, Len(q) = n
    PROVE  Append(q, v) = [i \in 1 .. n + 1 |-> IF i = n + 1 THEN v ELSE q[i]]
<1> DEFINE f == [i \in 1 .. n + 1 |-> IF i = n + 1 THEN v ELSE q[i]]
<1>1. f \in Seq(S) /\ Len(f) = n + 1
  BY LenProperties
<1>2. Append(q, v) \in Seq(S) /\ Len(Append(q, v)) = n + 1
  BY AppendProperties
<1>3. ASSUME NEW i \in 1 .. n + 1
      PROVE  Append(q, v)[i] = f[i]
  BY AppendProperties
<1> QED
  BY <1>1, <1>2, <1>3, SeqEqual

\* A sequence without its first element, as a function.
LEMMA TailIsFunction ==
    ASSUME NEW S, NEW q \in Seq(S), NEW n \in Nat, n > 0, Len(q) = n
    PROVE  Tail(q) = [i \in 1 .. n - 1 |-> q[i + 1]]
<1> DEFINE f == [i \in 1 .. n - 1 |-> q[i + 1]]
<1>1. q # <<>> /\ n - 1 \in Nat
  BY EmptySeq
<1>2. f \in Seq(S) /\ Len(f) = n - 1
  <2>1. \A i \in 1 .. n - 1 : q[i + 1] \in S
    BY LenProperties
  <2> QED
    BY <1>1, <2>1
<1>3. Tail(q) \in Seq(S) /\ Len(Tail(q)) = n - 1
  BY <1>1, HeadTailProperties
<1>4. ASSUME NEW i \in 1 .. n - 1
      PROVE  Tail(q)[i] = f[i]
  BY <1>1, HeadTailProperties
<1> QED
  BY <1>2, <1>3, <1>4, SeqEqual

\* There is a slot.
LEMMA CapIsPositive == Cap \in Nat /\ Cap > 0
BY RingAssumption DEF Cap

\* An index moves once round the ring at most.
LEMMA ModOnce ==
    ASSUME NEW c \in Nat, c > 0, NEW x \in Nat, x < 2 * c
    PROVE  x % c = IF x < c THEN x ELSE x - c
BY SMT

\* The same for a sum of two indices.
LEMMA ModSum ==
    ASSUME NEW c \in Nat, c > 0, NEW h \in Nat, NEW k \in Nat, h < c, k < c
    PROVE  (h + k) % c = IF h + k < c THEN h + k ELSE h + k - c
BY ModOnce

\* The inductive invariant of the buffer.
RingInv == TypeOK /\ TailFollows

\* Where an item goes relative to the head.
SlotOf(i) == IF head + i < Cap THEN head + i ELSE head + i - Cap

LEMMA SlotOfMod ==
    ASSUME TypeOK, NEW i \in 0 .. Cap
    PROVE  (head + i) % Cap = SlotOf(i) /\ SlotOf(i) \in Slots
<1>1. Cap \in Nat /\ Cap > 0
  BY CapIsPositive
<1>2. head \in Nat /\ head < Cap
  BY <1>1 DEF TypeOK, Slots
<1>3. (head + i) % Cap = SlotOf(i)
  BY <1>1, <1>2, ModOnce DEF SlotOf
<1> QED
  BY <1>1, <1>2, <1>3 DEF SlotOf, Slots

\* The index after s.
LEMMA NextSlot ==
    ASSUME NEW s \in Slots
    PROVE  (s + 1) % Cap = (IF s + 1 < Cap THEN s + 1 ELSE 0) /\ (s + 1) % Cap \in Slots
<1>1. Cap \in Nat /\ Cap > 0
  BY CapIsPositive
<1>2. (s + 1) % Cap = IF s + 1 < Cap THEN s + 1 ELSE s + 1 - Cap
  BY <1>1, ModOnce DEF Slots
<1> QED
  BY <1>1, <1>2 DEF Slots

LEMMA ContentsType ==
    ASSUME TypeOK
    PROVE  Contents \in Seq(Values) /\ Len(Contents) = count
<1>1. \A i \in 1 .. count : buf[(head + i - 1) % Cap] \in Values
  <2> TAKE i \in 1 .. count
  <2>1. i - 1 \in 0 .. Cap /\ head + i - 1 = head + (i - 1)
    BY CapIsPositive DEF TypeOK, Slots
  <2>2. (head + i - 1) % Cap \in Slots
    BY <2>1, SlotOfMod
  <2> QED
    BY <2>2 DEF TypeOK
<1>2. count \in Nat
  BY DEF TypeOK
<1> QED
  BY <1>1, <1>2 DEF Contents

\* Insert() keeps the invariant and appends to the queue.
LEMMA InsertAppends ==
    ASSUME RingInv, HasRoom, NEW v \in Values, Insert(v)
    PROVE  /\ buf' \in [Slots -> Values] /\ head' \in Slots /\ tail' \in Slots
           /\ count' \in 0 .. Cap /\ count' = count + 1
           /\ TailFollows'
           /\ Contents' = Append(Contents, v)
<1>1. /\ Cap \in Nat /\ Cap > 0 /\ head \in Slots /\ tail \in Slots
      /\ count \in Nat /\ count < Cap /\ buf \in [Slots -> Values]
  BY CapIsPositive DEF RingInv, TypeOK, HasRoom
<1>2. /\ buf' = [buf EXCEPT ![tail] = v] /\ tail' = (tail + 1) % Cap
      /\ count' = count + 1 /\ head' = head
  BY DEF Insert
<1>3. tail = SlotOf(count)
  BY <1>1, SlotOfMod DEF RingInv, TailFollows
<1>4. tail' = (IF tail + 1 < Cap THEN tail + 1 ELSE 0) /\ tail' \in Slots
  BY <1>1, <1>2, NextSlot
<1>5. TailFollows'
  <2>1. (head + (count + 1)) % Cap = SlotOf(count + 1)
    BY <1>1, SlotOfMod DEF RingInv
  <2>2. SlotOf(count + 1) = IF tail + 1 < Cap THEN tail + 1 ELSE 0
    BY <1>1, <1>3 DEF SlotOf, Slots
  <2> QED
    BY <2>1, <2>2, <1>2, <1>4 DEF TailFollows, Cap
<1>6. Contents' = Append(Contents, v)
  <2>1. Contents' = [i \in 1 .. count + 1 |-> buf'[(head + i - 1) % Cap]]
    BY <1>2 DEF Contents, Cap
  <2>2. \A i \in 1 .. count : buf'[(head + i - 1) % Cap] = Contents[i]
    <3> TAKE i \in 1 .. count
    <3>1. head + i - 1 = head + (i - 1) /\ i - 1 \in 0 .. Cap
      BY <1>1 DEF Slots
    <3>2. (head + i - 1) % Cap = SlotOf(i - 1) /\ SlotOf(i - 1) \in Slots
      BY <3>1, SlotOfMod DEF RingInv
    <3>3. SlotOf(i - 1) # tail
      BY <1>1, <1>3 DEF SlotOf, Slots
    <3> QED
      BY <1>1, <1>2, <3>2, <3>3 DEF Contents
  <2>3. buf'[(head + (count + 1) - 1) % Cap] = v
    <3>1. head + (count + 1) - 1 = head + count
      BY <1>1 DEF Slots
    <3> QED
      BY <1>1, <1>2, <3>1 DEF RingInv, TailFollows
  <2>4. Contents \in Seq(Values) /\ Len(Contents) = count
    BY ContentsType DEF RingInv
  <2>5. Append(Contents, v) = [i \in 1 .. count + 1 |-> IF i = count + 1 THEN v ELSE Contents[i]]
    BY <1>1, <2>4, AppendIsFunction
  <2>6. \A i \in 1 .. count + 1 :
           buf'[(head + i - 1) % Cap] = IF i = count + 1 THEN v ELSE Contents[i]
    <3> TAKE i \in 1 .. count + 1
    <3>1. CASE i = count + 1
      BY <3>1, <2>3
    <3>2. CASE i # count + 1
      <4>1. i \in 1 .. count
        BY <3>2, <1>1
      <4> QED
        BY <4>1, <3>2, <2>2
    <3> QED
      BY <3>1, <3>2
  <2> QED
    BY <2>1, <2>5, <2>6, Zenon
<1>7. buf' \in [Slots -> Values] /\ count' \in 0 .. Cap
  BY <1>1, <1>2
<1> QED
  BY <1>1, <1>2, <1>4, <1>5, <1>6, <1>7

\* RemoveHead() keeps the invariant and takes the first of the queue.
LEMMA RemoveTakes ==
    ASSUME RingInv, HasItem, NEW t \in Threads, RemoveHead(t)
    PROVE  /\ head' \in Slots /\ count' \in 0 .. Cap /\ count' = count - 1
           /\ TailFollows' /\ out' \in [Threads -> Values]
           /\ Contents # <<>> /\ Contents' = Tail(Contents)
           /\ out' = [out EXCEPT ![t] = Head(Contents)]
<1>1. /\ Cap \in Nat /\ Cap > 0 /\ head \in Slots /\ tail \in Slots
      /\ count \in Nat /\ count > 0 /\ count <= Cap
      /\ buf \in [Slots -> Values] /\ out \in [Threads -> Values]
  BY CapIsPositive DEF RingInv, TypeOK, HasItem
<1>2. /\ out' = [out EXCEPT ![t] = buf[head]] /\ head' = (head + 1) % Cap
      /\ count' = count - 1 /\ buf' = buf /\ tail' = tail
  BY DEF RemoveHead
<1>3. head' = (IF head + 1 < Cap THEN head + 1 ELSE 0) /\ head' \in Slots
  BY <1>1, <1>2, NextSlot
<1>4. Contents \in Seq(Values) /\ Len(Contents) = count
  BY ContentsType DEF RingInv
<1>5. Head(Contents) = buf[head]
  <2>1. Contents[1] = buf[(head + 1 - 1) % Cap]
    BY <1>1 DEF Contents
  <2>2. (head + 0) % Cap = SlotOf(0)
    BY <1>1, SlotOfMod DEF RingInv
  <2>3. head + 1 - 1 = head + 0 /\ SlotOf(0) = head
    BY <1>1 DEF Slots, SlotOf
  <2> QED
    BY <1>1, <1>4, <2>1, <2>2, <2>3
\* The item at distance k from the new head was at distance k + 1.
<1>6. ASSUME NEW k \in 0 .. count - 1
      PROVE  (head' + k) % Cap = (head + (k + 1)) % Cap
  <2>1. (head + (k + 1)) % Cap = SlotOf(k + 1)
    BY <1>1, SlotOfMod DEF RingInv
  <2>2. (head' + k) % Cap = IF head' + k < Cap THEN head' + k ELSE head' + k - Cap
    BY <1>1, <1>3, ModSum DEF Slots
  <2> QED
    BY <1>1, <1>3, <2>1, <2>2 DEF SlotOf, Slots
<1>7. TailFollows'
  <2>1. (head' + (count - 1)) % Cap = (head + ((count - 1) + 1)) % Cap
    BY <1>1, <1>6
  <2>2. (count - 1) + 1 = count
    BY <1>1
  <2> QED
    BY <1>2, <2>1, <2>2 DEF TailFollows, RingInv, Cap
<1>8. Contents' = Tail(Contents)
  <2>1. Contents' = [i \in 1 .. count - 1 |-> buf[(head' + i - 1) % Cap]]
    BY <1>2 DEF Contents, Cap
  <2>2. Tail(Contents) = [i \in 1 .. count - 1 |-> Contents[i + 1]]
    BY <1>1, <1>4, TailIsFunction
  <2>3. \A i \in 1 .. count - 1 : buf[(head' + i - 1) % Cap] = Contents[i + 1]
    <3> TAKE i \in 1 .. count - 1
    <3>1. /\ i - 1 \in 0 .. count - 1 /\ i + 1 \in 1 .. count
          /\ head' + i - 1 = head' + (i - 1)
          /\ head + ((i - 1) + 1) = head + (i + 1) - 1
      BY <1>1, <1>3 DEF Slots
    <3>2. (head' + (i - 1)) % Cap = (head + ((i - 1) + 1)) % Cap
      BY <3>1, <1>6
    <3> QED
      BY <3>1, <3>2 DEF Contents
  <2> QED
    BY <2>1, <2>2, <2>3, Zenon
<1>9. Contents # <<>>
  BY <1>1, <1>4
<1>10. count' \in 0 .. Cap
  BY <1>1, <1>2
<1>11. out' \in [Threads -> Values]
  BY <1>1, <1>2
<1> QED
  BY <1>2, <1>3, <1>5, <1>7, <1>8, <1>9, <1>10, <1>11
-----------------------------------------------------------------------------
(* The state of the threads.                                               *)

LEMMA GotoType ==
    ASSUME pc \in [Threads -> Points], NEW t \in Threads, NEW point \in Points, Goto(t, point)
    PROVE  pc' \in [Threads -> Points]
BY DEF Goto

LEMMA NotifyType ==
    ASSUME pc \in [Threads -> Points], NEW t \in Threads, NEW next \in Points,
           NEW sleep, NEW awake \in Points, NotifyOne(sleep, awake, t, next)
    PROVE  pc' \in [Threads -> Points]
BY GotoType DEF NotifyOne, At

\* The buffer and the threads change together: what is left to show of a step.
LEMMA InsertKeeps ==
    ASSUME RingInv, HasRoom, NEW v \in Values, Insert(v), UNCHANGED out,
           item' \in [Threads -> Values], pc' \in [Threads -> Points]
    PROVE  RingInv' /\ Fifo!Put(v)
<1>1. Len(Contents) = count /\ count < Cap
  BY ContentsType DEF RingInv, HasRoom
<1>2. Fifo!Put(v)
  BY <1>1, InsertAppends DEF Fifo!Put
<1>3. TailFollows' /\ TypeOK'
  BY InsertAppends DEF RingInv, TypeOK, Slots, Cap
<1> QED
  BY <1>2, <1>3 DEF RingInv

LEMMA RemoveKeeps ==
    ASSUME RingInv, HasItem, NEW t \in Threads, RemoveHead(t), UNCHANGED item,
           pc' \in [Threads -> Points]
    PROVE  RingInv' /\ Fifo!Take(t)
<1>1. Fifo!Take(t)
  BY RemoveTakes DEF Fifo!Take
<1>2. TailFollows' /\ TypeOK'
  BY RemoveTakes DEF RingInv, TypeOK, RemoveHead, Slots, Cap
<1> QED
  BY <1>1, <1>2 DEF RingInv

LEMMA StillKeeps ==
    ASSUME RingInv, UNCHANGED <<slots, out>>, item' \in [Threads -> Values],
           pc' \in [Threads -> Points]
    PROVE  RingInv' /\ UNCHANGED <<Contents, out>>
BY DEF RingInv, TypeOK, TailFollows, Contents, slots, Slots, Cap

LEMMA ClearKeeps ==
    ASSUME RingInv, NEW t \in Threads, Clear(t)
    PROVE  RingInv' /\ Fifo!Clear
<1>1. pc' \in [Threads -> Points]
  BY DEF Clear, WakenAll, RingInv, TypeOK, Points
<1>2. head' = 0 /\ tail' = 0 /\ count' = 0 /\ UNCHANGED <<buf, item, out>>
  BY DEF Clear
<1>3. TypeOK'
  BY <1>1, <1>2, CapIsPositive DEF RingInv, TypeOK, Slots, Cap
<1>4. TailFollows'
  <2>1. (0 + 0) % Cap = 0
    BY CapIsPositive, ModOnce
  <2> QED
    BY <1>2, <2>1 DEF TailFollows, Cap
<1>5. Contents' = <<>>
  <2>1. Contents' = [i \in 1 .. 0 |-> buf'[(head' + i - 1) % Cap]]
    BY <1>2 DEF Contents, Cap
  <2>2. Contents' \in Seq(Values) /\ Len(Contents') = 0
    BY <2>1
  <2> QED
    BY <2>2, EmptySeq
<1> QED
  BY <1>2, <1>3, <1>4, <1>5 DEF RingInv, Fifo!Clear

\* Every step keeps the invariant, and is a step of the queue or none.
LEMMA RingStep ==
    ASSUME RingInv, [Next]_ringVars
    PROVE  RingInv' /\ [Fifo!Next]_(Fifo!fifoVars)
<1> USE DEF Points
<1>0. /\ pc \in [Threads -> Points] /\ item \in [Threads -> Values]
      /\ out \in [Threads -> Values]
  BY DEF RingInv, TypeOK
<1>1. CASE UNCHANGED ringVars
  <2>1. RingInv' /\ UNCHANGED <<Contents, out>>
    BY <1>0, <1>1, StillKeeps DEF ringVars, slots
  <2> QED
    BY <2>1 DEF Fifo!fifoVars
<1>2. ASSUME NEW t \in Threads, Step(t)
      PROVE  RingInv' /\ [Fifo!Next]_(Fifo!fifoVars)
  <2>1. ASSUME NEW v \in Values, Push(t, v)
        PROVE  RingInv' /\ [Fifo!Next]_(Fifo!fifoVars)
    <3>1. item' \in [Threads -> Values] /\ UNCHANGED out
      BY <1>0, <2>1 DEF Push
    <3>2. CASE HasRoom
      <4>1. Insert(v) /\ pc' \in [Threads -> Points]
        BY <1>0, <2>1, <3>2, GotoType DEF Push
      <4> QED
        BY <3>1, <3>2, <4>1, InsertKeeps DEF Fifo!Next
    <3>3. CASE ~HasRoom
      <4>1. UNCHANGED slots /\ pc' \in [Threads -> Points]
        BY <1>0, <2>1, <3>3, GotoType DEF Push
      <4> QED
        BY <3>1, <4>1, StillKeeps DEF Fifo!fifoVars
    <3> QED
      BY <3>2, <3>3
  <2>2. ASSUME NEW v \in Values, TryPush(t, v)
        PROVE  RingInv' /\ [Fifo!Next]_(Fifo!fifoVars)
    <3>1. HasRoom /\ Insert(v) /\ UNCHANGED <<item, out>>
      BY <2>2 DEF TryPush
    <3>2. pc' \in [Threads -> Points]
      BY <1>0, <2>2, NotifyType DEF TryPush, AfterInsert
    <3> QED
      BY <1>0, <3>1, <3>2, InsertKeeps DEF Fifo!Next
  <2>3. ASSUME PushAgain(t)
        PROVE  RingInv' /\ [Fifo!Next]_(Fifo!fifoVars)
    <3>1. UNCHANGED <<item, out>> /\ item[t] \in Values
      BY <1>0, <2>3 DEF PushAgain
    <3>2. CASE HasRoom
      <4>1. Insert(item[t]) /\ pc' \in [Threads -> Points]
        BY <1>0, <2>3, <3>2, GotoType DEF PushAgain
      <4> QED
        BY <1>0, <3>1, <3>2, <4>1, InsertKeeps DEF Fifo!Next
    <3>3. CASE ~HasRoom
      <4>1. UNCHANGED slots /\ pc' \in [Threads -> Points]
        BY <1>0, <2>3, <3>3, GotoType DEF PushAgain
      <4> QED
        BY <1>0, <3>1, <4>1, StillKeeps DEF Fifo!fifoVars
    <3> QED
      BY <3>2, <3>3
  <2>4. ASSUME Pop(t) \/ PopAgain(t)
        PROVE  RingInv' /\ [Fifo!Next]_(Fifo!fifoVars)
    <3>1. UNCHANGED item
      BY <2>4 DEF Pop, PopAgain
    <3>2. CASE HasItem
      <4>1. RemoveHead(t) /\ pc' \in [Threads -> Points]
        BY <1>0, <2>4, <3>2, GotoType DEF Pop, PopAgain
      <4> QED
        BY <3>1, <3>2, <4>1, RemoveKeeps DEF Fifo!Next
    <3>3. CASE ~HasItem
      <4>1. UNCHANGED <<slots, out>> /\ pc' \in [Threads -> Points]
        BY <1>0, <2>4, <3>3, GotoType DEF Pop, PopAgain
      <4> QED
        BY <1>0, <3>1, <4>1, StillKeeps DEF Fifo!fifoVars
    <3> QED
      BY <3>2, <3>3
  <2>5. ASSUME TryPop(t)
        PROVE  RingInv' /\ [Fifo!Next]_(Fifo!fifoVars)
    <3>1. HasItem /\ RemoveHead(t) /\ UNCHANGED item
      BY <2>5 DEF TryPop
    <3>2. pc' \in [Threads -> Points]
      BY <1>0, <2>5, NotifyType DEF TryPop, AfterRemove
    <3> QED
      BY <3>1, <3>2, RemoveKeeps DEF Fifo!Next
  <2>6. ASSUME NotifyAfter(t) \/ WakeUp(t)
        PROVE  RingInv' /\ [Fifo!Next]_(Fifo!fifoVars)
    <3>1. UNCHANGED <<slots, item, out>>
      BY <2>6 DEF NotifyAfter, WakeUp
    <3>2. pc' \in [Threads -> Points]
      BY <1>0, <2>6, GotoType, NotifyType DEF NotifyAfter, WakeUp, AfterInsert, AfterRemove
    <3> QED
      BY <1>0, <3>1, <3>2, StillKeeps DEF Fifo!fifoVars
  <2>7. CASE Clear(t)
    BY <2>7, ClearKeeps DEF Fifo!Next
  <2> QED
    BY <1>2, <2>1, <2>2, <2>3, <2>4, <2>5, <2>6, <2>7 DEF Step
<1> QED
  BY <1>1, <1>2 DEF Next

LEMMA RingStart ==
    ASSUME RingInit
    PROVE  RingInv /\ Fifo!Init
<1>1. TypeOK
  BY CapIsPositive DEF RingInit, TypeOK, Slots, Points
<1>2. TailFollows
  <2>1. (0 + 0) % Cap = 0
    BY CapIsPositive, ModOnce
  <2> QED
    BY <2>1 DEF RingInit, TailFollows
<1>3. Contents = <<>>
  BY <1>1, ContentsType, EmptySeq DEF RingInit
<1> QED
  BY <1>1, <1>2, <1>3 DEF RingInv, Fifo!Init, TypeOK
-----------------------------------------------------------------------------
\* The indices never leave the buffer, for any capacity, zero included.
THEOREM RingTypeCorrect == Spec => []TypeOK
<1>1. RingInit => RingInv
  BY RingStart
<1>2. RingInv /\ [Next]_ringVars => RingInv'
  BY RingStep
<1>3. RingInv => TypeOK
  BY DEF RingInv
<1> QED
  BY <1>1, <1>2, <1>3, PTL DEF Spec

\* The ring buffer implements the bounded FIFO queue: every critical section of
\* push(), pop(), tryPush(), tryPop() and clear() is one operation of the queue,
\* and every other step none.
THEOREM RingIsFifo == Spec => FifoSpec
<1>1. RingInit => RingInv /\ Fifo!Init
  BY RingStart
<1>2. RingInv /\ [Next]_ringVars => RingInv' /\ [Fifo!Next]_(Fifo!fifoVars)
  BY RingStep
<1> QED
  BY <1>1, <1>2, PTL DEF Spec, FifoSpec, Fifo!Spec
-----------------------------------------------------------------------------
(* No wake-up is lost.  Covered() is the shape of both parts of the        *)

(* property, and the lemmas say what may happen to it.                     *)

\* While somebody sleeps, each of n things has its helper.
Covered(sleepers, n, helpers) == sleepers # {} => n <= Cardinality(helpers)

LEMMA CoveredKept ==
    ASSUME NEW S, NEW H, NEW n \in Int, Covered(S, n, H),
           NEW S2 \in SUBSET S, NEW H2, H \subseteq H2, IsFiniteSet(H2),
           NEW m \in Int, m <= n
    PROVE  Covered(S2, m, H2)
<1>1. Cardinality(H) \in Nat /\ Cardinality(H2) \in Nat /\ Cardinality(H) <= Cardinality(H2)
  BY FS_Subset, FS_CardinalityType
<1> QED
  BY <1>1 DEF Covered

\* One more thing, one more helper.
LEMMA CoveredGrows ==
    ASSUME NEW S, NEW H, NEW n \in Int, Covered(S, n, H), IsFiniteSet(H),
           NEW S2 \in SUBSET S, NEW x, x \notin H
    PROVE  Covered(S2, n + 1, H \cup {x})
<1>1. Cardinality(H \cup {x}) = Cardinality(H) + 1 /\ Cardinality(H) \in Nat
  BY FS_AddElement, FS_CardinalityType
<1> QED
  BY <1>1 DEF Covered

\* A helper leaves with the thing he was there for.
LEMMA CoveredShrinks ==
    ASSUME NEW S, NEW H, NEW n \in Int, Covered(S, n, H), IsFiniteSet(H),
           NEW S2 \in SUBSET S, NEW x \in H
    PROVE  Covered(S2, n - 1, H \ {x})
<1>1. Cardinality(H \ {x}) = Cardinality(H) - 1 /\ Cardinality(H) \in Nat
  BY FS_RemoveElement, FS_CardinalityType
<1> QED
  BY <1>1 DEF Covered

\* A helper is relieved by another.
LEMMA CoveredPassed ==
    ASSUME NEW S, NEW H, NEW n \in Int, Covered(S, n, H), IsFiniteSet(H),
           NEW S2 \in SUBSET S, NEW x \in H, NEW y, y \notin H
    PROVE  Covered(S2, n, (H \ {x}) \cup {y})
<1>1. IsFiniteSet(H \ {x}) /\ Covered(S2, n - 1, H \ {x})
  BY CoveredShrinks, FS_RemoveElement
<1>2. Covered(S2, (n - 1) + 1, (H \ {x}) \cup {y})
  BY <1>1, CoveredGrows
<1>3. (n - 1) + 1 = n
  OBVIOUS
<1> QED
  BY <1>2, <1>3

\* Nothing has to be covered.
LEMMA CoveredNone ==
    ASSUME NEW S, NEW H, IsFiniteSet(H), NEW n \in Int, n <= 0
    PROVE  Covered(S, n, H)
BY FS_CardinalityType DEF Covered

SleepItem == {"sleepItem"}
SleepRoom == {"sleepRoom"}
HelpItem == {"wokenItem", "inserted"}
HelpRoom == {"wokenRoom", "removed"}

LEMMA AtFinite == \A P : IsFiniteSet(At(P)) /\ IsFiniteSet(At(P)')
BY RingAssumption, FS_Subset DEF At

LEMMA GotoAt ==
    ASSUME pc \in [Threads -> Points], NEW t \in Threads, NEW point, Goto(t, point), NEW P
    PROVE  At(P)' = IF point \in P THEN At(P) \cup {t} ELSE At(P) \ {t}
BY DEF At, Goto

\* Of the threads that sleep there, if any, one is woken.
LEMMA RoomNotifyAt ==
    ASSUME pc \in [Threads -> Points], NEW t \in Threads, AfterRemove(t), pc[t] # "sleepRoom"
    PROVE  \/ /\ At(SleepRoom) = {}
              /\ \A u \in Threads : pc'[u] = IF u = t THEN "idle" ELSE pc[u]
           \/ \E s \in Threads :
                 /\ pc[s] = "sleepRoom" /\ s # t
                 /\ \A u \in Threads : pc'[u] = IF u = s THEN "wokenRoom"
                                                ELSE IF u = t THEN "idle" ELSE pc[u]
<1>1. CASE At({"sleepRoom"}) = {} /\ Goto(t, "idle")
  BY <1>1 DEF Goto, SleepRoom
<1>2. ASSUME NEW s \in At({"sleepRoom"}), pc' = [pc EXCEPT ![t] = "idle", ![s] = "wokenRoom"]
      PROVE  /\ s \in Threads /\ pc[s] = "sleepRoom" /\ s # t
             /\ \A u \in Threads : pc'[u] = IF u = s THEN "wokenRoom"
                                            ELSE IF u = t THEN "idle" ELSE pc[u]
  BY <1>2 DEF At
<1> QED
  BY <1>1, <1>2 DEF AfterRemove, NotifyOne

LEMMA ItemNotifyAt ==
    ASSUME pc \in [Threads -> Points], NEW t \in Threads, AfterInsert(t), pc[t] # "sleepItem"
    PROVE  \/ /\ At(SleepItem) = {}
              /\ \A u \in Threads : pc'[u] = IF u = t THEN "idle" ELSE pc[u]
           \/ \E s \in Threads :
                 /\ pc[s] = "sleepItem" /\ s # t
                 /\ \A u \in Threads : pc'[u] = IF u = s THEN "wokenItem"
                                                ELSE IF u = t THEN "idle" ELSE pc[u]
<1>1. CASE At({"sleepItem"}) = {} /\ Goto(t, "idle")
  BY <1>1 DEF Goto, SleepItem
<1>2. ASSUME NEW s \in At({"sleepItem"}), pc' = [pc EXCEPT ![t] = "idle", ![s] = "wokenItem"]
      PROVE  /\ s \in Threads /\ pc[s] = "sleepItem" /\ s # t
             /\ \A u \in Threads : pc'[u] = IF u = s THEN "wokenItem"
                                            ELSE IF u = t THEN "idle" ELSE pc[u]
  BY <1>2 DEF At
<1> QED
  BY <1>1, <1>2 DEF AfterInsert, NotifyOne

\* Both parts, in the form of the lemmas above.
AllCovered ==
    /\ Covered(At(SleepItem), count, At(HelpItem))
    /\ Covered(At(SleepRoom), Cap - count, At(HelpRoom))

LEMMA AllCoveredIs == AllCovered <=> NoLostWakeup
BY DEF AllCovered, NoLostWakeup, ItemsCovered, RoomCovered, Covered, SleepItem, SleepRoom,
       HelpItem, HelpRoom

LEMMA InsertCovers ==
    ASSUME TypeOK, AllCovered, NEW t \in Threads, pc[t] \in {"idle", "wokenRoom"},
           Goto(t, "inserted"), count' = count + 1
    PROVE  AllCovered'
<1>1. count \in Int /\ Cap \in Int /\ pc \in [Threads -> Points]
  BY CapIsPositive DEF TypeOK
<1>2. Covered(At(SleepItem), count, At(HelpItem)) /\ Covered(At(SleepRoom), Cap - count, At(HelpRoom))
  BY DEF AllCovered
<1>3. Covered(At(SleepItem)', count + 1, At(HelpItem)')
  <2>1. At(SleepItem)' = At(SleepItem) \ {t} /\ At(HelpItem)' = At(HelpItem) \cup {t}
    BY <1>1, GotoAt DEF SleepItem, HelpItem
  <2>2. t \notin At(HelpItem)
    BY DEF At, HelpItem
  <2> QED
    BY <1>1, <1>2, <2>1, <2>2, CoveredGrows, AtFinite
<1>4. Covered(At(SleepRoom)', (Cap - count) - 1, At(HelpRoom)')
  <2>1. At(SleepRoom)' = At(SleepRoom) \ {t} /\ At(HelpRoom)' = At(HelpRoom) \ {t}
    BY <1>1, GotoAt DEF SleepRoom, HelpRoom
  <2>2. CASE t \in At(HelpRoom)
    BY <1>1, <1>2, <2>1, <2>2, CoveredShrinks, AtFinite
  <2>3. CASE t \notin At(HelpRoom)
    <3>1. At(HelpRoom) \subseteq At(HelpRoom)' /\ At(SleepRoom)' \in SUBSET At(SleepRoom)
      BY <2>1, <2>3
    <3>2. Cap - count \in Int /\ (Cap - count) - 1 \in Int /\ (Cap - count) - 1 <= Cap - count
      BY <1>1
    <3> QED
      BY <1>2, <3>1, <3>2, CoveredKept, AtFinite
  <2> QED
    BY <2>2, <2>3
<1>5. Cap' - count' = (Cap - count) - 1
  BY <1>1 DEF Cap
<1> QED
  BY <1>3, <1>4, <1>5 DEF AllCovered, SleepItem, SleepRoom, HelpItem, HelpRoom

LEMMA RemoveCovers ==
    ASSUME TypeOK, AllCovered, NEW t \in Threads, pc[t] \in {"idle", "wokenItem"},
           Goto(t, "removed"), count' = count - 1
    PROVE  AllCovered'
<1>1. count \in Int /\ Cap \in Int /\ pc \in [Threads -> Points]
  BY CapIsPositive DEF TypeOK
<1>2. Covered(At(SleepItem), count, At(HelpItem)) /\ Covered(At(SleepRoom), Cap - count, At(HelpRoom))
  BY DEF AllCovered
<1>3. Covered(At(SleepRoom)', (Cap - count) + 1, At(HelpRoom)')
  <2>1. At(SleepRoom)' = At(SleepRoom) \ {t} /\ At(HelpRoom)' = At(HelpRoom) \cup {t}
    BY <1>1, GotoAt DEF SleepRoom, HelpRoom
  <2>2. t \notin At(HelpRoom)
    BY DEF At, HelpRoom
  <2>3. Cap - count \in Int
    BY <1>1
  <2> QED
    BY <1>2, <2>1, <2>2, <2>3, CoveredGrows, AtFinite
<1>4. Covered(At(SleepItem)', count - 1, At(HelpItem)')
  <2>1. At(SleepItem)' = At(SleepItem) \ {t} /\ At(HelpItem)' = At(HelpItem) \ {t}
    BY <1>1, GotoAt DEF SleepItem, HelpItem
  <2>2. CASE t \in At(HelpItem)
    BY <1>1, <1>2, <2>1, <2>2, CoveredShrinks, AtFinite
  <2>3. CASE t \notin At(HelpItem)
    <3>1. At(HelpItem) \subseteq At(HelpItem)' /\ At(SleepItem)' \in SUBSET At(SleepItem)
      BY <2>1, <2>3
    <3>2. count - 1 \in Int /\ count - 1 <= count
      BY <1>1
    <3> QED
      BY <1>1, <1>2, <3>1, <3>2, CoveredKept, AtFinite
  <2> QED
    BY <2>2, <2>3
<1>5. Cap' - count' = (Cap - count) + 1
  BY <1>1 DEF Cap
<1> QED
  BY <1>3, <1>4, <1>5 DEF AllCovered, SleepItem, SleepRoom, HelpItem, HelpRoom

\* The threads move, the buffer does not.
LEMMA StillCovers ==
    ASSUME TypeOK, AllCovered, UNCHANGED count, 
           \/ Covered(At(SleepItem)', count, At(HelpItem)')
           \/ At(SleepItem)' \subseteq At(SleepItem) /\ At(HelpItem) \subseteq At(HelpItem)',
           \/ Covered(At(SleepRoom)', Cap - count, At(HelpRoom)')
           \/ At(SleepRoom)' \subseteq At(SleepRoom) /\ At(HelpRoom) \subseteq At(HelpRoom)'
    PROVE  AllCovered'
<1>1. count \in Int /\ Cap - count \in Int
  BY CapIsPositive DEF TypeOK
<1>2. Covered(At(SleepItem), count, At(HelpItem)) /\ Covered(At(SleepRoom), Cap - count, At(HelpRoom))
  BY DEF AllCovered
<1>3. Covered(At(SleepItem)', count, At(HelpItem)')
  BY <1>1, <1>2, CoveredKept, AtFinite
<1>4. Covered(At(SleepRoom)', Cap - count, At(HelpRoom)')
  BY <1>1, <1>2, CoveredKept, AtFinite
<1> QED
  BY <1>3, <1>4 DEF AllCovered, SleepItem, SleepRoom, HelpItem, HelpRoom, Cap

\* A notification for an item: nobody sleeps for one any more, or s has been
\* woken and may take the place of the notifying thread.
LEMMA ItemNotified ==
    ASSUME pc \in [Threads -> Points], NEW t \in Threads, pc[t] \in {"idle", "inserted"},
           AfterInsert(t)
    PROVE  /\ At(SleepRoom)' \subseteq At(SleepRoom) /\ At(HelpRoom) \subseteq At(HelpRoom)'
           /\ \/ At(SleepItem)' = {}
              \/ \E s \in Threads : /\ s \notin At(HelpItem) /\ s # t
                                    /\ At(SleepItem)' \subseteq At(SleepItem)
                                    /\ At(HelpItem)' = (At(HelpItem) \ {t}) \cup {s}
<1>1. CASE At(SleepItem) = {} /\ \A u \in Threads : pc'[u] = IF u = t THEN "idle" ELSE pc[u]
  BY <1>1 DEF At, SleepItem, SleepRoom, HelpRoom
<1>2. ASSUME NEW s \in Threads, pc[s] = "sleepItem", s # t,
             \A u \in Threads : pc'[u] = IF u = s THEN "wokenItem"
                                         ELSE IF u = t THEN "idle" ELSE pc[u]
      PROVE  /\ At(SleepRoom)' \subseteq At(SleepRoom) /\ At(HelpRoom) \subseteq At(HelpRoom)'
             /\ s \notin At(HelpItem) /\ At(SleepItem)' \subseteq At(SleepItem)
             /\ At(HelpItem)' = (At(HelpItem) \ {t}) \cup {s}
  BY <1>2 DEF At, SleepItem, SleepRoom, HelpItem, HelpRoom
<1>3. \/ At(SleepItem) = {} /\ \A u \in Threads : pc'[u] = IF u = t THEN "idle" ELSE pc[u]
      \/ \E s \in Threads : /\ pc[s] = "sleepItem" /\ s # t
                            /\ \A u \in Threads : pc'[u] = IF u = s THEN "wokenItem"
                                                            ELSE IF u = t THEN "idle" ELSE pc[u]
  BY ItemNotifyAt
<1> QED
  BY <1>1, <1>2, <1>3

LEMMA RoomNotified ==
    ASSUME pc \in [Threads -> Points], NEW t \in Threads, pc[t] \in {"idle", "removed"},
           AfterRemove(t)
    PROVE  /\ At(SleepItem)' \subseteq At(SleepItem) /\ At(HelpItem) \subseteq At(HelpItem)'
           /\ \/ At(SleepRoom)' = {}
              \/ \E s \in Threads : /\ s \notin At(HelpRoom) /\ s # t
                                    /\ At(SleepRoom)' \subseteq At(SleepRoom)
                                    /\ At(HelpRoom)' = (At(HelpRoom) \ {t}) \cup {s}
<1>1. CASE At(SleepRoom) = {} /\ \A u \in Threads : pc'[u] = IF u = t THEN "idle" ELSE pc[u]
  BY <1>1 DEF At, SleepItem, SleepRoom, HelpItem
<1>2. ASSUME NEW s \in Threads, pc[s] = "sleepRoom", s # t,
             \A u \in Threads : pc'[u] = IF u = s THEN "wokenRoom"
                                         ELSE IF u = t THEN "idle" ELSE pc[u]
      PROVE  /\ At(SleepItem)' \subseteq At(SleepItem) /\ At(HelpItem) \subseteq At(HelpItem)'
             /\ s \notin At(HelpRoom) /\ At(SleepRoom)' \subseteq At(SleepRoom)
             /\ At(HelpRoom)' = (At(HelpRoom) \ {t}) \cup {s}
  BY <1>2 DEF At, SleepItem, SleepRoom, HelpItem, HelpRoom
<1>3. \/ At(SleepRoom) = {} /\ \A u \in Threads : pc'[u] = IF u = t THEN "idle" ELSE pc[u]
      \/ \E s \in Threads : /\ pc[s] = "sleepRoom" /\ s # t
                            /\ \A u \in Threads : pc'[u] = IF u = s THEN "wokenRoom"
                                                            ELSE IF u = t THEN "idle" ELSE pc[u]
  BY RoomNotifyAt
<1> QED
  BY <1>1, <1>2, <1>3

\* push() and pop() have left their critical section before they notify.
LEMMA NotifyCovers ==
    ASSUME TypeOK, AllCovered, NEW t \in Threads, NotifyAfter(t)
    PROVE  AllCovered'
<1>0. /\ pc \in [Threads -> Points] /\ count \in Int /\ Cap - count \in Int
      /\ UNCHANGED count
      /\ IsFiniteSet(At(HelpItem)) /\ IsFiniteSet(At(HelpRoom))
  BY CapIsPositive, AtFinite DEF TypeOK, NotifyAfter, slots
<1>1. Covered(At(SleepItem), count, At(HelpItem)) /\ Covered(At(SleepRoom), Cap - count, At(HelpRoom))
  BY DEF AllCovered
<1>2. CASE pc[t] = "inserted" /\ AfterInsert(t)
  <2>1. t \in At(HelpItem)
    BY <1>2 DEF At, HelpItem
  <2>2. Covered(At(SleepItem)', count, At(HelpItem)')
    <3>1. CASE At(SleepItem)' = {}
      BY <3>1 DEF Covered
    <3>2. ASSUME NEW s \in Threads, s \notin At(HelpItem), At(SleepItem)' \subseteq At(SleepItem),
                 At(HelpItem)' = (At(HelpItem) \ {t}) \cup {s}
          PROVE  Covered(At(SleepItem)', count, At(HelpItem)')
      BY <1>0, <1>1, <2>1, <3>2, CoveredPassed
    <3> QED
      BY <1>0, <1>2, <3>1, <3>2, ItemNotified
  <2> QED
    BY <1>0, <1>2, <2>2, ItemNotified, StillCovers
<1>3. CASE pc[t] = "removed" /\ AfterRemove(t)
  <2>1. t \in At(HelpRoom)
    BY <1>3 DEF At, HelpRoom
  <2>2. Covered(At(SleepRoom)', Cap - count, At(HelpRoom)')
    <3>1. CASE At(SleepRoom)' = {}
      BY <3>1 DEF Covered
    <3>2. ASSUME NEW s \in Threads, s \notin At(HelpRoom), At(SleepRoom)' \subseteq At(SleepRoom),
                 At(HelpRoom)' = (At(HelpRoom) \ {t}) \cup {s}
          PROVE  Covered(At(SleepRoom)', Cap - count, At(HelpRoom)')
      BY <1>0, <1>1, <2>1, <3>2, CoveredPassed
    <3> QED
      BY <1>0, <1>3, <3>1, <3>2, RoomNotified
  <2> QED
    BY <1>0, <1>3, <2>2, RoomNotified, StillCovers
<1> QED
  BY <1>2, <1>3 DEF NotifyAfter

\* tryPush() and tryPop() notify in the critical section.
LEMMA TryPushCovers ==
    ASSUME TypeOK, AllCovered, NEW t \in Threads, pc[t] = "idle", AfterInsert(t),
           count' = count + 1
    PROVE  AllCovered'
<1>0. /\ pc \in [Threads -> Points] /\ count \in Int /\ Cap - count \in Int
      /\ Cap' - count' = (Cap - count) - 1 /\ (Cap - count) - 1 \in Int
      /\ (Cap - count) - 1 <= Cap - count
      /\ IsFiniteSet(At(HelpItem)) /\ IsFiniteSet(At(HelpRoom)')
  BY CapIsPositive, AtFinite DEF TypeOK, Cap
<1>1. Covered(At(SleepItem), count, At(HelpItem)) /\ Covered(At(SleepRoom), Cap - count, At(HelpRoom))
  BY DEF AllCovered
<1>2. Covered(At(SleepItem)', count + 1, At(HelpItem)')
  <2>1. t \notin At(HelpItem)
    BY DEF At, HelpItem
  <2>2. CASE At(SleepItem)' = {}
    BY <2>2 DEF Covered
  <2>3. ASSUME NEW s \in Threads, s \notin At(HelpItem), At(SleepItem)' \subseteq At(SleepItem),
               At(HelpItem)' = (At(HelpItem) \ {t}) \cup {s}
        PROVE  Covered(At(SleepItem)', count + 1, At(HelpItem)')
    <3>1. At(HelpItem)' = At(HelpItem) \cup {s}
      BY <2>1, <2>3
    <3> QED
      BY <1>0, <1>1, <2>3, <3>1, CoveredGrows
  <2> QED
    BY <1>0, <2>2, <2>3, ItemNotified
<1>3. Covered(At(SleepRoom)', (Cap - count) - 1, At(HelpRoom)')
  <2>1. At(SleepRoom)' \subseteq At(SleepRoom) /\ At(HelpRoom) \subseteq At(HelpRoom)'
    BY <1>0, ItemNotified
  <2> QED
    BY <1>0, <1>1, <2>1, CoveredKept
<1> QED
  BY <1>0, <1>2, <1>3 DEF AllCovered, SleepItem, SleepRoom, HelpItem, HelpRoom

LEMMA TryPopCovers ==
    ASSUME TypeOK, AllCovered, NEW t \in Threads, pc[t] = "idle", AfterRemove(t),
           count' = count - 1
    PROVE  AllCovered'
<1>0. /\ pc \in [Threads -> Points] /\ count \in Int /\ Cap - count \in Int
      /\ Cap' - count' = (Cap - count) + 1 /\ count - 1 \in Int /\ count - 1 <= count
      /\ IsFiniteSet(At(HelpRoom)) /\ IsFiniteSet(At(HelpItem)')
  BY CapIsPositive, AtFinite DEF TypeOK, Cap
<1>1. Covered(At(SleepItem), count, At(HelpItem)) /\ Covered(At(SleepRoom), Cap - count, At(HelpRoom))
  BY DEF AllCovered
<1>2. Covered(At(SleepRoom)', (Cap - count) + 1, At(HelpRoom)')
  <2>1. t \notin At(HelpRoom)
    BY DEF At, HelpRoom
  <2>2. CASE At(SleepRoom)' = {}
    BY <2>2 DEF Covered
  <2>3. ASSUME NEW s \in Threads, s \notin At(HelpRoom), At(SleepRoom)' \subseteq At(SleepRoom),
               At(HelpRoom)' = (At(HelpRoom) \ {t}) \cup {s}
        PROVE  Covered(At(SleepRoom)', (Cap - count) + 1, At(HelpRoom)')
    <3>1. At(HelpRoom)' = At(HelpRoom) \cup {s}
      BY <2>1, <2>3
    <3> QED
      BY <1>0, <1>1, <2>3, <3>1, CoveredGrows
  <2> QED
    BY <1>0, <2>2, <2>3, RoomNotified
<1>3. Covered(At(SleepItem)', count - 1, At(HelpItem)')
  <2>1. At(SleepItem)' \subseteq At(SleepItem) /\ At(HelpItem) \subseteq At(HelpItem)'
    BY <1>0, RoomNotified
  <2> QED
    BY <1>0, <1>1, <2>1, CoveredKept
<1> QED
  BY <1>0, <1>2, <1>3 DEF AllCovered, SleepItem, SleepRoom, HelpItem, HelpRoom

\* A thread that goes to sleep, or gives up, has found nothing.
LEMMA NoRoomCovers ==
    ASSUME TypeOK, AllCovered, NEW t \in Threads, pc[t] \in {"idle", "wokenRoom"}, ~HasRoom,
           NEW point \in {"sleepRoom", "idle"}, Goto(t, point), UNCHANGED count
    PROVE  AllCovered'
<1>1. pc \in [Threads -> Points] /\ Cap - count \in Int /\ Cap - count <= 0
  BY CapIsPositive DEF TypeOK, HasRoom
<1>2. Covered(At(SleepRoom)', Cap - count, At(HelpRoom)')
  BY <1>1, CoveredNone, AtFinite
<1>3. At(SleepItem)' \subseteq At(SleepItem) /\ At(HelpItem) \subseteq At(HelpItem)'
  BY <1>1 DEF At, Goto, SleepItem, HelpItem
<1> QED
  BY <1>2, <1>3, StillCovers

LEMMA NoItemCovers ==
    ASSUME TypeOK, AllCovered, NEW t \in Threads, pc[t] \in {"idle", "wokenItem"}, ~HasItem,
           NEW point \in {"sleepItem", "idle"}, Goto(t, point), UNCHANGED count
    PROVE  AllCovered'
<1>1. pc \in [Threads -> Points] /\ count \in Int /\ count <= 0
  BY DEF TypeOK, HasItem
<1>2. Covered(At(SleepItem)', count, At(HelpItem)')
  BY <1>1, CoveredNone, AtFinite
<1>3. At(SleepRoom)' \subseteq At(SleepRoom) /\ At(HelpRoom) \subseteq At(HelpRoom)'
  BY <1>1 DEF At, Goto, SleepRoom, HelpRoom
<1> QED
  BY <1>2, <1>3, StillCovers

LEMMA WakeUpCovers ==
    ASSUME TypeOK, AllCovered, NEW t \in Threads, WakeUp(t)
    PROVE  AllCovered'
<1>1. UNCHANGED count /\ pc \in [Threads -> Points]
  BY DEF WakeUp, slots, TypeOK
<1>2. /\ At(SleepItem)' \subseteq At(SleepItem) /\ At(HelpItem) \subseteq At(HelpItem)'
      /\ At(SleepRoom)' \subseteq At(SleepRoom) /\ At(HelpRoom) \subseteq At(HelpRoom)'
  BY <1>1 DEF WakeUp, At, Goto, SleepItem, SleepRoom, HelpItem, HelpRoom
<1> QED
  BY <1>1, <1>2, StillCovers

LEMMA ClearCovers ==
    ASSUME TypeOK, NEW t \in Threads, Clear(t)
    PROVE  AllCovered'
<1>1. count' = 0 /\ WakenAll(t)
  BY DEF Clear
<1>2. At(SleepRoom)' = {}
  BY <1>1 DEF WakenAll, At, SleepRoom
<1>3. Covered(At(SleepItem)', 0, At(HelpItem)')
  BY CoveredNone, AtFinite
<1> QED
  BY <1>1, <1>2, <1>3 DEF AllCovered, Covered, SleepItem, SleepRoom, HelpItem, HelpRoom

LEMMA StepCovers ==
    ASSUME RingInv, NoLostWakeup, [Next]_ringVars
    PROVE  NoLostWakeup'
<1>1. TypeOK /\ AllCovered
  BY AllCoveredIs DEF RingInv
<1>2. AllCovered'
  <2>1. CASE UNCHANGED ringVars
    BY <1>1, <2>1, StillCovers DEF ringVars, At, SleepItem, SleepRoom, HelpItem, HelpRoom
  <2>2. ASSUME NEW t \in Threads, NEW v \in Values, Push(t, v)
        PROVE  AllCovered'
    BY <1>1, <2>2, InsertCovers, NoRoomCovers DEF Push, Insert, slots
  <2>3. ASSUME NEW t \in Threads, NEW v \in Values, TryPush(t, v)
        PROVE  AllCovered'
    BY <1>1, <2>3, TryPushCovers DEF TryPush, Insert
  <2>4. ASSUME NEW t \in Threads, PushAgain(t)
        PROVE  AllCovered'
    BY <1>1, <2>4, InsertCovers, NoRoomCovers DEF PushAgain, Insert, slots
  <2>5. ASSUME NEW t \in Threads, Pop(t)
        PROVE  AllCovered'
    BY <1>1, <2>5, RemoveCovers, NoItemCovers DEF Pop, RemoveHead, slots
  <2>6. ASSUME NEW t \in Threads, PopAgain(t)
        PROVE  AllCovered'
    BY <1>1, <2>6, RemoveCovers, NoItemCovers DEF PopAgain, RemoveHead, slots
  <2>7. ASSUME NEW t \in Threads, TryPop(t)
        PROVE  AllCovered'
    BY <1>1, <2>7, TryPopCovers DEF TryPop, RemoveHead
  <2> QED
    BY <1>1, <2>1, <2>2, <2>3, <2>4, <2>5, <2>6, <2>7, NotifyCovers, WakeUpCovers, ClearCovers
    DEF Next, Step
<1>3. AllCovered' => NoLostWakeup'
  BY DEF AllCovered, NoLostWakeup, ItemsCovered, RoomCovered, Covered, SleepItem, SleepRoom,
         HelpItem, HelpRoom
<1> QED
  BY <1>2, <1>3

\* No wake-up is lost, for any capacity and any number of threads.
THEOREM NoWakeupIsLost == Spec => []NoLostWakeup
<1>1. RingInit => RingInv /\ NoLostWakeup
  <2>1. RingInit => NoLostWakeup
    BY DEF RingInit, NoLostWakeup, ItemsCovered, RoomCovered, At
  <2> QED
    BY <2>1, RingStart
<1>2. RingInv /\ NoLostWakeup /\ [Next]_ringVars => RingInv' /\ NoLostWakeup'
  BY RingStep, StepCovers
<1> QED
  BY <1>1, <1>2, PTL DEF Spec

-----------------------------------------------------------------------------
(* The periodic task.                                                      *)

TaskSpec == TaskInit /\ [][TaskNext]_taskVars

Ended == {"none", "done"}

\* A thread that has been joined has ended.  A thread that has begun a run after
\* the flag was set meets the flag when the run is over.
TaskInv ==
    /\ ~joinable => rpc \in Ended
    /\ opc = "launch" => rpc \in Ended
    /\ opc = "idle" /\ stop => rpc \in Ended
    /\ lateRuns \in {0, 1}
    /\ stop /\ lateRuns # 0 => rpc \in {"task", "look", "ending", "done"}

\* No step of the owner breaks the invariant: it joins before it forgets a thread.
LEMMA OwnerKeeps == ASSUME TaskInv, Start \/ Stop \/ OwnerStep PROVE TaskInv'
<1> USE DEF TaskInv, Ended, ownVars
<1>1. CASE Start BY <1>1 DEF Start, FlagBeforeJoin
<1>2. CASE Stop BY <1>2 DEF Stop
<1>3. CASE NotifyAll BY <1>3 DEF NotifyAll
<1>4. CASE Join BY <1>4 DEF Join
<1>5. CASE Launch BY <1>5 DEF Launch, FlagOfNewThread
<1> QED BY <1>1, <1>2, <1>3, <1>4, <1>5 DEF OwnerStep

\* Nor does one of the thread: what it does after the flag was set leads to its end.
LEMMA RunnerKeeps == ASSUME TaskInv, RunnerStep \/ SpuriousWakeup PROVE TaskInv'
<1> USE DEF TaskInv, Ended, ownVars
<1>1. CASE Begin \/ End BY <1>1 DEF Begin, End
<1>2. CASE Look BY <1>2 DEF Look, StopRequested
<1>3. CASE FallAsleep \/ PeriodOver \/ SpuriousWakeup
  BY <1>3 DEF FallAsleep, PeriodOver, SpuriousWakeup
<1>4. CASE TaskBegins BY <1>4 DEF TaskBegins
<1>5. CASE TaskReturns BY <1>5 DEF TaskReturns
<1> QED BY <1>1, <1>2, <1>3, <1>4, <1>5 DEF RunnerStep

\* Once the flag is set one run begins at most, the one that was due already, and
\* none after stop() has returned (PeriodicTask::stop and runLoop).
THEOREM TaskEndsInTime == TaskSpec => []LastRunOnly
<1>1. TaskInit => TaskInv BY DEF TaskInit, TaskInv, Ended
<1>2. TaskInv /\ [TaskNext]_taskVars => TaskInv'
  <2>1. TaskInv /\ TaskNext => TaskInv' BY OwnerKeeps, RunnerKeeps DEF TaskNext
  <2>2. TaskInv /\ UNCHANGED taskVars => TaskInv' BY DEF TaskInv, Ended, taskVars
  <2> QED BY <2>1, <2>2
<1>3. TaskInv => LastRunOnly BY DEF TaskInv, Ended, LastRunOnly
<1> QED BY <1>1, <1>2, <1>3, PTL DEF TaskSpec

-----------------------------------------------------------------------------
(* The program.                                                            *)

\* Where main() is while it has no window.
Windowless ==
    {"start", "wait", "select", "drainPipe", "lines", "watch", "drainInput", "openWindow"}

\* The polling thread belongs to the event loop of the window: it is started when
\* the window opens and joined before main() goes on to stop the gateway.
ThreadInv ==
    /\ mpc \in Windowless => worker = "none"
    /\ mpc \in {"destroyWindow", "stop"} => worker \in {"none", "done"}
    /\ worker \in {"polling", "asked"} => window = "open"
    /\ exit \in {0, 2} => acq = "done" /\ worker \in {"none", "done"}

\* Starting and stopping the gateway, and the wait for a signal, need no window.
LEMMA MainKeeps ==
    ASSUME ThreadInv, GatewayFails \/ GatewayStarts \/ SignalRead \/ Exit
    PROVE  ThreadInv'
<1> USE DEF ThreadInv, Windowless, windowVars
<1>1. CASE GatewayFails BY <1>1 DEF GatewayFails
<1>2. CASE GatewayStarts BY <1>2 DEF GatewayStarts, MainGoes, Alive, Running
<1>3. CASE SignalRead BY <1>3 DEF SignalRead, MainGoes
<1>4. CASE Exit BY <1>4 DEF Exit, AcqJoined
<1> QED BY <1>1, <1>2, <1>3, <1>4

\* Nor does the terminal.
LEMMA CliKeeps == ASSUME ThreadInv, CliStep PROVE ThreadInv'
<1> USE DEF ThreadInv, Windowless, windowVars, MainGoes
<1>1. CASE SelectSignal \/ DrainPipe \/ SelectInput
  BY <1>1 DEF SelectSignal, DrainPipe, SelectInput
<1>2. CASE SelectEof \/ LinesDone \/ WatchInput
  BY <1>2 DEF SelectEof, AtEof, LinesDone, WatchInput
<1>3. CASE HandleLine
  <2>1. mpc = "lines" /\ mpc' \in {"stop", "watch", "lines"}
    BY <1>3 DEF HandleLine
  <2>2. UNCHANGED <<exit, window, worker, acq>> BY <1>3 DEF HandleLine
  <2> QED BY <2>1, <2>2
<1>4. CASE DrainInput BY <1>4 DEF DrainInput
<1> QED BY <1>1, <1>2, <1>3, <1>4 DEF CliStep

\* The window starts its thread and waits for it before it ends.
LEMMA WindowKeeps ==
    ASSUME ThreadInv, OpenWindow \/ ExecReturns \/ Unsubscribe \/ WindowEnds
    PROVE  ThreadInv'
<1> USE DEF ThreadInv, Windowless, windowVars, MainGoes, Alive, Running
<1>1. CASE OpenWindow BY <1>1 DEF OpenWindow
<1>2. CASE ExecReturns BY <1>2 DEF ExecReturns
<1>3. CASE Unsubscribe BY <1>3 DEF Unsubscribe, WorkerJoined
<1>4. CASE WindowEnds BY <1>4 DEF WindowEnds
<1> QED BY <1>1, <1>2, <1>3, <1>4

\* The other threads and the user act on a program that runs, and start no thread.
LEMMA OthersKeep == ASSUME ThreadInv, AcqStep \/ WorkerEnds \/ UserStep PROVE ThreadInv'
<1> USE DEF ThreadInv, Windowless, windowVars, Alive, Running
<1>1. CASE AcqStep
  <2>1. exit = Running /\ UNCHANGED <<mpc, exit, window, worker>>
    BY <1>1 DEF AcqStep, AcqRound, AcqQuiet, AcqAlarm, AcqPublishes
  <2> QED BY <2>1
<1>2. CASE WorkerEnds BY <1>2 DEF WorkerEnds, WorkerSeesStop
<1>3. CASE (\E s \in Symbols : Type(s)) \/ HangUp \/ CloseWindow
  BY <1>3 DEF Type, HangUp, CloseWindow
<1>4. CASE Signal BY <1>4 DEF Signal
<1> QED BY <1>1, <1>2, <1>3, <1>4 DEF UserStep

\* The polling thread ends before its window, and every thread before main()
\* returns (the destructor of UiWorker; main).
THEOREM NoThreadIsLeft == ProgramSpec => []ThreadsEndFirst
<1>1. ProgramInit => ThreadInv BY DEF ProgramInit, ThreadInv, Windowless, Running
<1>2. ThreadInv /\ [ProgramNext]_programVars => ThreadInv'
  <2>1. ThreadInv /\ ProgramNext => ThreadInv'
    BY MainKeeps, CliKeeps, WindowKeeps, OthersKeep DEF ProgramNext, MainStep
  <2>2. ThreadInv /\ UNCHANGED programVars => ThreadInv'
    BY DEF ThreadInv, programVars, windowVars
  <2> QED BY <2>1, <2>2
<1>3. ThreadInv => ThreadsEndFirst BY DEF ThreadInv, ThreadsEndFirst
<1> QED BY <1>1, <1>2, <1>3, PTL DEF ProgramSpec
=============================================================================
