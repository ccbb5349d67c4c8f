------------------------------ MODULE RingBuffer ------------------------------
(***************************************************************************)
(* The bounded queue between threads (src/core/ring_buffer.h): one mutex,  *)
(* two condition variables.  A critical section is one step; push() and    *)
(* pop() notify after they have released the mutex, which is another step. *)
(*                                                                         *)
(* A thread that waits sleeps until it is notified, its time is up or it   *)
(* wakes for no reason; in each case it looks at the queue again, under    *)
(* the mutex.  As the time-outs are the callers' a wait may end at any     *)
(* moment, and a wait that has been notified may be out of time too.       *)
(***************************************************************************)
EXTENDS Naturals, Sequences, FiniteSets

\* An operator introduced by "Mutant:" is not part of the model: it is what a
\* plausible bug would make of the definition that follows it.

CONSTANTS
    Threads, Values,
    Capacity   \* the argument of the constructor

ASSUME RingAssumption == Capacity \in Nat /\ IsFiniteSet(Threads)

VARIABLES
    buf, head, tail, count,
    pc,      \* what each thread does
    item,    \* the item it pushes
    out      \* the item it has popped last

ringVars == <<buf, head, tail, count, pc, item, out>>
slots == <<buf, head, tail, count>>

\* A capacity of zero is taken as one.
Cap == IF Capacity = 0 THEN 1 ELSE Capacity
Slots == 0 .. Cap - 1

RingInit ==
    /\ head = 0 /\ tail = 0 /\ count = 0
    /\ pc = [t \in Threads |-> "idle"]
    /\ \E default \in Values :
          /\ buf = [s \in Slots |-> default]
          /\ item = [t \in Threads |-> default]
          /\ out = [t \in Threads |-> default]

At(points) == {t \in Threads : pc[t] \in points}
Goto(t, point) == pc' = [pc EXCEPT ![t] = point]

\* Mutant: room for one item more.
HasRoomOff == count <= Cap
HasRoom == count < Cap
HasItem == count > 0

Insert(v) ==
    /\ buf' = [buf EXCEPT ![tail] = v]
    /\ tail' = (tail + 1) % Cap
    /\ count' = count + 1
    /\ UNCHANGED head

RemoveHead(t) ==
    /\ out' = [out EXCEPT ![t] = buf[head]]
    /\ head' = (head + 1) % Cap
    /\ count' = count - 1
    /\ UNCHANGED <<buf, tail>>

\* notify_one(): some thread that sleeps there wakes, if there is one.  `next`
\* is where the notifying thread goes.
NotifyOne(sleep, awake, t, next) ==
    \/ At({sleep}) = {} /\ Goto(t, next)
    \/ \E s \in At({sleep}) : pc' = [pc EXCEPT ![t] = next, ![s] = awake]
-----------------------------------------------------------------------------
(* push() and pop().                                                       *)

\* Mutant: pop() wakes consumers.
AfterRemoveSame(t) == NotifyOne("sleepItem", "wokenItem", t, "idle")
AfterRemove(t) == NotifyOne("sleepRoom", "wokenRoom", t, "idle")
AfterInsert(t) == NotifyOne("sleepItem", "wokenItem", t, "idle")

\* The first look at the queue, and the look after a wait.
Push(t, v) ==
    /\ pc[t] = "idle"
    /\ item' = [item EXCEPT ![t] = v]
    /\ IF HasRoom THEN Insert(v) /\ Goto(t, "inserted")
       ELSE Goto(t, "sleepRoom") /\ UNCHANGED slots
    /\ UNCHANGED out

PushAgain(t) ==
    /\ pc[t] = "wokenRoom"
    /\ IF HasRoom THEN Insert(item[t]) /\ Goto(t, "inserted")
       ELSE (Goto(t, "sleepRoom") \/ Goto(t, "idle")) /\ UNCHANGED slots
    /\ UNCHANGED <<item, out>>

Pop(t) ==
    /\ pc[t] = "idle"
    /\ IF HasItem THEN RemoveHead(t) /\ Goto(t, "removed")
       ELSE Goto(t, "sleepItem") /\ UNCHANGED <<slots, out>>
    /\ UNCHANGED item

PopAgain(t) ==
    /\ pc[t] = "wokenItem"
    /\ IF HasItem THEN RemoveHead(t) /\ Goto(t, "removed")
       ELSE (Goto(t, "sleepItem") \/ Goto(t, "idle")) /\ UNCHANGED <<slots, out>>
    /\ UNCHANGED item

\* The notification that push() and pop() send when the mutex is free again.
NotifyAfter(t) ==
    /\ \/ pc[t] = "inserted" /\ AfterInsert(t)
       \/ pc[t] = "removed" /\ AfterRemove(t)
    /\ UNCHANGED <<slots, item, out>>

\* The time is up, or there is no reason.
WakeUp(t) ==
    /\ \/ pc[t] = "sleepRoom" /\ Goto(t, "wokenRoom")
       \/ pc[t] = "sleepItem" /\ Goto(t, "wokenItem")
    /\ UNCHANGED <<slots, item, out>>
-----------------------------------------------------------------------------
(* The operations that do not wait; they notify under the mutex.           *)

TryPush(t, v) ==
    /\ pc[t] = "idle" /\ HasRoom
    /\ Insert(v) /\ AfterInsert(t)
    /\ UNCHANGED <<item, out>>

TryPop(t) ==
    /\ pc[t] = "idle" /\ HasItem
    /\ RemoveHead(t) /\ AfterRemove(t)
    /\ UNCHANGED item

\* notify_all() on notFull: consumers would find nothing.
WakenAll(t) ==
    pc' = [s \in Threads |-> IF pc[s] = "sleepRoom" THEN "wokenRoom" ELSE pc[s]]

Clear(t) ==
    /\ pc[t] = "idle"
    /\ head' = 0 /\ tail' = 0 /\ count' = 0
    /\ WakenAll(t)
    /\ UNCHANGED <<buf, item, out>>

Step(t) ==
    \/ \E v \in Values : Push(t, v) \/ TryPush(t, v)
    \/ PushAgain(t) \/ Pop(t) \/ PopAgain(t) \/ TryPop(t)
    \/ NotifyAfter(t) \/ WakeUp(t) \/ Clear(t)

Next == \E t \in Threads : Step(t)

Spec == RingInit /\ [][Next]_ringVars
-----------------------------------------------------------------------------
(* Properties.                                                             *)

Points == {"idle", "inserted", "removed", "sleepRoom", "wokenRoom",
           "sleepItem", "wokenItem"}

\* Every variable has values of its kind; the indices stay within the buffer.
TypeOK ==
    /\ buf \in [Slots -> Values]
    /\ head \in Slots /\ tail \in Slots /\ count \in 0 .. Cap
    /\ pc \in [Threads -> Points]
    /\ item \in [Threads -> Values] /\ out \in [Threads -> Values]

\* head, tail and count agree (the reason why TypeOK and FifoSpec hold).
TailFollows == tail = (head + count) % Cap

\* What is in the buffer, oldest first.
Contents == [i \in 1 .. count |-> buf[(head + i - 1) % Cap]]

Fifo == INSTANCE BoundedFifo WITH Room <- Cap, queue <- Contents, out <- out

\* The ring buffer is a bounded first-in first-out queue, whatever threads push,
\* pop, time out and clear at once (ring_buffer.h, 3 to 6).
FifoSpec == Fifo!Spec

\* The items and the free slots that nobody is on his way to take or has still to
\* announce: none as long as somebody sleeps for one.
ItemsCovered ==
    At({"sleepItem"}) # {} =>
        count <= Cardinality(At({"wokenItem", "inserted"}))
RoomCovered ==
    At({"sleepRoom"}) # {} =>
        Cap - count <= Cardinality(At({"wokenRoom", "removed"}))

\* Nobody sleeps beside something he could have: to every item there is then a
\* consumer that has been woken or a notification to come, and to every free slot
\* a producer (ring_buffer.h, 1 and 2: two condition variables and notify_one
\* lose no wake-up).
NoLostWakeup == ItemsCovered /\ RoomCovered
=============================================================================
