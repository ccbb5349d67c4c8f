------------------------------ MODULE BoundedFifo ------------------------------
(***************************************************************************)
(* What a ring buffer promises (src/core/ring_buffer.h): a queue of at     *)
(* most Room items that come out in the order they went in, each to one    *)
(* consumer, or are lost together when the queue is cleared.               *)
(***************************************************************************)
EXTENDS Naturals, Sequences

CONSTANTS Threads, Values, Room

VARIABLES
    queue,
    out     \* the item each thread has popped last

fifoVars == <<queue, out>>

Init == queue = <<>> /\ out \in [Threads -> Values]

Put(v) ==
    /\ Len(queue) < Room
    /\ queue' = Append(queue, v)
    /\ UNCHANGED out

Take(t) ==
    /\ queue # <<>>
    /\ queue' = Tail(queue)
    /\ out' = [out EXCEPT ![t] = Head(queue)]

Clear == queue' = <<>> /\ UNCHANGED out

Next == (\E v \in Values : Put(v)) \/ (\E t \in Threads : Take(t)) \/ Clear

Spec == Init /\ [][Next]_fifoVars
=============================================================================
