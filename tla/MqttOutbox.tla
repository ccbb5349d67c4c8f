------------------------------ MODULE MqttOutbox ------------------------------
(***************************************************************************)
(* What the transmit path of the MQTT client promises: packets accepted by *)
(* the queue are handed to the connection one by one, in the order they    *)
(* were accepted.  No publish leaves the outbox unsent, except all of them *)
(* together when the client is started again; a subscription packet may be *)
(* passed over, because reconnecting rebuilds the subscriptions.           *)
(*                                                                         *)
(* MqttSession implements this with a shared queue, a private batch and    *)
(* the return of the unsent rest of the batch to the front of the queue.   *)
(***************************************************************************)
EXTENDS Naturals, Sequences

VARIABLES
    accepted,  \* number of packets accepted so far; gives each its rank
    outbox,    \* accepted and not yet sent: rank, and whether it is a publish
    wire,      \* the ranks sent so far, in order
    epoch      \* number of times the client was started

outboxVars == <<accepted, outbox, wire, epoch>>

Init ==
    /\ accepted = 0
    /\ outbox = <<>> /\ wire = <<>>
    /\ epoch = 0

Accept ==
    /\ accepted' = accepted + 1
    /\ \E pub \in BOOLEAN :
         outbox' = Append(outbox, [n |-> accepted + 1, pub |-> pub])
    /\ UNCHANGED <<wire, epoch>>

Send ==
    /\ outbox # <<>>
    /\ wire' = Append(wire, Head(outbox).n)
    /\ outbox' = Tail(outbox)
    /\ UNCHANGED <<accepted, epoch>>

PassOver ==
    /\ outbox # <<>> /\ ~Head(outbox).pub
    /\ outbox' = Tail(outbox)
    /\ UNCHANGED <<accepted, wire, epoch>>

Restart ==
    /\ epoch' = epoch + 1
    /\ outbox' = <<>>
    /\ UNCHANGED <<accepted, wire>>

Next == Accept \/ Send \/ PassOver \/ Restart

Spec == Init /\ [][Next]_outboxVars
=============================================================================
