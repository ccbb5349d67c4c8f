----------------------------- MODULE MqttSession -----------------------------
(***************************************************************************)
(* The MQTT client together with the broker it talks to and the connection *)
(* between them.  The broker is not part of the repository: it is modelled *)
(* from what the client expects of it (and from tests/fake_broker.h): it   *)
(* handles packets in the order they were sent, answers CONNECT, keeps the *)
(* subscriptions of the session and acknowledges QoS 1 publishes.          *)
(***************************************************************************)
EXTENDS MqttClient

CONSTANT MaxPushes  \* bound: publishes the broker sends to the client

ASSUME BrokerAssumption == MaxPushes \in Nat

VARIABLES
    session,     \* the broker has accepted CONNECT on this connection
    brokerSubs,  \* the topics the broker holds for the client
    got,         \* the publishes the broker has received, in order
    pushes       \* history: publishes sent to the client

brokerVars == <<session, brokerSubs, got, pushes>>
vars == <<clientVars, brokerVars>>

Init ==
    /\ ClientInit
    /\ session = FALSE /\ brokerSubs = {} /\ got = <<>> /\ pushes = 0
-----------------------------------------------------------------------------
(* The broker.                                                             *)

clientOnly == <<upc, call, lpc, stopFlag, connected, pipeOpen, wake, txQueue,
                nextPacketId, subscriptions, droppedTx, npc, attempted, batch,
                pendingPubs, cursor, rxBuf, calls, starts, accepted, sent, repeated,
                acked>>

Incoming(types) == link = "up" /\ toBroker # <<>> /\ Head(toBroker).type \in types
Answer(pkt) == toClient' = Append(toClient, pkt)

\* A clean session starts without subscriptions.
BrokerConnect ==
    /\ Incoming({"Connect"})
    /\ toBroker' = Tail(toBroker)
    /\ \/ /\ session' = TRUE
          /\ brokerSubs' = IF CleanSession THEN {} ELSE brokerSubs
          /\ Answer(ConnackPkt(TRUE))
          /\ UNCHANGED faults
       \/ /\ Fault
          /\ Answer(ConnackPkt(FALSE))
          /\ UNCHANGED <<session, brokerSubs>>
    /\ UNCHANGED <<clientOnly, link, got, pushes>>

BrokerSubscription ==
    /\ Incoming({"Subscribe", "Unsubscribe", "Resubscribe"})
    /\ LET pkt == Head(toBroker) IN
       brokerSubs' = CASE pkt.type = "Subscribe"   -> brokerSubs \cup {pkt.topic}
                       [] pkt.type = "Unsubscribe" -> brokerSubs \ {pkt.topic}
                       [] pkt.type = "Resubscribe" -> brokerSubs \cup pkt.topics
    /\ toBroker' = Tail(toBroker)
    /\ Answer(OtherPkt)
    /\ UNCHANGED <<clientOnly, link, faults, session, got, pushes>>

BrokerPublish ==
    /\ Incoming({"Publish0", "Publish1"})
    /\ LET pkt == Head(toBroker) IN
       /\ got' = Append(got, [n |-> pkt.n, dup |-> pkt.dup])
       /\ IF pkt.type = "Publish1" THEN Answer(PubackPkt(pkt.id, pkt.n)) ELSE UNCHANGED toClient
    /\ toBroker' = Tail(toBroker)
    /\ UNCHANGED <<clientOnly, link, faults, session, brokerSubs, pushes>>

BrokerPuback ==
    /\ Incoming({"Puback"})
    /\ toBroker' = Tail(toBroker)
    /\ UNCHANGED <<clientOnly, link, toClient, faults, brokerVars>>

BrokerReceives == BrokerConnect \/ BrokerSubscription \/ BrokerPublish \/ BrokerPuback

BrokerPushes ==
    /\ link = "up" /\ session /\ brokerSubs # {} /\ pushes < MaxPushes
    /\ pushes' = pushes + 1
    /\ \E qos \in {0, 1} : Answer(PublishPkt(qos))
    /\ UNCHANGED <<clientOnly, link, toBroker, faults, session, brokerSubs, got>>

BrokerMisbehaves ==
    /\ link = "up" /\ session
    /\ Fault
    /\ Answer(BadPkt)
    /\ UNCHANGED <<clientOnly, link, toBroker, brokerVars>>

\* The peer or the network goes away: what was on its way to the broker is
\* lost, what had arrived at the client can still be read.
LinkBreaks ==
    /\ link = "up"
    /\ Fault
    /\ link' = "broken"
    /\ toBroker' = <<>>
    /\ session' = FALSE
    /\ UNCHANGED <<clientOnly, toClient, brokerSubs, got, pushes>>

BrokerStep == BrokerReceives \/ BrokerPushes \/ BrokerMisbehaves \/ LinkBreaks

\* The broker's side of a connection ends with the connection.
ClientSide ==
    /\ ClientStep
    /\ session' = (session /\ link' # "none")
    /\ UNCHANGED <<brokerSubs, got, pushes>>

Next == ClientSide \/ BrokerStep

Spec == Init /\ [][Next]_vars
-----------------------------------------------------------------------------
(* Fairness: the scheduler lets every thread run, a user thread finishes   *)
(* the call it has begun, and the broker reads what it was sent.  Nobody   *)
(* has to begin a call, and faults need not happen.                        *)

FinishCall(u) == TakePacketId(u) \/ EnqueuePacket(u) \/ WakeAfterEnqueue(u)

Fairness ==
    /\ WF_vars(NetworkStep /\ ClientSide)
    /\ WF_vars((StopWake \/ StopJoin) /\ ClientSide)
    /\ \A u \in Users : WF_vars(FinishCall(u) /\ ClientSide)
    /\ WF_vars(BrokerReceives)

FairSpec == Spec /\ Fairness
-----------------------------------------------------------------------------
(* Properties.                                                             *)

NetworkStates == {"none", "top", "backoff", "connect", "hello", "connack",
                  "announce", "resubscribe", "drain", "send", "timers", "poll",
                  "handle", "disconnect", "lost", "cleanup", "left", "closepipe",
                  "done"}

\* Every variable has values of its kind.
TypeOK ==
    /\ upc \in [Users -> {"idle", "alloc", "enqueue", "wake"}]
    /\ call \in [Users -> Call]
    /\ lpc \in {"idle", "wake", "join"}
    /\ stopFlag \in BOOLEAN /\ connected \in BOOLEAN
    /\ pipeOpen \in BOOLEAN /\ wake \in BOOLEAN
    /\ txQueue \in Seq(TxItem)
    /\ nextPacketId \in 1 .. MaxPacketId
    /\ subscriptions \subseteq Topics
    /\ droppedTx \in Nat /\ accepted \in Nat
    /\ npc \in NetworkStates
    /\ attempted \in BOOLEAN
    /\ batch \in Seq(TxItem)
    /\ pendingPubs \in Seq(PendingPub)
    /\ cursor \in Nat \ {0}
    /\ link \in {"none", "up", "broken"}
    /\ sent \in Seq(TxItem) /\ repeated \subseteq Nat

\* The wake-up pipe does its work for the queue: when the network thread is
\* about to block in poll() while a packet is waiting, there is a byte in the
\* pipe or a user thread on its way to write one (mqtt_client.cpp: enqueue and
\* wakePipe, against drainWakePipe and drainTxQueue).
WakeupForQueue ==
    npc = "poll" /\ txQueue # <<>> => wake \/ \E u \in Users : upc[u] = "wake"

\* The same for stop(): no wait of the network thread can begin after the stop
\* request unless there is a byte to end it (header comment 7).
WakeupForStop ==
    npc \in {"backoff", "connect", "connack", "poll"} /\ stopFlag => wake \/ lpc = "wake"

\* No wait of the network thread outlasts what it should react to.
WaitsAreWoken == WakeupForQueue /\ WakeupForStop

\* isConnected() follows the socket (mqtt_client.cpp:302, :321-323, :841-842).
\* The flag is cleared after the socket is closed, without a lock, so a user can
\* read TRUE when there is no connection; but only until the network thread takes
\* its next step, and never while it waits in the back-off, in connect or, as long
\* as the peer is there, for CONNACK.  Apart from that step TRUE means a socket and,
\* as long as the peer is there, an accepted session; and while the thread serves a
\* session it is TRUE.
ConnectedIsHonest ==
    /\ connected => \/ npc \in {"lost", "left"}
                    \/ link # "none" /\ (link = "up" => session)
    /\ npc \in {"resubscribe", "drain", "send", "timers", "poll", "handle"} => connected

\* What the broker sees of the publishes: in the order the queue accepted
\* them, and anything that comes again or late is marked DUP and comes at most
\* once more, whatever was requeued, resent or lost in between.
DeliveryOrder ==
    /\ \A i, j \in DOMAIN got : i < j /\ ~got[j].dup => got[i].n < got[j].n
    /\ \A i, j \in DOMAIN got : i # j /\ got[i].n = got[j].n => got[i].dup # got[j].dup

\* A publish counted as acknowledged has reached the broker.  Identifiers may wrap
\* around onto publishes that are still pending; the one thing that confuses
\* handlePuback is a publish sent twice, and so acknowledged twice, whose
\* identifier another publish has too.
AckIsGenuine == \A n \in acked : \E i \in DOMAIN got : got[i].n = n
RepeatsUnshared ==
    \A i, j \in DOMAIN sent :
        /\ sent[i].type = "Publish1" /\ sent[j].type = "Publish1"
        /\ sent[i].id = sent[j].id /\ sent[i].n \in repeated
            => i = j
AckedWasReceived == RepeatsUnshared => AckIsGenuine

\* What the client reports to its user, the flag and the count of publishes
\* acknowledged, is so.
HonestReports == ConnectedIsHonest /\ AckedWasReceived

\* Connected, with nothing left to do on either side.
Settled ==
    /\ connected /\ link = "up" /\ npc = "poll"
    /\ txQueue = <<>> /\ toBroker = <<>>
    /\ \A u \in Users : upc[u] = "idle"

\* No subscription is lost between the two ways it can reach the broker, the
\* queue and resubscribeAll: once things settle the broker holds every topic
\* of the table, unless a full queue has dropped a packet.
SubscriptionsHeld == Settled /\ droppedTx = 0 => subscriptions \subseteq brokerSubs

\* What the comment at mqtt_client.cpp:469 promises: the broker holds exactly
\* the topics of the table.  The code does not keep it when an unsubscribe and
\* a reconnection meet.  Not carried as a run; see the README.
SubscriptionsRebuilt == Settled /\ droppedTx = 0 => brokerSubs = subscriptions

\* The transmit path implements MqttOutbox.
Ranked(items) ==
    [i \in DOMAIN items |-> [n |-> items[i].n, pub |-> ~IsSubscription(items[i])]]
Outbox == INSTANCE MqttOutbox WITH
    outbox <- Ranked(batch \o txQueue),
    wire <- [i \in DOMAIN sent |-> sent[i].n],
    epoch <- starts
OutboxSpec == Outbox!Spec

\* An accepted packet of a running client is sent (or passed over), unless the
\* client is stopped: no reconnection loses it or starves it.
Waiting(n) == \E i \in DOMAIN (batch \o txQueue) : (batch \o txQueue)[i].n = n
QueuedIsSent ==
    \A n \in 1 .. MaxCalls : (Waiting(n) /\ npc # "none") ~> (~Waiting(n) \/ stopFlag)

\* stop() returns, wherever the network thread was.
StopCompletes == (lpc # "idle") ~> (lpc = "idle")

(* Promised by docs/architecture.md:260, not kept by the code (README).     *)

\* A publish given up after its second deadline takes the connection with it.
GiveUpDisconnects == [][GiveUp => npc' = "disconnect"]_vars
=============================================================================
