------------------------------ MODULE MqttClient ------------------------------
(***************************************************************************)
(* The MQTT client of src/net/mqtt_client.{h,cpp}: one network thread that *)
(* owns the socket, user threads that only put packets in a queue and      *)
(* write a byte to a wake-up pipe, and the thread that calls start() and   *)
(* stop().                                                                 *)
(*                                                                         *)
(* A step is one critical section, one access to a flag that another       *)
(* thread reads, or one exchange with the socket.  The connection is seen  *)
(* from the client: link says whether there is a socket and whether the    *)
(* peer is still there, toBroker and toClient are the packets in flight.   *)
(* What happens at the other end is in MqttSession.                        *)
(*                                                                         *)
(* Time is not modelled here: a deadline may pass at any moment, at the    *)
(* price of one unit of the budget MaxFaults.  MqttKeepalive has the       *)
(* clock: keepalive, the PINGRESP watchdog and the back-off.               *)
(***************************************************************************)
EXTENDS Naturals, Sequences

\* An operator introduced by "Mutant:" is not part of the model: it is what a
\* plausible bug would make of the definition that follows it, and serves to
\* show that the properties notice.

CONSTANTS
    Users,         \* the threads that call publish, subscribe, unsubscribe
    Topics,        \* the topic filters they subscribe to
    NoTopic,       \* the topic field of a PUBLISH, which is immaterial
    Kinds,         \* the calls they make, a subset of AllKinds
    CleanSession,  \* MqttConfig::cleanSession
    kMaxTxQueue,   \* capacity of the transmit queue (512 in the code)
    MaxPacketId,   \* largest packet identifier (65535 in the code)
    MaxCalls,      \* bound: calls made by all users together
    MaxStarts,     \* bound: calls of start()
    MaxFaults      \* bound: losses, refusals and expired deadlines

AllKinds == {"Publish0", "Publish1", "Subscribe", "Unsubscribe"}

ASSUME ClientAssumption ==
    /\ NoTopic \notin Topics
    /\ Kinds \subseteq AllKinds
    /\ CleanSession \in BOOLEAN
    /\ kMaxTxQueue \in Nat \ {0}
    /\ MaxPacketId \in Nat \ {0}
    /\ MaxCalls \in Nat /\ MaxStarts \in Nat /\ MaxFaults \in Nat

VARIABLES
    upc,           \* where each user thread is inside the call it makes
    call,          \* the packet that call is preparing
    lpc,           \* where the thread that starts and stops the client is
    stopFlag,      \* m_stop
    connected,     \* m_isConnected
    pipeOpen,      \* m_wakePipe is open
    wake,          \* the wake-up pipe holds at least one byte
    txQueue,       \* m_txQueue
    nextPacketId,  \* m_nextPacketId
    subscriptions, \* m_subscriptions
    droppedTx,     \* m_droppedTx
    npc,           \* where the network thread is
    attempted,     \* m_reconnectCount > 0
    batch,         \* what drainTxQueue has taken and not yet sent
    pendingPubs,   \* m_pendingPubs
    cursor,        \* position of the resend loop in pendingPubs
    rxBuf,         \* m_rxBuf, in whole packets
    link,          \* no socket, a live connection, or one the peer has left
    toBroker,      \* packets sent and not yet received by the broker
    toClient,      \* packets sent by the broker and not yet received
    calls,         \* history: number of calls made
    starts,        \* history: number of start() calls
    faults,        \* history: faults spent
    accepted,      \* history: number of packets accepted by the queue
    sent,          \* history: what drainTxQueue has sent, in order
    repeated,      \* history: the publishes sent again, by rank
    acked          \* history: the publishes counted by m_publishesAcked

userVars  == <<upc, call, calls>>
lifeVars  == <<lpc, stopFlag, starts>>
queueVars == <<txQueue, nextPacketId, subscriptions, droppedTx, accepted>>
wakeVars  == <<pipeOpen, wake>>
pubVars   == <<pendingPubs, cursor, acked, repeated>>
linkVars  == <<link, toBroker, toClient>>
clientVars == <<upc, call, lpc, stopFlag, connected, pipeOpen, wake, txQueue,
                nextPacketId, subscriptions, droppedTx, npc, attempted, batch,
                pendingPubs, cursor, rxBuf, link, toBroker, toClient, calls,
                starts, faults, accepted, sent, repeated, acked>>
-----------------------------------------------------------------------------
(* Packets.  A queued item carries the metadata of TxItem; n is its rank   *)
(* among the accepted items and stands for its bytes.                      *)

PacketIds == 0 .. MaxPacketId
Call == [type : AllKinds, topic : Topics \cup {NoTopic}, id : PacketIds]
NoCall == [type |-> "Publish0", topic |-> NoTopic, id |-> 0]
TxItem == [type : AllKinds, topic : Topics \cup {NoTopic}, id : PacketIds,
           online : BOOLEAN, n : Nat]
PendingPub == [item : TxItem, resent : BOOLEAN]

\* What travels to the broker.
ConnectPkt == [type |-> "Connect"]
AckPkt(id) == [type |-> "Puback", id |-> id]
ItemPkt(item, dup) == [type |-> item.type, topic |-> item.topic,
                       id |-> item.id, n |-> item.n, dup |-> dup]
ResubPkt(topics) == [type |-> "Resubscribe", topics |-> topics]

\* What travels to the client.  "Other" is SUBACK, UNSUBACK or PINGRESP,
\* "Bad" a packet that breaks the protocol, cannot be decoded or is longer than
\* the receive buffer may grow.  The rank n in a PUBACK says which publish the
\* broker answers; it is not on the wire and the client never reads it.
ConnackPkt(ok) == [type |-> "Connack", ok |-> ok]
PubackPkt(id, n) == [type |-> "Puback", id |-> id, n |-> n]
PublishPkt(qos) == [type |-> "Publish", qos |-> qos]
OtherPkt == [type |-> "Other"]
BadPkt == [type |-> "Bad"]

IsSubscription(item) == item.type \in {"Subscribe", "Unsubscribe"}
-----------------------------------------------------------------------------
ClientInit ==
    /\ upc = [u \in Users |-> "idle"]
    /\ call = [u \in Users |-> NoCall]
    /\ lpc = "idle" /\ stopFlag = FALSE /\ connected = FALSE
    /\ pipeOpen = FALSE /\ wake = FALSE
    /\ txQueue = <<>> /\ nextPacketId = 1 /\ subscriptions = {} /\ droppedTx = 0
    /\ npc = "none" /\ attempted = FALSE /\ batch = <<>>
    /\ pendingPubs = <<>> /\ cursor = 1 /\ rxBuf = <<>>
    /\ link = "none" /\ toBroker = <<>> /\ toClient = <<>>
    /\ calls = 0 /\ starts = 0 /\ faults = 0
    /\ accepted = 0 /\ sent = <<>> /\ repeated = {} /\ acked = {}
-----------------------------------------------------------------------------
(* The wake-up pipe.  Its bytes carry no information and are always read   *)
(* all together, so it is empty or not.                                    *)

\* A write after the network thread has closed the pipe does nothing.
WakePipe == wake' = (wake \/ pipeOpen)
DrainWakePipe == wake' = FALSE

\* Packet identifiers run through 1 .. MaxPacketId and start again.
AllocPacketId == nextPacketId' = (nextPacketId % MaxPacketId) + 1

Fault == faults < MaxFaults /\ faults' = faults + 1
-----------------------------------------------------------------------------
(* User threads.  A call takes up to four separate critical sections: the  *)
(* subscription table, the packet identifier, the queue, the pipe.         *)

BeginCall(u, kind) ==
    /\ upc[u] = "idle" /\ kind \in Kinds /\ calls < MaxCalls
    /\ calls' = calls + 1

Publish(u, kind) ==
    /\ kind \in {"Publish0", "Publish1"}
    /\ BeginCall(u, kind)
    /\ IF kind = "Publish1"
       THEN /\ call' = [call EXCEPT ![u] = [type |-> kind, topic |-> NoTopic,
                                            id |-> nextPacketId]]
            /\ AllocPacketId
       ELSE /\ call' = [call EXCEPT ![u] = [type |-> kind, topic |-> NoTopic, id |-> 0]]
            /\ UNCHANGED nextPacketId
    /\ upc' = [upc EXCEPT ![u] = "enqueue"]
    /\ UNCHANGED <<lifeVars, connected, wakeVars, txQueue, subscriptions,
                   droppedTx, accepted, npc, attempted, batch, pubVars, rxBuf,
                   linkVars, faults, sent>>

\* The table first: subscribe() enters the topic, unsubscribe() removes it.
ChangeTable(u, kind, t) ==
    /\ kind \in {"Subscribe", "Unsubscribe"}
    /\ BeginCall(u, kind)
    /\ subscriptions' = IF kind = "Subscribe" THEN subscriptions \cup {t}
                                              ELSE subscriptions \ {t}
    /\ call' = [call EXCEPT ![u] = [type |-> kind, topic |-> t, id |-> 0]]
    /\ upc' = [upc EXCEPT ![u] = "alloc"]
    /\ UNCHANGED <<lifeVars, connected, wakeVars, txQueue, nextPacketId,
                   droppedTx, accepted, npc, attempted, batch, pubVars, rxBuf,
                   linkVars, faults, sent>>

TakePacketId(u) ==
    /\ upc[u] = "alloc"
    /\ call' = [call EXCEPT ![u].id = nextPacketId]
    /\ AllocPacketId
    /\ upc' = [upc EXCEPT ![u] = "enqueue"]
    /\ UNCHANGED <<calls, lifeVars, connected, wakeVars, txQueue, subscriptions,
                   droppedTx, accepted, npc, attempted, batch, pubVars, rxBuf,
                   linkVars, faults, sent>>

\* A full queue drops the new packet; an accepted one records whether the
\* client was connected at this moment.
EnqueuePacket(u) ==
    /\ upc[u] = "enqueue"
    /\ call' = [call EXCEPT ![u] = NoCall]
    /\ IF Len(txQueue) >= kMaxTxQueue
       THEN /\ droppedTx' = droppedTx + 1
            /\ upc' = [upc EXCEPT ![u] = "idle"]
            /\ UNCHANGED <<txQueue, accepted>>
       ELSE /\ txQueue' = Append(txQueue,
                  [type |-> call[u].type, topic |-> call[u].topic,
                   id |-> call[u].id, online |-> connected, n |-> accepted + 1])
            /\ accepted' = accepted + 1
            /\ upc' = [upc EXCEPT ![u] = "wake"]
            /\ UNCHANGED droppedTx
    /\ UNCHANGED <<calls, lifeVars, connected, wakeVars, nextPacketId,
                   subscriptions, npc, attempted, batch, pubVars, rxBuf,
                   linkVars, faults, sent>>

WakeAfterEnqueue(u) ==
    /\ upc[u] = "wake"
    /\ WakePipe
    /\ upc' = [upc EXCEPT ![u] = "idle"]
    /\ UNCHANGED <<call, calls, lifeVars, connected, pipeOpen, queueVars, npc,
                   attempted, batch, pubVars, rxBuf, linkVars, faults, sent>>

UserStep(u) ==
    \/ \E kind \in AllKinds : Publish(u, kind)
    \/ \E kind \in AllKinds, t \in Topics : ChangeTable(u, kind, t)
    \/ TakePacketId(u)
    \/ EnqueuePacket(u)
    \/ WakeAfterEnqueue(u)
-----------------------------------------------------------------------------
(* start() and stop(), called by one thread.                               *)

\* start() refuses to run while the thread exists; it empties the queue.
Start ==
    /\ lpc = "idle" /\ npc = "none" /\ starts < MaxStarts
    /\ starts' = starts + 1
    /\ pipeOpen' = TRUE /\ wake' = FALSE
    /\ stopFlag' = FALSE /\ connected' = FALSE
    /\ txQueue' = <<>> /\ nextPacketId' = 1
    /\ npc' = "top"
    /\ UNCHANGED <<userVars, lpc, subscriptions, droppedTx, accepted, attempted,
                   batch, pubVars, rxBuf, linkVars, faults, sent>>

StopRequest ==
    /\ lpc = "idle" /\ npc # "none"
    /\ stopFlag' = TRUE
    /\ lpc' = "wake"
    /\ UNCHANGED <<userVars, starts, connected, wakeVars, queueVars, npc,
                   attempted, batch, pubVars, rxBuf, linkVars, faults, sent>>

\* Mutant: the byte is only written when the client is connected.
StopWakeConnected ==
    /\ lpc = "wake"
    /\ IF connected THEN WakePipe ELSE UNCHANGED wake
    /\ lpc' = "join"
    /\ UNCHANGED <<userVars, stopFlag, starts, connected, pipeOpen, queueVars,
                   npc, attempted, batch, pubVars, rxBuf, linkVars, faults, sent>>

StopWake ==
    /\ lpc = "wake"
    /\ WakePipe
    /\ lpc' = "join"
    /\ UNCHANGED <<userVars, stopFlag, starts, connected, pipeOpen, queueVars,
                   npc, attempted, batch, pubVars, rxBuf, linkVars, faults, sent>>

StopJoin ==
    /\ lpc = "join" /\ npc = "done"
    /\ npc' = "none"
    /\ connected' = FALSE
    /\ lpc' = "idle"
    /\ UNCHANGED <<userVars, stopFlag, starts, wakeVars, queueVars, attempted,
                   batch, pubVars, rxBuf, linkVars, faults, sent>>

LifeStep == Start \/ StopRequest \/ StopWake \/ StopJoin
-----------------------------------------------------------------------------
(* The network thread: connecting.                                         *)

\* Mutant: the flag is tested only while there is no socket.
LoopBranchLate ==
    IF link # "none" THEN "drain"
    ELSE IF stopFlag THEN "cleanup"
    ELSE IF attempted THEN "backoff" ELSE "connect"

\* The loop test, then the branch on m_sock; only the very first attempt is
\* made without a back-off.
LoopBranch ==
    IF stopFlag THEN "cleanup"
    ELSE IF link # "none" THEN "drain"
    ELSE IF attempted THEN "backoff" ELSE "connect"

LoopTop ==
    /\ npc = "top"
    /\ npc' = LoopBranch
    /\ UNCHANGED <<userVars, lifeVars, connected, wakeVars, queueVars, attempted,
                   batch, pubVars, rxBuf, linkVars, faults, sent>>

\* waitWake() ends early on any byte in the pipe, whoever wrote it.
BackoffWait ==
    /\ npc = "backoff"
    /\ DrainWakePipe \/ (stopFlag /\ UNCHANGED wake)
    /\ npc' = IF stopFlag THEN "cleanup" ELSE "connect"
    /\ UNCHANGED <<userVars, lifeVars, connected, pipeOpen, queueVars, attempted,
                   batch, pubVars, rxBuf, linkVars, faults, sent>>

ConnectSucceeds ==
    /\ npc = "connect"
    /\ attempted' = TRUE
    /\ link' = "up"
    /\ npc' = "hello"
    /\ UNCHANGED <<userVars, lifeVars, connected, wakeVars, queueVars, batch,
                   pubVars, rxBuf, toBroker, toClient, faults, sent>>

\* A connect() in progress is given up when the pipe holds a byte.
ConnectAbandoned ==
    /\ npc = "connect" /\ wake
    /\ attempted' = TRUE
    /\ DrainWakePipe
    /\ npc' = "disconnect"
    /\ UNCHANGED <<userVars, lifeVars, connected, pipeOpen, queueVars, batch,
                   pubVars, rxBuf, linkVars, faults, sent>>

ConnectFails ==
    /\ npc = "connect"
    /\ Fault
    /\ attempted' = TRUE
    /\ npc' = "disconnect"
    /\ UNCHANGED <<userVars, lifeVars, connected, wakeVars, queueVars, batch,
                   pubVars, rxBuf, linkVars, sent>>

\* sendRaw(): the kernel takes the packet while the peer is there.  On a
\* connection that has broken it may still take it (and lose it), or fail.
Sends(pkt) ==
    /\ link # "none"
    /\ toBroker' = IF link = "up" THEN Append(toBroker, pkt) ELSE toBroker
SendFails == link = "broken" /\ UNCHANGED toBroker

SendConnect ==
    /\ npc = "hello"
    /\ \/ Sends(ConnectPkt) /\ npc' = "connack"
       \/ SendFails /\ npc' = "disconnect"
    /\ UNCHANGED <<userVars, lifeVars, connected, wakeVars, queueVars, attempted,
                   batch, pubVars, rxBuf, link, toClient, faults, sent>>

\* recv() takes some of what has arrived.
Receive(k) ==
    /\ k \in 1 .. Len(toClient)
    /\ toClient' = SubSeq(toClient, k + 1, Len(toClient))

\* recvPacket() gives the pipe precedence over the socket, and a byte in it
\* ends the wait only when the client is being stopped.
AwaitConnack ==
    /\ npc = "connack"
    /\ \/ /\ wake
          /\ DrainWakePipe
          /\ npc' = IF stopFlag THEN "disconnect" ELSE "connack"
          /\ UNCHANGED <<rxBuf, toClient, faults>>
       \/ /\ ~wake
          /\ \E k \in 1 .. Len(toClient) :
               LET buf == rxBuf \o SubSeq(toClient, 1, k)
                   pkt == Head(buf) IN
               /\ Receive(k)
               /\ rxBuf' = Tail(buf)
               /\ npc' = IF pkt = ConnackPkt(TRUE) THEN "announce" ELSE "disconnect"
          /\ UNCHANGED <<wake, faults>>
       \/ /\ stopFlag \/ (~wake /\ link = "broken")
          /\ npc' = "disconnect"
          /\ UNCHANGED <<wake, rxBuf, toClient, faults>>
       \/ /\ Fault                                \* kConnackTimeoutMs
          /\ npc' = "disconnect"
          /\ UNCHANGED <<wake, rxBuf, toClient>>
    /\ UNCHANGED <<userVars, lifeVars, connected, pipeOpen, queueVars, attempted,
                   batch, pubVars, link, toBroker, sent>>

\* The connection counts as established before the subscriptions are rebuilt.
Announce ==
    /\ npc = "announce"
    /\ connected' = TRUE
    /\ npc' = IF CleanSession THEN "resubscribe" ELSE "top"
    /\ UNCHANGED <<userVars, lifeVars, wakeVars, queueVars, attempted, batch,
                   pubVars, rxBuf, linkVars, faults, sent>>

\* One SUBSCRIBE for the whole table; a failed send is only logged.
ResubscribeAll ==
    /\ npc = "resubscribe"
    /\ IF subscriptions = {}
       THEN UNCHANGED <<nextPacketId, toBroker>>
       ELSE /\ AllocPacketId
            /\ Sends(ResubPkt(subscriptions)) \/ SendFails
    /\ npc' = "top"
    /\ UNCHANGED <<userVars, lifeVars, connected, wakeVars, txQueue, subscriptions,
                   droppedTx, accepted, attempted, batch, pubVars, rxBuf, link,
                   toClient, faults, sent>>
-----------------------------------------------------------------------------
(* The network thread: one round of onlineLoop().                          *)

\* drainTxQueue() takes the whole queue under the lock ...
TakeBatch ==
    /\ npc = "drain"
    /\ batch' = txQueue
    /\ txQueue' = <<>>
    /\ npc' = IF txQueue = <<>> THEN "timers" ELSE "send"
    /\ UNCHANGED <<userVars, lifeVars, connected, wakeVars, nextPacketId,
                   subscriptions, droppedTx, accepted, attempted, pubVars, rxBuf,
                   linkVars, faults, sent>>

\* Mutant: every subscription packet is left to ResubscribeAll.
SupersededAlways(item) == CleanSession /\ IsSubscription(item)
\* A subscription queued while the client was not connected is left to
\* ResubscribeAll, when the session is a clean one.
Superseded(item) == CleanSession /\ ~item.online /\ IsSubscription(item)

SkipItem ==
    /\ npc = "send" /\ batch # <<>> /\ Superseded(Head(batch))
    /\ batch' = Tail(batch)
    /\ UNCHANGED <<userVars, lifeVars, connected, wakeVars, queueVars, npc,
                   attempted, pubVars, rxBuf, linkVars, faults, sent>>

\* ... and sends it packet by packet; a QoS 1 publish becomes pending.
SendItem ==
    /\ npc = "send" /\ batch # <<>> /\ ~Superseded(Head(batch))
    /\ Sends(ItemPkt(Head(batch), FALSE))
    /\ sent' = Append(sent, Head(batch))
    /\ batch' = Tail(batch)
    /\ pendingPubs' = IF Head(batch).type = "Publish1"
                      THEN Append(pendingPubs, [item |-> Head(batch), resent |-> FALSE])
                      ELSE pendingPubs
    /\ UNCHANGED <<userVars, lifeVars, connected, wakeVars, queueVars, npc,
                   attempted, cursor, acked, repeated, rxBuf, link,
                   toClient, faults>>

\* Mutants: the rest goes behind the newer packets; the packet whose send
\* failed is not part of the rest.
RequeuedBehind == txQueue \o batch
RequeuedShort == Tail(batch) \o txQueue
\* A failed send puts the rest back, in front of what users queued since.
Requeued == batch \o txQueue

Requeue ==
    /\ npc = "send" /\ batch # <<>> /\ ~Superseded(Head(batch))
    /\ SendFails
    /\ txQueue' = Requeued
    /\ batch' = <<>>
    /\ npc' = "disconnect"
    /\ UNCHANGED <<userVars, lifeVars, connected, wakeVars, nextPacketId,
                   subscriptions, droppedTx, accepted, attempted, pubVars, rxBuf,
                   link, toClient, faults, sent>>

BatchSent ==
    /\ npc = "send" /\ batch = <<>>
    /\ npc' = "timers"
    /\ UNCHANGED <<userVars, lifeVars, connected, wakeVars, queueVars, attempted,
                   batch, pubVars, rxBuf, linkVars, faults, sent>>

\* The resend loop: an entry may have passed its 10 s deadline.  The first
\* time it is sent again with DUP, the second time it is given up.
NotExpired ==
    /\ npc = "timers" /\ cursor <= Len(pendingPubs)
    /\ cursor' = cursor + 1
    /\ UNCHANGED <<userVars, lifeVars, connected, wakeVars, queueVars, npc,
                   attempted, batch, pendingPubs, acked, repeated, rxBuf,
                   linkVars, faults, sent>>

ResendDup ==
    /\ npc = "timers" /\ cursor <= Len(pendingPubs) /\ ~pendingPubs[cursor].resent
    /\ Fault
    /\ \/ /\ Sends(ItemPkt(pendingPubs[cursor].item, TRUE))
          /\ pendingPubs' = [pendingPubs EXCEPT ![cursor].resent = TRUE]
          /\ repeated' = repeated \cup {pendingPubs[cursor].item.n}
          /\ cursor' = cursor + 1
          /\ UNCHANGED npc
       \/ /\ SendFails
          /\ npc' = "disconnect"
          /\ UNCHANGED <<pendingPubs, cursor, repeated>>
    /\ UNCHANGED <<userVars, lifeVars, connected, wakeVars, queueVars, attempted,
                   batch, acked, rxBuf, link, toClient, sent>>

RemovePending(i) ==
    SubSeq(pendingPubs, 1, i - 1) \o SubSeq(pendingPubs, i + 1, Len(pendingPubs))

GiveUp ==
    /\ npc = "timers" /\ cursor <= Len(pendingPubs) /\ pendingPubs[cursor].resent
    /\ Fault
    /\ pendingPubs' = RemovePending(cursor)
    /\ UNCHANGED <<userVars, lifeVars, connected, wakeVars, queueVars, npc,
                   attempted, batch, cursor, acked, repeated, rxBuf, linkVars,
                   sent>>


TimersDone ==
    /\ npc = "timers" /\ cursor > Len(pendingPubs)
    /\ npc' = "poll"
    /\ cursor' = 1
    /\ UNCHANGED <<userVars, lifeVars, connected, wakeVars, queueVars, attempted,
                   batch, pendingPubs, acked, repeated, rxBuf, linkVars, faults,
                   sent>>

\* poll() reports the pipe and the socket together: the pipe is emptied,
\* then a hang-up, a readable socket or nothing (a byte, or the 1 s cap);
\* nothing for too long is the PINGRESP watchdog.
Poll ==
    /\ npc = "poll"
    /\ DrainWakePipe
    /\ \/ /\ link = "broken"
          /\ npc' = "disconnect"
          /\ UNCHANGED <<rxBuf, toClient, faults>>
       \/ /\ \E k \in 1 .. Len(toClient) :
               /\ Receive(k)
               /\ rxBuf' = rxBuf \o SubSeq(toClient, 1, k)
          /\ npc' = "handle"
          /\ UNCHANGED faults
       \/ /\ link = "up" /\ toClient = <<>>
          /\ \/ npc' = "top" /\ UNCHANGED faults
             \/ npc' = "disconnect" /\ Fault
          /\ UNCHANGED <<rxBuf, toClient>>
    /\ UNCHANGED <<userVars, lifeVars, connected, pipeOpen, queueVars, attempted,
                   batch, pubVars, link, toBroker, sent>>

\* processIncoming() decodes and handles packet after packet.
HandlingPacket(type) == npc = "handle" /\ rxBuf # <<>> /\ Head(rxBuf).type = type

HandlePublish ==
    /\ HandlingPacket("Publish")
    /\ rxBuf' = Tail(rxBuf)
    /\ \/ Head(rxBuf).qos = 0 /\ UNCHANGED <<npc, toBroker>>
       \/ Head(rxBuf).qos = 1 /\ Sends(AckPkt(0)) /\ UNCHANGED npc
       \/ Head(rxBuf).qos = 1 /\ SendFails /\ npc' = "disconnect"
    /\ UNCHANGED <<userVars, lifeVars, connected, wakeVars, queueVars, attempted,
                   batch, pubVars, link, toClient, faults, sent>>

\* Mutant: the last pending publish with that identifier is taken for it.
MatchesLast(i, id) ==
    /\ pendingPubs[i].item.id = id
    /\ \A j \in i + 1 .. Len(pendingPubs) : pendingPubs[j].item.id # id
\* The first pending publish with that identifier is the one acknowledged.
Matches(i, id) ==
    /\ pendingPubs[i].item.id = id
    /\ \A j \in 1 .. i - 1 : pendingPubs[j].item.id # id

HandlePuback ==
    /\ HandlingPacket("Puback")
    /\ rxBuf' = Tail(rxBuf)
    /\ \/ \E i \in DOMAIN pendingPubs :
            /\ Matches(i, Head(rxBuf).id)
            /\ pendingPubs' = RemovePending(i)
            /\ acked' = acked \cup {pendingPubs[i].item.n}
       \/ /\ \A i \in DOMAIN pendingPubs : ~Matches(i, Head(rxBuf).id)
          /\ UNCHANGED <<pendingPubs, acked>>
    /\ UNCHANGED <<userVars, lifeVars, connected, wakeVars, queueVars, npc,
                   attempted, batch, cursor, repeated, linkVars, faults, sent>>

\* SUBACK, UNSUBACK and PINGRESP change nothing here; a protocol error (a
\* second CONNACK, a DISCONNECT, undecodable bytes) ends the connection.
HandleOther ==
    /\ npc = "handle" /\ rxBuf # <<>> /\ Head(rxBuf).type \in {"Other", "Bad", "Connack"}
    /\ rxBuf' = Tail(rxBuf)
    /\ npc' = IF Head(rxBuf).type = "Other" THEN "handle" ELSE "disconnect"
    /\ UNCHANGED <<userVars, lifeVars, connected, wakeVars, queueVars, attempted,
                   batch, pubVars, linkVars, faults, sent>>

HandledAll ==
    /\ npc = "handle" /\ rxBuf = <<>>
    /\ npc' = "top"
    /\ UNCHANGED <<userVars, lifeVars, connected, wakeVars, queueVars, attempted,
                   batch, pubVars, rxBuf, linkVars, faults, sent>>
-----------------------------------------------------------------------------
(* The network thread: leaving a connection, leaving the thread.           *)

\* Whatever was in flight is lost; pending publishes are forgotten.
CloseSocket ==
    /\ link' = "none" /\ toBroker' = <<>> /\ toClient' = <<>>
    /\ rxBuf' = <<>>
    /\ pendingPubs' = <<>> /\ cursor' = 1

NotConnected == connected' = FALSE

\* Mutant: a lost connection ends the thread.
LeaveLoop == npc' = "cleanup"
\* A lost connection is followed by another round of the loop.
ContinueLoop == npc' = "top"

\* The socket goes first: until the next step isConnected() still says TRUE, and
\* what users queue is marked as queued online.
OnDisconnect ==
    /\ npc = "disconnect"
    /\ CloseSocket
    /\ npc' = "lost"
    /\ UNCHANGED <<userVars, lifeVars, connected, wakeVars, queueVars, attempted,
                   batch, acked, repeated, faults, sent>>

LossReported ==
    /\ npc = "lost"
    /\ NotConnected
    /\ ContinueLoop
    /\ UNCHANGED <<userVars, lifeVars, wakeVars, queueVars, attempted, batch,
                   pubVars, rxBuf, linkVars, faults, sent>>

\* At the end of the thread likewise; a best-effort DISCONNECT goes out just
\* before the socket is closed.
Cleanup ==
    /\ npc = "cleanup"
    /\ CloseSocket
    /\ npc' = "left"
    /\ UNCHANGED <<userVars, lifeVars, connected, wakeVars, queueVars, attempted,
                   batch, acked, repeated, faults, sent>>

EndReported ==
    /\ npc = "left"
    /\ NotConnected
    /\ npc' = "closepipe"
    /\ UNCHANGED <<userVars, lifeVars, wakeVars, queueVars, attempted, batch,
                   pubVars, rxBuf, linkVars, faults, sent>>

ClosePipe ==
    /\ npc = "closepipe"
    /\ pipeOpen' = FALSE /\ wake' = FALSE
    /\ npc' = "done"
    /\ UNCHANGED <<userVars, lifeVars, connected, queueVars, attempted, batch,
                   pubVars, rxBuf, linkVars, faults, sent>>

NetworkStep ==
    \/ LoopTop \/ BackoffWait
    \/ ConnectSucceeds \/ ConnectAbandoned \/ ConnectFails
    \/ SendConnect \/ AwaitConnack \/ Announce \/ ResubscribeAll
    \/ TakeBatch \/ SkipItem \/ SendItem \/ Requeue \/ BatchSent
    \/ NotExpired \/ ResendDup \/ GiveUp \/ TimersDone
    \/ Poll \/ HandlePublish \/ HandlePuback \/ HandleOther \/ HandledAll
    \/ OnDisconnect \/ LossReported \/ Cleanup \/ EndReported \/ ClosePipe

ClientStep == (\E u \in Users : UserStep(u)) \/ LifeStep \/ NetworkStep
=============================================================================
