------------------------- MODULE MqttSession_proofs -------------------------
(***************************************************************************)
(* Theorems about MqttSession, for every value of its constants.  First    *)
(* the kinds of its values and the transmit path, which is an outbox.      *)
(* Then what can be under way between client and broker at any moment, and *)
(* what follows from it: what the client reports to its user is so (the    *)
(* connection flag, the publishes counted as acknowledged), publishes      *)
(* reach the broker in the order in which the queue has accepted them, and *)
(* no subscription is lost.                                                *)
(***************************************************************************)
EXTENDS MqttSession, SequenceLemmas, SequenceTheorems, TLAPS

USE ClientAssumption, BrokerAssumption DEF ClientAssumption, BrokerAssumption
-----------------------------------------------------------------------------
(* Facts about sequences.                                                  *)

\* Taking one element out of a sequence leaves a sequence of the same kind.
LEMMA RemoveOneType ==
    ASSUME NEW S, NEW s \in Seq(S), NEW i \in 1 .. Len(s)
    PROVE  SubSeq(s, 1, i - 1) \o SubSeq(s, i + 1, Len(s)) \in Seq(S)
<1>1. SubSeq(s, 1, i - 1) \in Seq(S)
  OBVIOUS
<1>2. SubSeq(s, i + 1, Len(s)) \in Seq(S)
  OBVIOUS
<1> QED
  BY <1>1, <1>2
-----------------------------------------------------------------------------
(* Packet identifiers stay in their range.                                 *)

\* allocPacketId leaves the next identifier within 1 .. MaxPacketId, also when
\* it wraps around.
LEMMA NextIdType ==
    ASSUME NEW id \in 1 .. MaxPacketId
    PROVE  (id % MaxPacketId) + 1 \in 1 .. MaxPacketId
<1> DEFINE r == id % MaxPacketId
<1>1. r \in 0 .. MaxPacketId - 1
  OBVIOUS
<1> HIDE DEF r
<1>2. r + 1 \in 1 .. MaxPacketId
  BY <1>1
<1> QED
  BY <1>2 DEF r
-----------------------------------------------------------------------------
(* Type correctness.                                                       *)

\* A client that has not been started has values of its kinds.
LEMMA InitType == Init => TypeOK
<1> SUFFICES ASSUME Init PROVE TypeOK
  OBVIOUS
<1> USE DEF Init, ClientInit
<1>1. upc \in [Users -> {"idle", "alloc", "enqueue", "wake"}]
  OBVIOUS
<1>2. call \in [Users -> Call]
  BY DEF Call, NoCall, PacketIds, AllKinds
<1>3. nextPacketId \in 1 .. MaxPacketId /\ cursor \in Nat \ {0}
  OBVIOUS
<1>4. npc \in NetworkStates
  BY DEF NetworkStates
<1>5. /\ txQueue \in Seq(TxItem) /\ batch \in Seq(TxItem) /\ sent \in Seq(TxItem)
     /\ pendingPubs \in Seq(PendingPub)
  OBVIOUS
<1> QED
  BY <1>1, <1>2, <1>3, <1>4, <1>5 DEF TypeOK

\* A step of the client keeps the types ...
LEMMA ClientType == TypeOK /\ ClientStep => TypeOK'
<1> SUFFICES ASSUME TypeOK, ClientStep PROVE TypeOK'
  OBVIOUS
<1> USE DEF TypeOK, userVars, lifeVars, queueVars, wakeVars, pubVars, linkVars
<1>e. <<>> \in Seq(TxItem) /\ <<>> \in Seq(PendingPub)
  BY EmptySeq
<1>1. ASSUME NEW u \in Users, NEW kind \in AllKinds, Publish(u, kind) PROVE TypeOK'
  <2>1. nextPacketId' \in 1 .. MaxPacketId
    BY <1>1, NextIdType DEF Publish, AllocPacketId
  <2>2. call' \in [Users -> Call]
    <3>1. ASSUME NEW id \in PacketIds
          PROVE  [type |-> kind, topic |-> NoTopic, id |-> id] \in Call
      BY <1>1, <3>1 DEF Publish, Call
    <3>2. nextPacketId \in PacketIds /\ 0 \in PacketIds
      BY ClientAssumption DEF ClientAssumption, PacketIds
    <3>3. \/ call' = [call EXCEPT ![u] = [type |-> kind, topic |-> NoTopic, id |-> nextPacketId]]
          \/ call' = [call EXCEPT ![u] = [type |-> kind, topic |-> NoTopic, id |-> 0]]
      BY <1>1 DEF Publish
    <3> QED BY <3>1, <3>2, <3>3
  <2> QED
    BY <1>1, <2>1, <2>2 DEF Publish, BeginCall
<1>2. ASSUME NEW u \in Users, NEW kind \in AllKinds, NEW t \in Topics, ChangeTable(u, kind, t) PROVE TypeOK'
  BY <1>2 DEF ChangeTable, BeginCall, Call, PacketIds, AllKinds
<1>3. ASSUME NEW u \in Users, TakePacketId(u) PROVE TypeOK'
  <2>1. nextPacketId' \in 1 .. MaxPacketId
    BY <1>3, NextIdType DEF TakePacketId, AllocPacketId
  <2>2. call' \in [Users -> Call]
    <3>1. nextPacketId \in PacketIds
      BY DEF PacketIds
    <3>2. [call[u] EXCEPT !.id = nextPacketId] \in Call
      BY <3>1 DEF Call
    <3> QED
      BY <1>3, <3>2 DEF TakePacketId
  <2> QED
    BY <1>3, <2>1, <2>2 DEF TakePacketId
<1>4. ASSUME NEW u \in Users, EnqueuePacket(u) PROVE TypeOK'
  <2>1. call' \in [Users -> Call]
    BY <1>4 DEF EnqueuePacket, Call, NoCall, PacketIds, AllKinds
  <2> DEFINE item == [type |-> call[u].type, topic |-> call[u].topic,
                      id |-> call[u].id, online |-> connected, n |-> accepted + 1]
  <2>2. item \in TxItem
    BY DEF Call, TxItem
  <2>3. txQueue' \in Seq(TxItem)
    <3> HIDE DEF item
    <3>1. Append(txQueue, item) \in Seq(TxItem)
      BY <2>2
    <3> QED
      BY <1>4, <3>1 DEF EnqueuePacket, item
  <2>4. upc' \in [Users -> {"idle", "alloc", "enqueue", "wake"}]
    BY <1>4 DEF EnqueuePacket
  <2>5. droppedTx' \in Nat /\ accepted' \in Nat
    BY <1>4 DEF EnqueuePacket
  <2> QED
    BY <1>4, <2>1, <2>3, <2>4, <2>5 DEF EnqueuePacket
<1>5. ASSUME NEW u \in Users, WakeAfterEnqueue(u) PROVE TypeOK'
  BY <1>5 DEF WakeAfterEnqueue, WakePipe
<1>6. CASE LifeStep
  <2>1. CASE Start
    <3>1. txQueue' = <<>>
      BY <2>1 DEF Start
    <3>2. txQueue' \in Seq(TxItem)
      BY <3>1, <1>e
    <3>3. nextPacketId' \in 1 .. MaxPacketId
      BY <2>1 DEF Start
    <3> QED
      BY <2>1, <3>2, <3>3 DEF Start, NetworkStates
  <2>2. CASE StopRequest
    BY <2>2 DEF StopRequest
  <2>3. CASE StopWake
    BY <2>3 DEF StopWake, WakePipe
  <2>4. CASE StopJoin
    BY <2>4 DEF StopJoin, NetworkStates
  <2> QED
    BY <1>6, <2>1, <2>2, <2>3, <2>4 DEF LifeStep
<1>7. CASE LoopTop
  BY <1>7 DEF LoopTop, LoopBranch, NetworkStates
<1>8. CASE BackoffWait
  BY <1>8 DEF BackoffWait, DrainWakePipe, NetworkStates
<1>9. CASE ConnectSucceeds \/ ConnectAbandoned \/ ConnectFails
  BY <1>9, ZenonT(30) DEF ConnectSucceeds, ConnectAbandoned, ConnectFails, DrainWakePipe, NetworkStates
<1>10. CASE SendConnect
  BY <1>10 DEF SendConnect, NetworkStates
<1>11. CASE AwaitConnack
  BY <1>11, ZenonT(30) DEF AwaitConnack, DrainWakePipe, NetworkStates
<1>12. CASE Announce
  BY <1>12 DEF Announce, NetworkStates
<1>13. CASE ResubscribeAll
  BY <1>13 DEF ResubscribeAll, AllocPacketId, NetworkStates
<1>14. CASE TakeBatch
  BY <1>14 DEF TakeBatch, NetworkStates
<1>15. CASE SkipItem
  BY <1>15 DEF SkipItem
<1>16. CASE SendItem
  <2>1. batch # <<>> /\ Head(batch) \in TxItem /\ Tail(batch) \in Seq(TxItem)
    BY <1>16 DEF SendItem
  <2>2. [item |-> Head(batch), resent |-> FALSE] \in PendingPub
    BY <2>1 DEF PendingPub
  <2>3. /\ Append(sent, Head(batch)) \in Seq(TxItem)
        /\ Append(pendingPubs, [item |-> Head(batch), resent |-> FALSE]) \in Seq(PendingPub)
    BY <2>1, <2>2
  <2> QED
    BY <1>16, <2>1, <2>3 DEF SendItem
<1>17. CASE Requeue
  BY <1>17 DEF Requeue, Requeued, NetworkStates
<1>18. CASE BatchSent
  BY <1>18 DEF BatchSent, NetworkStates
<1>19. CASE NotExpired
  BY <1>19 DEF NotExpired
<1>20. CASE ResendDup
  <2>1. cursor \in 1 .. Len(pendingPubs) /\ pendingPubs[cursor] \in PendingPub
    BY <1>20 DEF ResendDup
  <2>2. [pendingPubs[cursor] EXCEPT !.resent = TRUE] \in PendingPub
    BY <2>1 DEF PendingPub
  <2>3. [pendingPubs EXCEPT ![cursor].resent = TRUE] \in Seq(PendingPub)
    BY <2>1, <2>2, ExceptSeq
  <2>4. pendingPubs' \in Seq(PendingPub)
    BY <1>20, <2>3 DEF ResendDup
  <2>5. cursor' \in {cursor, cursor + 1} /\ npc' \in {npc, "disconnect"}
    BY <1>20 DEF ResendDup
  <2>6. cursor' \in Nat \ {0}
    BY <2>5
  <2>7. npc' \in NetworkStates
    BY <2>5 DEF NetworkStates
  <2>8. repeated' \subseteq Nat
    <3>1. pendingPubs[cursor].item.n \in Nat BY <2>1 DEF PendingPub, TxItem
    <3> QED BY <1>20, <3>1 DEF ResendDup
  <2> QED
    BY <1>20, <2>4, <2>6, <2>7, <2>8 DEF ResendDup
<1>21. CASE GiveUp
  BY <1>21 DEF GiveUp, RemovePending
<1>22. CASE TimersDone
  BY <1>22 DEF TimersDone, NetworkStates
<1>23. CASE Poll
  BY <1>23 DEF Poll, DrainWakePipe, NetworkStates
<1>24. CASE HandlePublish
  BY <1>24 DEF HandlePublish, HandlingPacket, NetworkStates
<1>25. CASE HandlePuback
  <2>1. \A i \in DOMAIN pendingPubs : RemovePending(i) \in Seq(PendingPub)
    BY RemoveOneType DEF RemovePending
  <2>2. pendingPubs' \in Seq(PendingPub)
    BY <1>25, <2>1 DEF HandlePuback
  <2> QED
    BY <1>25, <2>2 DEF HandlePuback
<1>26. CASE HandleOther \/ HandledAll
  <2>1. CASE HandleOther BY <2>1 DEF HandleOther, NetworkStates
  <2>2. CASE HandledAll BY <2>2 DEF HandledAll, NetworkStates
  <2> QED BY <1>26, <2>1, <2>2
<1>27. CASE OnDisconnect
  <2>1. pendingPubs' \in Seq(PendingPub) /\ cursor' \in Nat \ {0}
    BY <1>27, <1>e DEF OnDisconnect, CloseSocket
  <2> QED
    BY <1>27, <2>1 DEF OnDisconnect, CloseSocket, NetworkStates
<1>28. CASE Cleanup
  <2>1. pendingPubs' \in Seq(PendingPub) /\ cursor' \in Nat \ {0}
    BY <1>28, <1>e DEF Cleanup, CloseSocket
  <2> QED
    BY <1>28, <2>1 DEF Cleanup, CloseSocket, NetworkStates
<1>29. CASE LossReported \/ EndReported \/ ClosePipe
  BY <1>29 DEF LossReported, EndReported, ClosePipe, NotConnected, ContinueLoop, NetworkStates
<1> QED
  BY <1>1, <1>2, <1>3, <1>4, <1>5, <1>6, <1>7, <1>8, <1>9, <1>10, <1>11, <1>12, <1>13, <1>14, <1>15, <1>16, <1>17, <1>18, <1>19, <1>20, <1>21, <1>22, <1>23, <1>24, <1>25, <1>26, <1>27, <1>28, <1>29
     DEF ClientStep, UserStep, NetworkStep

\* ... and so does one of the broker, which touches nothing the client owns
\* but the two directions of the connection.
LEMMA BrokerType == TypeOK /\ BrokerStep => TypeOK'
<1> SUFFICES ASSUME TypeOK, BrokerStep PROVE TypeOK'
  OBVIOUS
<1> USE DEF TypeOK, clientOnly
<1>1. CASE BrokerConnect
  BY <1>1 DEF BrokerConnect
<1>2. CASE BrokerSubscription
  BY <1>2 DEF BrokerSubscription
<1>3. CASE BrokerPublish
  BY <1>3 DEF BrokerPublish
<1>4. CASE BrokerPuback
  BY <1>4 DEF BrokerPuback
<1>5. CASE BrokerPushes
  BY <1>5 DEF BrokerPushes
<1>6. CASE BrokerMisbehaves
  BY <1>6 DEF BrokerMisbehaves
<1>7. CASE LinkBreaks
  BY <1>7 DEF LinkBreaks
<1> QED
  BY <1>1, <1>2, <1>3, <1>4, <1>5, <1>6, <1>7 DEF BrokerStep, BrokerReceives

\* Every variable of the client keeps values of its kind (TypeOK), for any
\* number of users, topics, calls and faults.
THEOREM TypeCorrect == Spec => []TypeOK
<1>1. TypeOK /\ UNCHANGED vars => TypeOK'
  BY DEF TypeOK, vars, clientVars
<1>2. TypeOK /\ [Next]_vars => TypeOK'
  BY <1>1, ClientType, BrokerType DEF Next, ClientSide
<1> QED
  BY InitType, <1>2, PTL DEF Spec
-----------------------------------------------------------------------------
(* The wake-up pipe.                                                       *)

\* The states of the network thread in which a stop request that has been
\* raised since the last test of the flag must still be backed by a byte: it
\* has not emptied the pipe since, or has tested the flag after doing so.
Alert == {"backoff", "connect", "hello", "connack", "drain", "send", "timers", "poll"}

\* The strengthening that makes WakeupForQueue and WakeupForStop inductive:
\* the pipe is open while the thread lives, the byte a user owes is owed from
\* the moment the queue has been taken, and stop() owes its byte in every
\* state of Alert.
WakeupInv ==
    /\ npc \notin {"none", "done"} => pipeOpen
    /\ npc \in {"send", "timers", "poll"} /\ txQueue # <<>> =>
          wake \/ \E u \in Users : upc[u] = "wake"
    /\ npc \in Alert /\ stopFlag => wake \/ lpc = "wake"

\* Nothing is queued and no thread waits before the first start().
LEMMA WakeupInit == Init => WakeupInv
BY DEF Init, ClientInit, WakeupInv, Alert

\* Every step of the users, of start and stop and of the network thread keeps
\* the promise of a wake-up: who adds work writes a byte afterwards, and the
\* pipe is drained only before the work is looked at.
LEMMA WakeupClient == TypeOK /\ WakeupInv /\ ClientStep => WakeupInv'
<1> SUFFICES ASSUME TypeOK, WakeupInv, ClientStep PROVE WakeupInv'
  OBVIOUS
<1> USE DEF WakeupInv, Alert, userVars, lifeVars, queueVars, wakeVars, pubVars, linkVars
<1>1. ASSUME NEW u \in Users, NEW kind \in AllKinds, Publish(u, kind) PROVE WakeupInv'
  BY <1>1 DEF Publish, BeginCall
<1>2. ASSUME NEW u \in Users, NEW kind \in AllKinds, NEW t \in Topics, ChangeTable(u, kind, t) PROVE WakeupInv'
  BY <1>2 DEF ChangeTable, BeginCall
<1>3. ASSUME NEW u \in Users, TakePacketId(u) PROVE WakeupInv'
  BY <1>3 DEF TakePacketId
<1>4. ASSUME NEW u \in Users, EnqueuePacket(u) PROVE WakeupInv'
  <2>1. txQueue' = txQueue \/ upc'[u] = "wake"
    BY <1>4 DEF EnqueuePacket, TypeOK
  <2>2. \A v \in Users \ {u} : upc'[v] = upc[v]
    BY <1>4 DEF EnqueuePacket, TypeOK
  <2>3. upc[u] # "wake"
    BY <1>4 DEF EnqueuePacket
  <2> QED
    BY <1>4, <2>1, <2>2, <2>3 DEF EnqueuePacket
<1>5. ASSUME NEW u \in Users, WakeAfterEnqueue(u) PROVE WakeupInv'
  BY <1>5 DEF WakeAfterEnqueue, WakePipe
<1>6. CASE LifeStep
  BY <1>6 DEF LifeStep, Start, StopRequest, StopWake, StopJoin, WakePipe
<1>7. CASE LoopTop
  BY <1>7 DEF LoopTop, LoopBranch
<1>8. CASE BackoffWait
  BY <1>8 DEF BackoffWait, DrainWakePipe
<1>9. CASE ConnectSucceeds \/ ConnectAbandoned \/ ConnectFails
  BY <1>9 DEF ConnectSucceeds, ConnectAbandoned, ConnectFails, DrainWakePipe
<1>10. CASE SendConnect
  BY <1>10 DEF SendConnect
<1>11. CASE AwaitConnack
  BY <1>11 DEF AwaitConnack, DrainWakePipe
<1>12. CASE Announce
  BY <1>12 DEF Announce
<1>13. CASE ResubscribeAll
  BY <1>13 DEF ResubscribeAll
<1>14. CASE TakeBatch
  BY <1>14 DEF TakeBatch
<1>15. CASE SkipItem
  BY <1>15 DEF SkipItem
<1>16. CASE SendItem
  BY <1>16 DEF SendItem
<1>17. CASE Requeue
  BY <1>17 DEF Requeue, Requeued
<1>18. CASE BatchSent
  BY <1>18 DEF BatchSent
<1>19. CASE NotExpired
  BY <1>19 DEF NotExpired
<1>20. CASE ResendDup
  BY <1>20 DEF ResendDup
<1>21. CASE GiveUp
  BY <1>21 DEF GiveUp
<1>22. CASE TimersDone
  BY <1>22 DEF TimersDone
<1>23. CASE Poll
  BY <1>23 DEF Poll, DrainWakePipe
<1>24. CASE HandlePublish
  BY <1>24 DEF HandlePublish, HandlingPacket
<1>25. CASE HandlePuback
  BY <1>25 DEF HandlePuback, HandlingPacket
<1>26. CASE HandleOther \/ HandledAll
  BY <1>26 DEF HandleOther, HandledAll
<1>27. CASE OnDisconnect
  BY <1>27 DEF OnDisconnect
<1>28. CASE Cleanup
  BY <1>28 DEF Cleanup
<1>29. CASE LossReported \/ EndReported \/ ClosePipe
  BY <1>29 DEF LossReported, EndReported, ClosePipe, ContinueLoop
<1> QED
  BY <1>1, <1>2, <1>3, <1>4, <1>5, <1>6, <1>7, <1>8, <1>9, <1>10, <1>11, <1>12, <1>13, <1>14, <1>15, <1>16, <1>17, <1>18, <1>19, <1>20, <1>21, <1>22, <1>23, <1>24, <1>25, <1>26, <1>27, <1>28, <1>29
     DEF ClientStep, UserStep, NetworkStep

\* The broker never touches the pipe, the flags or the queue.
LEMMA WakeupBroker == WakeupInv /\ BrokerStep => WakeupInv'
<1>1. BrokerStep => UNCHANGED clientOnly
  BY DEF BrokerStep, BrokerReceives, BrokerConnect, BrokerSubscription, BrokerPublish,
         BrokerPuback, BrokerPushes, BrokerMisbehaves, LinkBreaks
<1>2. WakeupInv /\ UNCHANGED clientOnly => WakeupInv'
  BY DEF WakeupInv, clientOnly
<1> QED
  BY <1>1, <1>2

\* The strengthened promise holds throughout.
LEMMA WakeupCorrect == Spec => []WakeupInv
<1>1. WakeupInv /\ UNCHANGED vars => WakeupInv'
  BY DEF WakeupInv, vars, clientVars
<1>2. TypeOK /\ WakeupInv /\ [Next]_vars => WakeupInv'
  BY <1>1, WakeupClient, WakeupBroker DEF Next, ClientSide
<1> QED
  BY WakeupInit, <1>2, TypeCorrect, PTL DEF Spec

\* The network thread never blocks in poll() on a packet nobody will wake it
\* for (enqueuePacket, wakePipe and drainTxQueue), however many users there
\* are.
THEOREM QueueWakesNetwork == Spec => []WakeupForQueue
<1>1. WakeupInv => WakeupForQueue
  BY DEF WakeupInv, WakeupForQueue
<1> QED
  BY <1>1, WakeupCorrect, PTL

\* No wait of the network thread can outlast a stop request for want of a
\* wake-up (stop, waitWake, connectSocket, recvPacket, onlineLoop).
THEOREM StopWakesNetwork == Spec => []WakeupForStop
<1>1. WakeupInv => WakeupForStop
  BY DEF WakeupInv, WakeupForStop, Alert
<1> QED
  BY <1>1, WakeupCorrect, PTL

\* The two together: nothing the network thread should react to meets it asleep
\* without a wake-up.
THEOREM NetworkIsWoken == Spec => []WaitsAreWoken
<1>1. WakeupForQueue /\ WakeupForStop => WaitsAreWoken
  BY DEF WaitsAreWoken
<1> QED
  BY <1>1, QueueWakesNetwork, StopWakesNetwork, PTL
-----------------------------------------------------------------------------
(* The transmit path implements MqttOutbox: what waits in the batch and in *)

(* the queue, in this order, is the outbox.                                *)

Waiters == batch \o txQueue
Rank(item) == [n |-> item.n, pub |-> ~IsSubscription(item)]
RankType == [n : Nat, pub : BOOLEAN]

\* An item becomes its rank in the outbox.
LEMMA RankIsRank == ASSUME NEW item \in TxItem PROVE Rank(item) \in RankType
<1>1. item.n \in Nat BY DEF TxItem
<1> HIDE DEF IsSubscription
<1> QED BY <1>1 DEF Rank, RankType

\* The outbox has the length of what waits, ...
LEMMA RankedSeq ==
    ASSUME NEW s \in Seq(TxItem)
    PROVE  /\ Ranked(s) \in Seq(RankType) /\ Len(Ranked(s)) = Len(s)
           /\ \A i \in 1 .. Len(s) : Ranked(s)[i] = Rank(s[i])
<1>1. Len(s) \in Nat /\ DOMAIN s = 1 .. Len(s) /\ \A i \in 1 .. Len(s) : s[i] \in TxItem
  BY LenProperties, ElementOfSeq
<1>2. Ranked(s) = [i \in 1 .. Len(s) |-> Rank(s[i])] BY <1>1 DEF Ranked, Rank
<1>3. \A i \in 1 .. Len(s) : Rank(s[i]) \in RankType BY <1>1, RankIsRank
<1>4. Ranked(s) \in Seq(RankType) /\ Len(Ranked(s)) = Len(s)
  <2> HIDE DEF Rank, Ranked, RankType
  <2> QED BY <1>1, <1>2, <1>3
<1> QED BY <1>2, <1>4

\* ... is empty when nothing waits, ...
LEMMA RankedEmpty == Ranked(<<>>) = <<>>
<1>1. Ranked(<<>>) \in Seq(RankType) /\ Len(Ranked(<<>>)) = 0 BY EmptySeq, RankedSeq
<1> HIDE DEF Ranked, RankType
<1> QED BY <1>1, EmptySeq

\* ... its first entry is the rank of the first waiting item, ...
LEMMA RankedTail ==
    ASSUME NEW s \in Seq(TxItem), s # <<>>
    PROVE  /\ Ranked(s) # <<>> /\ Head(Ranked(s)) = Rank(Head(s))
           /\ Tail(Ranked(s)) = Ranked(Tail(s))
<1>1. Len(s) \in Nat \ {0} /\ Tail(s) \in Seq(TxItem) /\ Len(Tail(s)) = Len(s) - 1
  BY EmptySeq, HeadTailProperties
<1>2. Ranked(s) # <<>> BY <1>1, RankedSeq, EmptySeq
<1>3. Head(Ranked(s)) = Rank(Head(s))
  <2>1. ASSUME NEW S, NEW t \in Seq(S), t # <<>> PROVE Head(t) = t[1] BY <2>1
  <2>2. Head(s) = s[1] BY <2>1
  <2>3. Head(Ranked(s)) = Ranked(s)[1]
    <3> HIDE DEF Ranked
    <3> QED BY <1>2, <2>1, RankedSeq
  <2> HIDE DEF Ranked
  <2> QED BY <1>1, <2>2, <2>3, RankedSeq
<1>4. Tail(Ranked(s)) = Ranked(Tail(s))
  <2>1. /\ Tail(Ranked(s)) \in Seq(RankType) /\ Len(Tail(Ranked(s))) = Len(s) - 1
        /\ \A i \in 1 .. Len(s) - 1 : Tail(Ranked(s))[i] = Ranked(s)[i + 1]
    BY <1>1, <1>2, RankedSeq, HeadTailProperties
  <2>2. /\ Ranked(Tail(s)) \in Seq(RankType) /\ Len(Ranked(Tail(s))) = Len(s) - 1
        /\ \A i \in 1 .. Len(s) - 1 : Ranked(Tail(s))[i] = Rank(Tail(s)[i])
    BY <1>1, RankedSeq
  <2>3. \A i \in 1 .. Len(s) - 1 : Tail(s)[i] = s[i + 1] BY <1>1, HeadTailProperties
  <2>4. \A i \in 1 .. Len(s) - 1 : Ranked(s)[i + 1] = Rank(s[i + 1]) BY <1>1, RankedSeq
  <2> HIDE DEF Rank, Ranked, RankType
  <2> QED BY <2>1, <2>2, <2>3, <2>4, SeqEqual, SMTT(30)
<1> QED BY <1>2, <1>3, <1>4

\* ... and an item added at the end adds its rank at the end.
LEMMA RankedAppend ==
    ASSUME NEW s \in Seq(TxItem), NEW item \in TxItem
    PROVE  Ranked(Append(s, item)) = Append(Ranked(s), Rank(item))
<1>1. Len(s) \in Nat BY LenProperties
<1>2. /\ Append(s, item) \in Seq(TxItem) /\ Len(Append(s, item)) = Len(s) + 1
      /\ Append(s, item)[Len(s) + 1] = item
      /\ \A i \in 1 .. Len(s) : Append(s, item)[i] = s[i]
  BY AppendProperties
<1>3. /\ Ranked(Append(s, item)) \in Seq(RankType)
      /\ Len(Ranked(Append(s, item))) = Len(s) + 1
      /\ \A i \in 1 .. Len(s) + 1 : Ranked(Append(s, item))[i] = Rank(Append(s, item)[i])
  BY <1>2, RankedSeq
<1>4. Rank(item) \in RankType BY RankIsRank
<1>5. /\ Append(Ranked(s), Rank(item)) \in Seq(RankType)
      /\ Len(Append(Ranked(s), Rank(item))) = Len(s) + 1
      /\ \A i \in 1 .. Len(s) : Append(Ranked(s), Rank(item))[i] = Rank(s[i])
      /\ Append(Ranked(s), Rank(item))[Len(s) + 1] = Rank(item)
  BY <1>4, RankedSeq, AppendProperties
<1> HIDE DEF Rank, Ranked, RankType
<1> QED BY <1>1, <1>2, <1>3, <1>5, SeqEqual

\* What has been sent appears on the wire by its rank.
LEMMA WireAppend ==
    ASSUME NEW s \in Seq(TxItem), NEW item \in TxItem
    PROVE  [i \in DOMAIN Append(s, item) |-> Append(s, item)[i].n]
             = Append([i \in DOMAIN s |-> s[i].n], item.n)
<1> DEFINE wire == [i \in DOMAIN s |-> s[i].n]
           longer == [i \in DOMAIN Append(s, item) |-> Append(s, item)[i].n]
<1>1. Len(s) \in Nat /\ DOMAIN s = 1 .. Len(s) BY LenProperties
<1>2. /\ Append(s, item) \in Seq(TxItem) /\ DOMAIN Append(s, item) = 1 .. Len(s) + 1
      /\ Append(s, item)[Len(s) + 1] = item
      /\ \A i \in 1 .. Len(s) : Append(s, item)[i] = s[i]
  BY AppendProperties, LenProperties
<1>3. item.n \in Nat /\ \A i \in 1 .. Len(s) : s[i].n \in Nat
  <2>1. \A i \in 1 .. Len(s) : s[i] \in TxItem BY ElementOfSeq
  <2>2. \A x \in TxItem : x.n \in Nat BY DEF TxItem
  <2> QED BY <2>1, <2>2
<1>4. wire \in Seq(Nat) /\ Len(wire) = Len(s) BY <1>1, <1>3
<1>5. longer \in Seq(Nat) /\ Len(longer) = Len(s) + 1
  <2>1. \A i \in 1 .. Len(s) + 1 : Append(s, item)[i].n \in Nat BY <1>1, <1>2, <1>3
  <2> QED BY <1>1, <1>2, <2>1
<1>6. \A i \in 1 .. Len(s) + 1 : longer[i] = Append(wire, item.n)[i]
  BY <1>1, <1>2, <1>3, <1>4, AppendProperties
<1>7. Append(wire, item.n) \in Seq(Nat) /\ Len(Append(wire, item.n)) = Len(s) + 1
  BY <1>3, <1>4, AppendProperties
<1> HIDE DEF wire, longer
<1>8. longer = Append(wire, item.n) BY <1>5, <1>6, <1>7, SeqEqual
<1> QED BY <1>8 DEF wire, longer

\* What a batch has left is dealt with while the thread sends: elsewhere there is none.
BatchInv == npc # "send" => batch = <<>>

\* The waiting items are items, taking the first is taking the first of the batch,
\* and adding one to the queue is adding it at the end.
LEMMA WaitersType ==
    ASSUME TypeOK
    PROVE  /\ Waiters \in Seq(TxItem)
           /\ batch # <<>> => /\ Waiters # <<>> /\ Head(Waiters) = Head(batch)
                              /\ Tail(Waiters) = Tail(batch) \o txQueue
           /\ \A item \in TxItem :
                batch \o Append(txQueue, item) = Append(Waiters, item)
<1> USE DEF Waiters
<1>1. batch \in Seq(TxItem) /\ txQueue \in Seq(TxItem) BY DEF TypeOK
<1>2. Waiters \in Seq(TxItem) /\ Len(Waiters) = Len(batch) + Len(txQueue)
  BY <1>1, ConcatProperties
<1>3. ASSUME batch # <<>>
      PROVE  /\ Waiters # <<>> /\ Head(Waiters) = Head(batch)
             /\ Tail(Waiters) = Tail(batch) \o txQueue
  <2>1. Len(batch) \in Nat \ {0} /\ Len(txQueue) \in Nat BY <1>1, <1>3, EmptySeq, LenProperties
  <2>2. Waiters # <<>> BY <1>1, <1>3, ConcatEqualIffEmpty
  <2>3. Waiters[1] = batch[1] BY <1>1, <2>1, ConcatProperties
  <2>4. Head(Waiters) = Head(batch)
    <3> HIDE DEF Waiters
    <3> QED BY <1>1, <1>2, <1>3, <2>2, <2>3
  <2>5. /\ Tail(batch) \in Seq(TxItem) /\ Len(Tail(batch)) = Len(batch) - 1
        /\ \A i \in 1 .. Len(batch) - 1 : Tail(batch)[i] = batch[i + 1]
    BY <1>1, <1>3, HeadTailProperties
  <2>6. /\ Tail(Waiters) \in Seq(TxItem)
        /\ Len(Tail(Waiters)) = Len(batch) + Len(txQueue) - 1
        /\ \A i \in 1 .. Len(batch) + Len(txQueue) - 1 : Tail(Waiters)[i] = Waiters[i + 1]
    BY <1>2, <2>2, HeadTailProperties
  <2>7. /\ Tail(batch) \o txQueue \in Seq(TxItem)
        /\ Len(Tail(batch) \o txQueue) = Len(batch) + Len(txQueue) - 1
        /\ \A i \in 1 .. Len(batch) + Len(txQueue) - 1 : (Tail(batch) \o txQueue)[i]
               = IF i <= Len(batch) - 1 THEN Tail(batch)[i] ELSE txQueue[i - (Len(batch) - 1)]
    BY <1>1, <2>1, <2>5, ConcatProperties
  <2>8. \A i \in 1 .. Len(batch) + Len(txQueue) : Waiters[i]
            = IF i <= Len(batch) THEN batch[i] ELSE txQueue[i - Len(batch)]
    BY <1>1, ConcatProperties
  <2>9. \A i \in 1 .. Len(batch) + Len(txQueue) - 1 :
            Tail(Waiters)[i] = (Tail(batch) \o txQueue)[i]
    BY <2>1, <2>5, <2>6, <2>7, <2>8
  <2>10. Tail(Waiters) = Tail(batch) \o txQueue
    <3> HIDE DEF Waiters
    <3> QED BY <2>6, <2>7, <2>9, SeqEqual
  <2> QED BY <2>2, <2>4, <2>10
<1>4. ASSUME NEW item \in TxItem PROVE batch \o Append(txQueue, item) = Append(Waiters, item)
  <2>1. <<item>> \in Seq(TxItem) OBVIOUS
  <2>2. Append(txQueue, item) = txQueue \o <<item>> BY <1>1, AppendIsConcat
  <2>3. Append(Waiters, item) = Waiters \o <<item>> BY <1>2, AppendIsConcat
  <2> QED BY <1>1, <2>1, <2>2, <2>3, ConcatAssociative
<1> QED BY <1>2, <1>3, <1>4

\* Enqueuing a packet accepts it, or drops it.
LEMMA EnqueueAccepts ==
    ASSUME TypeOK, BatchInv, NEW u \in Users, EnqueuePacket(u)
    PROVE  BatchInv' /\ [Outbox!Next]_(Outbox!outboxVars)
<1>1. UNCHANGED <<npc, batch, sent, starts>> BY DEF EnqueuePacket, lifeVars
<1>2. BatchInv' BY <1>1 DEF BatchInv
<1>3. CASE UNCHANGED <<txQueue, accepted>> BY <1>1, <1>2, <1>3 DEF Outbox!outboxVars, Ranked
<1>4. CASE ~UNCHANGED <<txQueue, accepted>>
  <2> DEFINE item == [type |-> call[u].type, topic |-> call[u].topic,
                      id |-> call[u].id, online |-> connected, n |-> accepted + 1]
  <2>1. txQueue' = Append(txQueue, item) /\ accepted' = accepted + 1
    BY <1>4 DEF EnqueuePacket
  <2>2. item \in TxItem
    <3>1. call[u] \in Call /\ connected \in BOOLEAN /\ accepted + 1 \in Nat BY DEF TypeOK
    <3> QED BY <3>1 DEF Call, TxItem
  <2>3. Rank(item) = [n |-> accepted + 1, pub |-> ~IsSubscription(item)]
    <3> HIDE DEF IsSubscription
    <3> QED BY DEF Rank
  <2>4. (~IsSubscription(item)) \in BOOLEAN BY DEF IsSubscription
  <2> HIDE DEF item
  <2>5. batch' \o txQueue' = Append(Waiters, item) BY <1>1, <2>1, <2>2, WaitersType
  <2>6. Ranked(batch' \o txQueue') = Append(Ranked(Waiters), Rank(item))
    BY <2>2, <2>5, WaitersType, RankedAppend
  <2>7. Outbox!Accept
    <3>1. \E pub \in BOOLEAN : Ranked(batch' \o txQueue')
                 = Append(Ranked(batch \o txQueue), [n |-> accepted + 1, pub |-> pub])
      <4> HIDE DEF Ranked, IsSubscription
      <4> QED BY <2>3, <2>4, <2>6 DEF Waiters
    <3>2. Ranked(batch \o txQueue)' = Ranked(batch' \o txQueue') BY DEF Ranked
    <3>3. [i \in DOMAIN sent |-> sent[i].n]' = [i \in DOMAIN sent |-> sent[i].n] BY <1>1
    <3> HIDE DEF Ranked
    <3> QED BY <1>1, <2>1, <3>1, <3>2, <3>3 DEF Outbox!Accept
  <2> QED BY <1>2, <2>7 DEF Outbox!Next
<1> QED BY <1>3, <1>4

\* Sending an item sends the first of the outbox.
LEMMA SendItemSends ==
    ASSUME TypeOK, BatchInv, SendItem
    PROVE  BatchInv' /\ [Outbox!Next]_(Outbox!outboxVars)
<1>1. /\ npc = "send" /\ batch # <<>> /\ batch' = Tail(batch) /\ sent' = Append(sent, Head(batch))
      /\ UNCHANGED <<npc, txQueue, accepted, starts>>
  BY DEF SendItem, queueVars, lifeVars
<1>2. BatchInv' BY <1>1 DEF BatchInv
<1>3. Head(batch) \in TxItem /\ sent \in Seq(TxItem) BY <1>1 DEF TypeOK
<1>4. /\ Waiters \in Seq(TxItem) /\ Waiters # <<>> /\ Head(Waiters) = Head(batch)
      /\ Tail(Waiters) = batch' \o txQueue'
  BY <1>1, WaitersType
<1>5. /\ Ranked(Waiters) # <<>> /\ Head(Ranked(Waiters)).n = Head(batch).n
      /\ Ranked(batch' \o txQueue') = Tail(Ranked(Waiters))
  <2>1. Rank(Head(batch)).n = Head(batch).n BY DEF Rank
  <2> HIDE DEF Rank, Ranked
  <2> QED BY <1>4, <2>1, RankedTail
<1>6. [i \in DOMAIN sent |-> sent[i].n]' = Append([i \in DOMAIN sent |-> sent[i].n], Head(batch).n)
  BY <1>1, <1>3, WireAppend
<1>7. Ranked(batch \o txQueue)' = Ranked(batch' \o txQueue') BY DEF Ranked
<1>8. Outbox!Send
  <2> HIDE DEF Ranked
  <2> QED BY <1>1, <1>5, <1>6, <1>7 DEF Outbox!Send, Waiters
<1> QED BY <1>2, <1>8 DEF Outbox!Next

\* Skipping an item passes over the first of the outbox, which is no publish.
LEMMA SkipItemPassesOver ==
    ASSUME TypeOK, BatchInv, SkipItem
    PROVE  BatchInv' /\ [Outbox!Next]_(Outbox!outboxVars)
<1>1. /\ npc = "send" /\ batch # <<>> /\ batch' = Tail(batch) /\ IsSubscription(Head(batch))
      /\ UNCHANGED <<npc, txQueue, accepted, starts, sent>>
  BY DEF SkipItem, Superseded, queueVars, lifeVars
<1>2. BatchInv' BY <1>1 DEF BatchInv
<1>3. /\ Waiters \in Seq(TxItem) /\ Waiters # <<>> /\ Head(Waiters) = Head(batch)
      /\ Tail(Waiters) = batch' \o txQueue'
  BY <1>1, WaitersType
<1>4. /\ Ranked(Waiters) # <<>> /\ ~Head(Ranked(Waiters)).pub
      /\ Ranked(batch' \o txQueue') = Tail(Ranked(Waiters))
  <2>1. ~Rank(Head(batch)).pub BY <1>1, Zenon DEF Rank
  <2> HIDE DEF Rank, Ranked
  <2> QED BY <1>3, <2>1, RankedTail
<1>5. Ranked(batch \o txQueue)' = Ranked(batch' \o txQueue') BY DEF Ranked
<1>6. [i \in DOMAIN sent |-> sent[i].n]' = [i \in DOMAIN sent |-> sent[i].n] BY <1>1
<1>7. Outbox!PassOver
  <2> HIDE DEF Ranked
  <2> QED BY <1>1, <1>4, <1>5, <1>6 DEF Outbox!PassOver, Waiters
<1> QED BY <1>2, <1>7 DEF Outbox!Next

\* start() empties the outbox: no batch is left of an earlier run.
LEMMA StartRestarts ==
    ASSUME TypeOK, BatchInv, Start
    PROVE  BatchInv' /\ [Outbox!Next]_(Outbox!outboxVars)
<1>1. /\ npc = "none" /\ txQueue' = <<>> /\ starts' = starts + 1
      /\ UNCHANGED <<batch, sent, accepted>>
  BY DEF Start
<1>2. batch = <<>> BY <1>1 DEF BatchInv
<1>3. BatchInv' BY <1>1, <1>2 DEF BatchInv
<1>4. Ranked(batch \o txQueue)' = <<>>
  <2>1. <<>> \o <<>> = <<>> OBVIOUS
  <2>2. Ranked(<<>>) = <<>> BY RankedEmpty
  <2>3. Ranked(batch \o txQueue)' = Ranked(batch' \o txQueue') BY DEF Ranked
  <2> QED BY <1>1, <1>2, <2>1, <2>2, <2>3
<1>5. [i \in DOMAIN sent |-> sent[i].n]' = [i \in DOMAIN sent |-> sent[i].n] BY <1>1
<1>6. Outbox!Restart
  <2> HIDE DEF Ranked
  <2> QED BY <1>1, <1>4, <1>5 DEF Outbox!Restart
<1> QED BY <1>3, <1>6 DEF Outbox!Next

\* Taking the queue as the next batch, and putting the rest of a batch back in front
\* of the queue, change nothing of what waits and in which order.
LEMMA MovesStutter ==
    ASSUME TypeOK, BatchInv, TakeBatch \/ Requeue
    PROVE  BatchInv' /\ UNCHANGED Outbox!outboxVars
<1>1. UNCHANGED <<sent, accepted, starts>> BY DEF TakeBatch, Requeue, lifeVars
<1>2. batch \in Seq(TxItem) /\ txQueue \in Seq(TxItem) BY DEF TypeOK
<1>3. batch' \o txQueue' = batch \o txQueue
  <2>1. CASE TakeBatch
    <3>1. batch = <<>> /\ batch' = txQueue /\ txQueue' = <<>>
      BY <2>1 DEF TakeBatch, BatchInv
    <3> QED BY <1>2, <3>1, ConcatEmptySeq
  <2>2. CASE Requeue
    <3>1. batch' = <<>> /\ txQueue' = batch \o txQueue BY <2>2 DEF Requeue, Requeued
    <3> QED BY <1>2, <3>1, ConcatEmptySeq
  <2> QED BY <2>1, <2>2
<1>4. BatchInv' BY DEF BatchInv, TakeBatch, Requeue
<1>5. Ranked(batch \o txQueue)' = Ranked(batch' \o txQueue') BY DEF Ranked
<1>6. [i \in DOMAIN sent |-> sent[i].n]' = [i \in DOMAIN sent |-> sent[i].n] BY <1>1
<1> HIDE DEF Ranked
<1> QED BY <1>1, <1>3, <1>4, <1>5, <1>6 DEF Outbox!outboxVars

\* No other step of the client touches the queue, the batch or what has been sent, ...
LEMMA OthersKeepQueue ==
    ASSUME BatchInv, ClientStep, \A u \in Users : ~EnqueuePacket(u),
           ~Start, ~TakeBatch, ~Requeue, ~SkipItem, ~SendItem
    PROVE  BatchInv' /\ UNCHANGED <<batch, txQueue, sent, accepted, starts>>
<1> USE DEF BatchInv, queueVars, lifeVars
<1>1. ASSUME NEW u \in Users, UserStep(u), ~EnqueuePacket(u)
      PROVE  BatchInv' /\ UNCHANGED <<batch, txQueue, sent, accepted, starts>>
  BY <1>1 DEF UserStep, Publish, ChangeTable, TakePacketId, WakeAfterEnqueue
<1>2. CASE StopRequest \/ StopWake \/ StopJoin
  BY <1>2 DEF StopRequest, StopWake, StopJoin
<1>3. CASE LoopTop \/ BackoffWait \/ ConnectSucceeds \/ ConnectAbandoned \/ ConnectFails
  BY <1>3 DEF LoopTop, BackoffWait, ConnectSucceeds, ConnectAbandoned, ConnectFails
<1>4. CASE SendConnect \/ AwaitConnack \/ Announce \/ ResubscribeAll
  BY <1>4 DEF SendConnect, AwaitConnack, Announce, ResubscribeAll
<1>5. CASE BatchSent \/ NotExpired \/ ResendDup \/ GiveUp \/ TimersDone
  BY <1>5 DEF BatchSent, NotExpired, ResendDup, GiveUp, TimersDone
<1>6. CASE Poll \/ HandlePublish \/ HandlePuback \/ HandleOther \/ HandledAll
  BY <1>6 DEF Poll, HandlePublish, HandlePuback, HandleOther, HandledAll, HandlingPacket
<1>7. CASE OnDisconnect \/ LossReported \/ Cleanup \/ EndReported \/ ClosePipe
  BY <1>7 DEF OnDisconnect, LossReported, Cleanup, EndReported, ClosePipe, ContinueLoop
<1> QED
  BY <1>1, <1>2, <1>3, <1>4, <1>5, <1>6, <1>7 DEF ClientStep, LifeStep, NetworkStep

\* ... and the broker does not either.
LEMMA BrokerKeepsQueue ==
    ASSUME BatchInv, BrokerStep
    PROVE  BatchInv' /\ UNCHANGED <<batch, txQueue, sent, accepted, starts>>
BY DEF BatchInv, clientOnly, BrokerStep, BrokerReceives, BrokerConnect, BrokerSubscription,
       BrokerPublish, BrokerPuback, BrokerPushes, BrokerMisbehaves, LinkBreaks

\* Every step is one of the outbox, or changes nothing there.
LEMMA NextOutbox ==
    ASSUME TypeOK, BatchInv, [Next]_vars
    PROVE  BatchInv' /\ [Outbox!Next]_(Outbox!outboxVars)
<1>1. ASSUME UNCHANGED <<batch, txQueue, sent, accepted, starts>>
      PROVE  UNCHANGED Outbox!outboxVars
  BY <1>1 DEF Outbox!outboxVars, Ranked
<1>2. CASE UNCHANGED vars
  <2>1. UNCHANGED <<npc, batch, txQueue, sent, accepted, starts>>
    BY <1>2 DEF vars, clientVars
  <2> QED BY <1>1, <2>1 DEF BatchInv
<1>3. CASE BrokerStep BY <1>1, <1>3, BrokerKeepsQueue
<1>4. CASE ClientStep
  <2>1. ASSUME NEW u \in Users, EnqueuePacket(u)
        PROVE  BatchInv' /\ [Outbox!Next]_(Outbox!outboxVars)
    BY <2>1, EnqueueAccepts
  <2>2. CASE Start BY <2>2, StartRestarts
  <2>3. CASE TakeBatch \/ Requeue BY <2>3, MovesStutter
  <2>4. CASE SkipItem BY <2>4, SkipItemPassesOver
  <2>5. CASE SendItem BY <2>5, SendItemSends
  <2>6. ASSUME \A u \in Users : ~EnqueuePacket(u),
               ~Start, ~TakeBatch, ~Requeue, ~SkipItem, ~SendItem
        PROVE  BatchInv' /\ [Outbox!Next]_(Outbox!outboxVars)
    BY <1>1, <1>4, <2>6, OthersKeepQueue
  <2> QED BY <2>1, <2>2, <2>3, <2>4, <2>5, <2>6
<1> QED BY <1>2, <1>3, <1>4 DEF Next, ClientSide

\* An empty queue is an empty outbox.
LEMMA InitOutbox == Init => BatchInv /\ Outbox!Init
<1> SUFFICES ASSUME Init PROVE BatchInv /\ Outbox!Init
  OBVIOUS
<1>1. batch = <<>> /\ txQueue = <<>> /\ sent = <<>> /\ accepted = 0 /\ starts = 0
  BY DEF Init, ClientInit
<1>2. <<>> \o <<>> = <<>> OBVIOUS
<1>3. Ranked(<<>>) = <<>> BY RankedEmpty
<1>4. [i \in DOMAIN sent |-> sent[i].n] = <<>>
  <2>1. DOMAIN sent = {} BY <1>1
  <2>2. [i \in DOMAIN sent |-> sent[i].n] = [i \in {} |-> sent[i].n] BY <2>1
  <2> QED BY <2>2
<1> HIDE DEF Ranked
<1> QED BY <1>1, <1>2, <1>3, <1>4 DEF BatchInv, Outbox!Init

\* The transmit path implements MqttOutbox (OutboxSpec): whatever is requeued after a
\* failed send, and however users, reconnections, start() and stop() interleave with
\* drainTxQueue, packets are sent in the order they were accepted and only
\* subscriptions are passed over.
THEOREM TransmitPathIsOutbox == Spec => OutboxSpec
<1>1. TypeOK /\ BatchInv /\ [Next]_vars => BatchInv' /\ [Outbox!Next]_(Outbox!outboxVars)
  BY NextOutbox
<1> QED BY InitOutbox, <1>1, TypeCorrect, PTL DEF Spec, OutboxSpec, Outbox!Spec
-----------------------------------------------------------------------------
(* In which order packets are sent.  This is proved of MqttOutbox, and so  *)

(* holds of the client, which implements it.                               *)

SentRanks == [i \in DOMAIN sent |-> sent[i].n]
OpenRanks == Ranked(batch \o txQueue)

\* Ranks grow along what has been sent, w, and then along what waits, o, up to the
\* last rank given, m.
Grow(w, o, m) ==
    /\ \A i, j \in 1 .. Len(w) : i < j => w[i] < w[j]
    /\ \A i, j \in 1 .. Len(o) : i < j => o[i].n < o[j].n
    /\ \A i \in 1 .. Len(w), j \in 1 .. Len(o) : w[i] < o[j].n
    /\ \A i \in 1 .. Len(w) : w[i] <= m
    /\ \A i \in 1 .. Len(o) : o[i].n <= m
RanksGrow == Grow(SentRanks, OpenRanks, accepted)

\* The ranks are numbers.
LEMMA RanksType ==
    ASSUME TypeOK
    PROVE  /\ SentRanks \in Seq(Nat) /\ Len(SentRanks) = Len(sent)
           /\ OpenRanks \in Seq(RankType) /\ accepted \in Nat
<1>1. sent \in Seq(TxItem) /\ accepted \in Nat BY DEF TypeOK
<1>2. Len(sent) \in Nat /\ DOMAIN sent = 1 .. Len(sent) BY <1>1, LenProperties
<1>3. \A i \in 1 .. Len(sent) : sent[i].n \in Nat
  <2>1. \A i \in 1 .. Len(sent) : sent[i] \in TxItem BY <1>1
  <2>2. \A x \in TxItem : x.n \in Nat BY DEF TxItem
  <2> QED BY <2>1, <2>2
<1>4. SentRanks \in Seq(Nat) /\ Len(SentRanks) = Len(sent) BY <1>2, <1>3 DEF SentRanks
<1>5. OpenRanks \in Seq(RankType) BY WaitersType, RankedSeq DEF OpenRanks, Waiters
<1> QED BY <1>1, <1>4, <1>5

\* Every entry of an outbox has a number.
LEMMA NumberedRanks == \A o \in Seq(RankType) : \A i \in 1 .. Len(o) : o[i].n \in Nat
<1>1. \A x \in RankType : x.n \in Nat BY DEF RankType
<1> QED BY <1>1, ElementOfSeq

\* The next rank is the largest.
LEMMA GrowAccept ==
    ASSUME NEW w \in Seq(Nat), NEW o \in Seq(RankType), NEW m \in Nat, Grow(w, o, m),
           NEW new \in RankType, new.n = m + 1
    PROVE  Grow(w, Append(o, new), m + 1)
<1> DEFINE o1 == Append(o, new)
<1>1. Len(o) \in Nat /\ Len(w) \in Nat /\ \A i \in 1 .. Len(w) : w[i] \in Nat
  BY LenProperties
<1>2. \A i \in 1 .. Len(o) : o[i].n \in Nat BY NumberedRanks
<1>3. Len(o1) = Len(o) + 1 /\ o1[Len(o) + 1] = new /\ \A i \in 1 .. Len(o) : o1[i] = o[i]
  BY AppendProperties
<1> HIDE DEF o1
<1>4. \A i \in 1 .. Len(o1) : i \in 1 .. Len(o) \/ i = Len(o) + 1 BY <1>1, <1>3
<1>5. \A i \in 1 .. Len(o1) : o1[i].n \in Nat /\ o1[i].n <= m + 1
  BY <1>1, <1>2, <1>3, <1>4, SMTT(30) DEF Grow
<1>6. \A i, j \in 1 .. Len(o1) : i < j => o1[i].n < o1[j].n
  <2> SUFFICES ASSUME NEW i \in 1 .. Len(o1), NEW j \in 1 .. Len(o1), i < j
               PROVE  o1[i].n < o1[j].n
    OBVIOUS
  <2>1. i \in 1 .. Len(o) BY <1>1, <1>3
  <2>2. CASE j \in 1 .. Len(o) BY <1>3, <2>1, <2>2 DEF Grow
  <2>3. CASE j = Len(o) + 1
    <3>1. o1[i] = o[i] /\ o1[j] = new BY <1>3, <2>1, <2>3
    <3>2. o[i].n \in Nat /\ o[i].n <= m BY <1>2, <2>1 DEF Grow
    <3> QED BY <3>1, <3>2
  <2> QED BY <1>4, <2>2, <2>3
<1>7. \A i \in 1 .. Len(w), j \in 1 .. Len(o1) : w[i] < o1[j].n
  <2> SUFFICES ASSUME NEW i \in 1 .. Len(w), NEW j \in 1 .. Len(o1)
               PROVE  w[i] < o1[j].n
    OBVIOUS
  <2>1. CASE j \in 1 .. Len(o) BY <1>3, <2>1 DEF Grow
  <2>2. CASE j = Len(o) + 1
    <3>1. o1[j] = new /\ w[i] \in Nat /\ w[i] <= m BY <1>1, <1>3, <2>2 DEF Grow
    <3> QED BY <3>1
  <2> QED BY <1>4, <2>1, <2>2
<1>8. /\ \A i, j \in 1 .. Len(w) : i < j => w[i] < w[j]
      /\ \A i \in 1 .. Len(w) : w[i] <= m + 1
  BY <1>1 DEF Grow
<1> QED BY <1>5, <1>6, <1>7, <1>8 DEF Grow, o1

\* Without the first that waits the others keep their order, ...
LEMMA GrowTail ==
    ASSUME NEW w \in Seq(Nat), NEW o \in Seq(RankType), NEW m \in Nat, Grow(w, o, m),
           o # <<>>
    PROVE  Grow(w, Tail(o), m)
<1> DEFINE o1 == Tail(o)
<1>1. Len(o) \in Nat \ {0} BY EmptySeq
<1>2. Len(o1) = Len(o) - 1 /\ \A i \in 1 .. Len(o1) : o1[i] = o[i + 1]
  BY HeadTailProperties
<1> HIDE DEF o1
<1>3. \A i \in 1 .. Len(o1) : i \in Nat /\ i + 1 \in 1 .. Len(o) BY <1>1, <1>2
<1> QED BY <1>2, <1>3 DEF Grow, o1

\* ... and it is the next to be sent.
LEMMA GrowSend ==
    ASSUME NEW w \in Seq(Nat), NEW o \in Seq(RankType), NEW m \in Nat, Grow(w, o, m),
           o # <<>>
    PROVE  Grow(Append(w, Head(o).n), Tail(o), m)
<1> DEFINE o1 == Tail(o)
           n == Head(o).n
           w1 == Append(w, n)
<1>1. Len(o) \in Nat \ {0} /\ Len(w) \in Nat BY EmptySeq, LenProperties
<1>2. Len(o1) = Len(o) - 1 /\ \A i \in 1 .. Len(o1) : o1[i] = o[i + 1]
  BY HeadTailProperties
<1>3. n = o[1].n /\ n \in Nat
  <2>1. Head(o) = o[1] BY <1>1
  <2>2. 1 \in 1 .. Len(o) BY <1>1
  <2> QED BY <2>1, <2>2, NumberedRanks
<1>4. Len(w1) = Len(w) + 1 /\ w1[Len(w) + 1] = n /\ \A i \in 1 .. Len(w) : w1[i] = w[i]
  BY <1>3, AppendProperties
<1>5. Grow(w, o1, m) BY GrowTail
<1> HIDE DEF o1, n, w1
<1>6. \A i \in 1 .. Len(w1) : i \in 1 .. Len(w) \/ i = Len(w) + 1 BY <1>1, <1>4
<1>7. 1 \in 1 .. Len(o) /\ n <= m /\ \A i \in 1 .. Len(w) : w[i] < n
  <2>1. 1 \in 1 .. Len(o) BY <1>1
  <2> QED BY <1>3, <2>1 DEF Grow
<1>8. \A i \in 1 .. Len(o1) : n < o1[i].n
  <2>1. \A i \in 1 .. Len(o1) : i + 1 \in 1 .. Len(o) /\ 1 < i + 1 BY <1>1, <1>2
  <2> QED BY <1>2, <1>3, <1>7, <2>1 DEF Grow
<1>9. \A i, j \in 1 .. Len(w1) : i < j => w1[i] < w1[j]
  <2> SUFFICES ASSUME NEW i \in 1 .. Len(w1), NEW j \in 1 .. Len(w1), i < j
               PROVE  w1[i] < w1[j]
    OBVIOUS
  <2>1. i \in 1 .. Len(w) BY <1>1, <1>4
  <2>2. CASE j \in 1 .. Len(w) BY <1>4, <2>1, <2>2 DEF Grow
  <2>3. CASE j = Len(w) + 1 BY <1>4, <1>7, <2>1, <2>3
  <2> QED BY <1>6, <2>2, <2>3
<1>10. \A i \in 1 .. Len(w1), j \in 1 .. Len(o1) : w1[i] < o1[j].n
  BY <1>4, <1>5, <1>6, <1>8 DEF Grow
<1>11. \A i \in 1 .. Len(w1) : w1[i] <= m BY <1>4, <1>6, <1>7 DEF Grow
<1> QED BY <1>5, <1>9, <1>10, <1>11 DEF Grow, o1, n, w1

\* So a step of the outbox keeps the ranks growing.
LEMMA OutboxGrows ==
    ASSUME TypeOK, RanksGrow, [Outbox!Next]_(Outbox!outboxVars)
    PROVE  RanksGrow'
<1>1. SentRanks \in Seq(Nat) /\ OpenRanks \in Seq(RankType) /\ accepted \in Nat BY RanksType
<1>2. Grow(SentRanks, OpenRanks, accepted) BY DEF RanksGrow
<1>3. CASE Outbox!Accept
  <2>1. PICK pub \in BOOLEAN : OpenRanks' = Append(OpenRanks, [n |-> accepted + 1, pub |-> pub])
    BY <1>3 DEF Outbox!Accept, OpenRanks
  <2>2. SentRanks' = SentRanks /\ accepted' = accepted + 1
    BY <1>3 DEF Outbox!Accept, SentRanks
  <2> DEFINE new == [n |-> accepted + 1, pub |-> pub]
  <2>3. new \in RankType /\ new.n = accepted + 1 BY <1>1 DEF RankType
  <2>4. Grow(SentRanks, Append(OpenRanks, new), accepted + 1)
    <3> HIDE DEF new
    <3> QED BY <1>1, <1>2, <2>3, GrowAccept
  <2> QED BY <2>1, <2>2, <2>4 DEF RanksGrow
<1>4. CASE Outbox!Send
  <2>1. /\ OpenRanks # <<>> /\ OpenRanks' = Tail(OpenRanks) /\ accepted' = accepted
        /\ SentRanks' = Append(SentRanks, Head(OpenRanks).n)
    BY <1>4 DEF Outbox!Send, OpenRanks, SentRanks
  <2> QED BY <1>1, <1>2, <2>1, GrowSend DEF RanksGrow
<1>5. CASE Outbox!PassOver
  <2>1. /\ OpenRanks # <<>> /\ OpenRanks' = Tail(OpenRanks)
        /\ accepted' = accepted /\ SentRanks' = SentRanks
    BY <1>5 DEF Outbox!PassOver, OpenRanks, SentRanks
  <2> QED BY <1>1, <1>2, <2>1, GrowTail DEF RanksGrow
<1>6. CASE Outbox!Restart
  <2>1. OpenRanks' = <<>> /\ SentRanks' = SentRanks /\ accepted' = accepted
    BY <1>6 DEF Outbox!Restart, OpenRanks, SentRanks
  <2> QED BY <1>2, <2>1 DEF RanksGrow, Grow
<1>7. CASE UNCHANGED Outbox!outboxVars
  <2>1. UNCHANGED <<SentRanks, OpenRanks, accepted>>
    BY <1>7 DEF Outbox!outboxVars, OpenRanks, SentRanks
  <2> QED BY <2>1 DEF RanksGrow
<1> QED BY <1>3, <1>4, <1>5, <1>6, <1>7 DEF Outbox!Next

\* So it is from the start.
LEMMA RanksGrowCorrect == Spec => [](RanksGrow /\ BatchInv)
<1>1. Init => RanksGrow
  <2> SUFFICES ASSUME Init PROVE RanksGrow
    OBVIOUS
  <2>1. SentRanks = <<>> /\ OpenRanks = <<>>
    BY InitOutbox DEF Outbox!Init, SentRanks, OpenRanks
  <2>2. Len(SentRanks) = 0 /\ Len(OpenRanks) = 0 BY <2>1
  <2> QED BY <2>2 DEF RanksGrow, Grow
<1>2. TypeOK /\ RanksGrow /\ BatchInv /\ [Next]_vars => (RanksGrow /\ BatchInv)'
  BY NextOutbox, OutboxGrows
<1> QED BY <1>1, <1>2, InitOutbox, TypeCorrect, PTL DEF Spec

\* An item that is sent ranks after everything sent before.
LEMMA SentInOrder ==
    ASSUME TypeOK, RanksGrow
    PROVE  /\ \A i, j \in DOMAIN sent : i < j => sent[i].n < sent[j].n
           /\ batch # <<>> => \A i \in DOMAIN sent : sent[i].n < Head(batch).n
<1>1. sent \in Seq(TxItem) /\ DOMAIN sent = 1 .. Len(sent) BY LenProperties DEF TypeOK
<1>2. Len(SentRanks) = Len(sent) /\ \A i \in 1 .. Len(sent) : SentRanks[i] = sent[i].n
  BY <1>1, RanksType DEF SentRanks
<1>3. ASSUME batch # <<>> PROVE \A i \in DOMAIN sent : sent[i].n < Head(batch).n
  <2>1. Waiters \in Seq(TxItem) /\ Waiters # <<>> /\ Head(Waiters) = Head(batch)
    BY <1>3, WaitersType
  <2>2. OpenRanks[1].n = Head(batch).n /\ Len(OpenRanks) \in Nat \ {0}
    <3>1. Len(Waiters) \in Nat \ {0} BY <2>1, EmptySeq
    <3>2. Head(Waiters) = Waiters[1] BY <2>1
    <3>3. /\ Ranked(Waiters) \in Seq(RankType) /\ Len(Ranked(Waiters)) = Len(Waiters)
          /\ Ranked(Waiters)[1] = Rank(Head(batch))
      BY <2>1, <3>1, <3>2, RankedSeq
    <3>4. Rank(Head(batch)).n = Head(batch).n BY DEF Rank
    <3> HIDE DEF Rank, Ranked
    <3> QED BY <3>1, <3>3, <3>4 DEF OpenRanks, Waiters
  <2> QED BY <1>1, <1>2, <2>2 DEF RanksGrow, Grow
<1> QED BY <1>1, <1>2, <1>3 DEF RanksGrow, Grow

-----------------------------------------------------------------------------
(* What is under way.                                                      *)

Out == {sent[i] : i \in DOMAIN sent}
Publishes == {item \in Out : item.type = "Publish1"}
Received == {got[i].n : i \in DOMAIN got}

Items(S) == {ItemPkt(item, dup) : item \in S, dup \in BOOLEAN}

\* The client sends handshakes, acknowledgements, its table, and items of its queue.
ToBroker ==
    {ConnectPkt} \cup {AckPkt(id) : id \in PacketIds}
        \cup Items(Out)
        \cup {ResubPkt(topics) : topics \in SUBSET Topics}

\* The broker acknowledges what it has received, ...
Acks == {PubackPkt(item.id, item.n) : item \in {x \in Publishes : x.n \in Received}}
\* ... and sends these and other packets before or after it has accepted CONNECT.
Harmless ==
    {ConnackPkt(FALSE), OtherPkt, BadPkt} \cup {PublishPkt(qos) : qos \in {0, 1}} \cup Acks
ToClient == Harmless \cup {ConnackPkt(TRUE)}

Receipt == [n : Nat, dup : BOOLEAN]
Pending == [item : Publishes, resent : BOOLEAN]

Wire ==
    /\ toBroker \in Seq(ToBroker)
    /\ toClient \in Seq(ToClient) /\ rxBuf \in Seq(ToClient)
    /\ pendingPubs \in Seq(Pending)
    /\ got \in Seq(Receipt)

\* A sequence over a set is one over every larger set.
LEMMA LargerSet == ASSUME NEW S, NEW T, S \subseteq T, NEW s \in Seq(S) PROVE s \in Seq(T)
BY SeqMonotonic

\* An item travels for the first time, or again.
LEMMA ItemTravels ==
    ASSUME NEW S, NEW item \in S
    PROVE  ItemPkt(item, FALSE) \in Items(S) /\ ItemPkt(item, TRUE) \in Items(S)
<1>1. ASSUME NEW dup \in BOOLEAN PROVE ItemPkt(item, dup) \in Items(S)
  BY DEF Items
<1> QED BY <1>1, FALSE \in BOOLEAN, TRUE \in BOOLEAN, Zenon

\* As long as nothing new is sent and received the sets stay the same, ...
LEMMA SetsKept ==
    ASSUME UNCHANGED <<sent, got>>
    PROVE  /\ ToBroker' = ToBroker /\ ToClient' = ToClient /\ Harmless' = Harmless
           /\ Pending' = Pending /\ Publishes' = Publishes /\ Received' = Received
BY DEF ToBroker, ToClient, Harmless, Acks, Pending, Publishes, Out, Received

\* ... and they never become smaller.
LEMMA SetsGrow ==
    ASSUME Out \subseteq Out', Received \subseteq Received'
    PROVE  /\ ToBroker \subseteq ToBroker' /\ ToClient \subseteq ToClient'
           /\ Harmless \subseteq Harmless' /\ Pending \subseteq Pending'
<1>1. Publishes \subseteq Publishes' BY DEF Publishes
<1>2. ToBroker \subseteq ToBroker'
  <2>1. Items(Out) \subseteq Items(Out') BY DEF Items
  <2> QED BY <2>1 DEF ToBroker
<1>3. Acks \subseteq Acks' BY <1>1 DEF Acks
<1>4. Harmless \subseteq Harmless' BY <1>3 DEF Harmless
<1>5. Pending \subseteq Pending' BY <1>1 DEF Pending
<1> QED BY <1>2, <1>4, <1>5 DEF ToClient

\* Nothing is under way before the first start().
LEMMA InitWire == Init => Wire
<1>1. /\ <<>> \in Seq(ToBroker) /\ <<>> \in Seq(ToClient) /\ <<>> \in Seq(Pending)
      /\ <<>> \in Seq(Receipt)
  BY EmptySeq
<1> QED BY <1>1 DEF Init, ClientInit, Wire

\* Users, and whoever starts and stops the client, do not touch the connection.
LEMMA CallsWire == (\E u \in Users : UserStep(u)) \/ LifeStep => UNCHANGED <<toBroker, toClient, rxBuf, pendingPubs, sent, link>>
<1> USE DEF pubVars, linkVars
<1>1. ASSUME NEW u \in Users, UserStep(u)
      PROVE  UNCHANGED <<toBroker, toClient, rxBuf, pendingPubs, sent, link>>
  BY <1>1 DEF UserStep, Publish, ChangeTable, TakePacketId, EnqueuePacket, WakeAfterEnqueue
<1>2. ASSUME LifeStep
      PROVE  UNCHANGED <<toBroker, toClient, rxBuf, pendingPubs, sent, link>>
  BY <1>2 DEF LifeStep, Start, StopRequest, StopWake, StopJoin
<1> QED BY <1>1, <1>2

\* The steps of the network thread that do not touch it either.
QuietStep ==
    \/ LoopTop \/ BackoffWait \/ ConnectAbandoned \/ ConnectFails \/ ConnectSucceeds
    \/ Announce \/ TakeBatch \/ SkipItem \/ Requeue \/ BatchSent \/ NotExpired
    \/ TimersDone \/ HandledAll \/ LossReported \/ EndReported \/ ClosePipe

\* Indeed they do not.
LEMMA QuietWire == QuietStep => UNCHANGED <<toBroker, toClient, rxBuf, pendingPubs, sent>>
<1> USE DEF pubVars, linkVars
<1>1. CASE LoopTop \/ BackoffWait \/ ConnectAbandoned \/ ConnectFails \/ ConnectSucceeds
  BY <1>1 DEF LoopTop, BackoffWait, ConnectAbandoned, ConnectFails, ConnectSucceeds
<1>2. CASE Announce \/ TakeBatch \/ SkipItem \/ Requeue \/ BatchSent
  BY <1>2 DEF Announce, TakeBatch, SkipItem, Requeue, BatchSent, SendFails
<1>3. CASE NotExpired \/ TimersDone \/ HandledAll \/ LossReported \/ EndReported \/ ClosePipe
  BY <1>3 DEF NotExpired, TimersDone, HandledAll, LossReported, EndReported, ClosePipe
<1> QED BY <1>1, <1>2, <1>3 DEF QuietStep

\* A packet that is sent is under way if the connection is sound.
LEMMA SendsWire ==
    ASSUME Wire, NEW pkt, Sends(pkt) \/ SendFails, pkt \in ToBroker
    PROVE  toBroker' \in Seq(ToBroker)
<1>1. Append(toBroker, pkt) \in Seq(ToBroker) BY AppendProperties DEF Wire
<1>2. toBroker' \in {toBroker, Append(toBroker, pkt)} BY DEF Sends, SendFails
<1> QED BY <1>1, <1>2 DEF Wire

\* What is received and handled has been under way.
LEMMA ReceivesWire ==
    ASSUME NEW S, toClient \in Seq(S), rxBuf \in Seq(S),
           NEW k \in 1 .. Len(toClient), Receive(k)
    PROVE  /\ toClient' \in Seq(S)
           /\ rxBuf \o SubSeq(toClient, 1, k) \in Seq(S)
           /\ rxBuf \o SubSeq(toClient, 1, k) # <<>>
<1>1. SubSeq(toClient, 1, k) \in Seq(S) /\ Len(SubSeq(toClient, 1, k)) = k
  OBVIOUS
<1>2. toClient' \in Seq(S) BY DEF Receive
<1>3. rxBuf \o SubSeq(toClient, 1, k) \in Seq(S)
  BY <1>1
<1>4. Len(rxBuf \o SubSeq(toClient, 1, k)) > 0
  <2>1. Len(rxBuf \o SubSeq(toClient, 1, k)) = Len(rxBuf) + k
    BY <1>1, ConcatProperties
  <2>2. Len(rxBuf) \in Nat BY LenProperties
  <2> QED BY <2>1, <2>2
<1> QED BY <1>2, <1>3, <1>4, EmptySeq, SMTT(30)

\* The items of a batch, of pending publishes and of what has been sent.
LEMMA ItemsWire ==
    ASSUME TypeOK, Wire
    PROVE  /\ Out \subseteq TxItem
           /\ batch # <<>> => Head(batch) \in TxItem /\ Tail(batch) \in Seq(TxItem)
           /\ \A i \in DOMAIN pendingPubs : pendingPubs[i] \in Pending
BY DEF TypeOK, Wire, Out

\* A batch is sent item by item, and publishes become pending.
LEMMA SendItemWire == ASSUME TypeOK, Wire, SendItem, UNCHANGED got PROVE Wire'
<1> DEFINE item == Head(batch)
<1>1. /\ item \in TxItem /\ sent \in Seq(TxItem)
      /\ sent' = Append(sent, item)
  BY ItemsWire DEF SendItem, TypeOK
<1>2. Out' = Out \cup {item}
  <2> HIDE DEF item
  <2>1. Len(sent) \in Nat /\ DOMAIN sent = 1 .. Len(sent)
    BY <1>1, LenProperties
  <2>2. DOMAIN sent' = 1 .. Len(sent) + 1 BY <1>1, <2>1, AppendProperties
  <2>3. sent'[Len(sent) + 1] = item /\ \A i \in 1 .. Len(sent) : sent'[i] = sent[i]
    BY <1>1, <2>1, AppendProperties
  <2> QED BY <2>1, <2>2, <2>3 DEF Out
<1>3. Received' = Received BY DEF Received
<1>4. /\ ToBroker \subseteq ToBroker' /\ ToClient \subseteq ToClient'
      /\ Pending \subseteq Pending'
  BY <1>2, <1>3, SetsGrow
<1>5. ItemPkt(item, FALSE) \in ToBroker'
  <2> HIDE DEF item
  <2> DEFINE pkt == ItemPkt(item, FALSE)
  <2>1. pkt \in Items(Out') BY <1>2, ItemTravels
  <2> HIDE DEF pkt
  <2> QED BY <2>1 DEF ToBroker, pkt
<1>6. toBroker' \in Seq(ToBroker')
  <2>1. toBroker \in Seq(ToBroker') BY <1>4, LargerSet DEF Wire
  <2>2. toBroker' \in {toBroker, Append(toBroker, ItemPkt(item, FALSE))}
    BY DEF SendItem, Sends
  <2>3. Append(toBroker, ItemPkt(item, FALSE)) \in Seq(ToBroker')
    BY <1>5, <2>1, AppendProperties
  <2> QED BY <2>1, <2>2, <2>3
<1>7. toClient' \in Seq(ToClient') /\ rxBuf' \in Seq(ToClient')
  BY <1>4, LargerSet DEF Wire, SendItem
<1>8. pendingPubs' \in Seq(Pending')
  <2>1. pendingPubs \in Seq(Pending') BY <1>4, LargerSet DEF Wire
  <2>2. CASE item.type = "Publish1"
    <3>1. item \in Publishes' BY <1>2, <2>2 DEF Publishes
    <3>2. [item |-> item, resent |-> FALSE] \in Pending' BY <3>1 DEF Pending
    <3> QED BY <2>1, <2>2, <3>2 DEF SendItem
  <2>3. CASE item.type # "Publish1" BY <2>1, <2>3 DEF SendItem
  <2> QED BY <2>2, <2>3
<1> QED BY <1>6, <1>7, <1>8 DEF Wire

\* The connection packets are all the client may send besides the items.
LEMMA SmallPackets ==
    /\ ConnectPkt \in ToBroker /\ AckPkt(0) \in ToBroker
    /\ subscriptions \subseteq Topics => ResubPkt(subscriptions) \in ToBroker
<1>1. ConnectPkt \in ToBroker BY DEF ToBroker
<1>2. AckPkt(0) \in ToBroker
  <2>1. 0 \in PacketIds BY ClientAssumption DEF ClientAssumption, PacketIds
  <2> QED BY <2>1 DEF ToBroker
<1>3. subscriptions \subseteq Topics => ResubPkt(subscriptions) \in ToBroker
  <2>1. subscriptions \subseteq Topics => subscriptions \in SUBSET Topics OBVIOUS
  <2> QED BY <2>1 DEF ToBroker
<1> QED BY <1>1, <1>2, <1>3

\* A pending publish that is sent again has been sent before.
LEMMA ResendWire ==
    ASSUME TypeOK, Wire, ResendDup, UNCHANGED <<sent, got>>
    PROVE  Wire'
<1>1. cursor \in 1 .. Len(pendingPubs) BY DEF ResendDup, TypeOK
<1> DEFINE pub == pendingPubs[cursor]
           pkt == ItemPkt(pub.item, TRUE)
<1>2. pub \in Pending BY <1>1 DEF Wire
<1>3. pub.item \in Out BY <1>2 DEF Pending, Publishes
<1>4. pkt \in ToBroker
  <2> HIDE DEF pub
  <2>1. pkt \in Items(Out) BY <1>3, ItemTravels
  <2> HIDE DEF pkt
  <2> QED BY <2>1 DEF ToBroker
<1>5. Sends(pkt) \/ SendFails BY DEF ResendDup
<1>6. toBroker' \in Seq(ToBroker)
  <2> HIDE DEF pkt
  <2> QED BY <1>4, <1>5, SendsWire
<1>7. pendingPubs' \in Seq(Pending)
  <2>1. [pub EXCEPT !.resent = TRUE] \in Pending BY <1>2 DEF Pending
  <2>2. [pendingPubs EXCEPT ![cursor].resent = TRUE] \in Seq(Pending)
    BY <1>1, <2>1, ExceptSeq DEF Wire
  <2> QED BY <2>2 DEF ResendDup, Wire
<1>8. UNCHANGED <<toClient, rxBuf>> BY DEF ResendDup
<1> QED BY <1>6, <1>7, <1>8, SetsKept DEF Wire

\* A pending publish that is given up or acknowledged leaves the others.
LEMMA RemovalWire ==
    ASSUME Wire, NEW i \in 1 .. Len(pendingPubs) PROVE RemovePending(i) \in Seq(Pending)
BY RemoveOneType DEF Wire, RemovePending

\* The rest of what the network thread does with packets.
LEMMA NetworkWire ==
    ASSUME TypeOK, Wire, NetworkStep, UNCHANGED got PROVE Wire'
<1>1. CASE QuietStep
  BY <1>1, QuietWire, SetsKept DEF Wire
<1>2. CASE SendConnect
  <2>1. toBroker' \in Seq(ToBroker)
    BY <1>2, SendsWire, SmallPackets DEF SendConnect
  <2>2. UNCHANGED <<toClient, rxBuf, pendingPubs, sent>>
    BY <1>2 DEF SendConnect, pubVars
  <2> QED BY <2>1, <2>2, SetsKept DEF Wire
<1>3. CASE AwaitConnack
  <2>1. UNCHANGED <<toBroker, pendingPubs, sent>> BY <1>3 DEF AwaitConnack, pubVars
  <2>2. CASE UNCHANGED <<rxBuf, toClient>> BY <2>1, <2>2, SetsKept DEF Wire
  <2>3. CASE ~UNCHANGED <<rxBuf, toClient>>
    <3>1. PICK k \in 1 .. Len(toClient) :
             Receive(k) /\ rxBuf' = Tail(rxBuf \o SubSeq(toClient, 1, k))
      BY <1>3, <2>3 DEF AwaitConnack
    <3>2. toClient \in Seq(ToClient) /\ rxBuf \in Seq(ToClient) BY DEF Wire
    <3> DEFINE buf == rxBuf \o SubSeq(toClient, 1, k)
    <3>3. toClient' \in Seq(ToClient) /\ buf \in Seq(ToClient) /\ buf # <<>>
      BY <3>1, <3>2, ReceivesWire
    <3> HIDE DEF buf
    <3>4. rxBuf' \in {buf, Tail(buf)} BY <3>1 DEF buf
    <3>5. rxBuf' \in Seq(ToClient) BY <3>3, <3>4
    <3> QED BY <2>1, <3>3, <3>5, SetsKept DEF Wire
  <2> QED BY <2>2, <2>3
<1>4. CASE ResubscribeAll
  <2>1. toBroker' \in Seq(ToBroker)
    <3>1. CASE subscriptions = {} BY <1>4, <3>1 DEF ResubscribeAll, Wire
    <3>2. CASE subscriptions # {}
      BY <1>4, <3>2, SendsWire, SmallPackets DEF ResubscribeAll, TypeOK
    <3> QED BY <3>1, <3>2
  <2>2. UNCHANGED <<toClient, rxBuf, pendingPubs, sent>>
    BY <1>4 DEF ResubscribeAll, pubVars
  <2> QED BY <2>1, <2>2, SetsKept DEF Wire
<1>5. CASE SendItem BY <1>5, SendItemWire
<1>6. CASE ResendDup
  <2>1. UNCHANGED sent BY <1>6 DEF ResendDup
  <2> QED BY <1>6, <2>1, ResendWire
<1>7. CASE GiveUp
  <2>1. /\ cursor \in 1 .. Len(pendingPubs) /\ pendingPubs' = RemovePending(cursor)
        /\ UNCHANGED <<toBroker, toClient, rxBuf, sent>>
    BY <1>7 DEF GiveUp, TypeOK, linkVars
  <2> QED BY <2>1, RemovalWire, SetsKept DEF Wire
<1>8. CASE Poll
  <2>1. UNCHANGED <<toBroker, pendingPubs, sent>> BY <1>8 DEF Poll, pubVars
  <2>2. CASE UNCHANGED <<rxBuf, toClient>> BY <2>1, <2>2, SetsKept DEF Wire
  <2>3. CASE ~UNCHANGED <<rxBuf, toClient>>
    <3>1. PICK k \in 1 .. Len(toClient) :
             Receive(k) /\ rxBuf' = rxBuf \o SubSeq(toClient, 1, k)
      BY <1>8, <2>3 DEF Poll
    <3>2. toClient \in Seq(ToClient) /\ rxBuf \in Seq(ToClient) BY DEF Wire
    <3> DEFINE buf == rxBuf \o SubSeq(toClient, 1, k)
    <3>3. toClient' \in Seq(ToClient) /\ buf \in Seq(ToClient) /\ buf # <<>>
      BY <3>1, <3>2, ReceivesWire
    <3> HIDE DEF buf
    <3>4. rxBuf' \in {buf, Tail(buf)} BY <3>1 DEF buf
    <3>5. rxBuf' \in Seq(ToClient) BY <3>3, <3>4
    <3> QED BY <2>1, <3>3, <3>5, SetsKept DEF Wire
  <2> QED BY <2>2, <2>3
<1>9. CASE HandlePublish
  <2>1. toBroker' \in Seq(ToBroker)
    <3>1. UNCHANGED toBroker \/ Sends(AckPkt(0)) \/ SendFails BY <1>9 DEF HandlePublish
    <3>2. CASE UNCHANGED toBroker BY <3>2 DEF Wire
    <3> QED BY <3>1, <3>2, SendsWire, SmallPackets
  <2>2. UNCHANGED <<toClient, pendingPubs, sent>> /\ rxBuf # <<>> /\ rxBuf' = Tail(rxBuf)
    BY <1>9 DEF HandlePublish, HandlingPacket, pubVars
  <2> QED BY <2>1, <2>2, SetsKept DEF Wire
<1>10. CASE HandlePuback
  <2>1. UNCHANGED <<toBroker, toClient, sent>> /\ rxBuf # <<>> /\ rxBuf' = Tail(rxBuf)
    BY <1>10 DEF HandlePuback, HandlingPacket, linkVars
  <2>2. UNCHANGED pendingPubs \/ \E i \in 1 .. Len(pendingPubs) : pendingPubs' = RemovePending(i)
    <3>1. DOMAIN pendingPubs = 1 .. Len(pendingPubs) BY LenProperties DEF Wire
    <3> QED BY <1>10, <3>1 DEF HandlePuback
  <2> QED BY <2>1, <2>2, RemovalWire, SetsKept DEF Wire
<1>11. CASE HandleOther
  <2>1. UNCHANGED <<toBroker, toClient, pendingPubs, sent>> /\ rxBuf # <<>> /\ rxBuf' = Tail(rxBuf)
    BY <1>11 DEF HandleOther, linkVars, pubVars
  <2> QED BY <2>1, SetsKept DEF Wire
<1>12. CASE OnDisconnect \/ Cleanup
  <2>1. /\ toBroker' = <<>> /\ toClient' = <<>> /\ rxBuf' = <<>> /\ pendingPubs' = <<>>
        /\ UNCHANGED sent
    BY <1>12 DEF OnDisconnect, Cleanup, CloseSocket
  <2> QED BY <2>1, EmptySeq, SetsKept DEF Wire
<1> QED
  BY <1>1, <1>2, <1>3, <1>4, <1>5, <1>6, <1>7, <1>8, <1>9, <1>10, <1>11, <1>12
  DEF NetworkStep, QuietStep

\* A publish on its way to the broker is an item that has been sent.
LEMMA PublishOnWire ==
    ASSUME NEW pkt \in ToBroker, pkt.type \in {"Publish0", "Publish1"}
    PROVE  /\ \E item \in Out : pkt.type = item.type /\ pkt.id = item.id /\ pkt.n = item.n
           /\ pkt.dup \in BOOLEAN
<1>1. CASE pkt \in Items(Out)
  <2>1. PICK item \in Out, dup \in BOOLEAN : pkt = ItemPkt(item, dup) BY <1>1 DEF Items
  <2> QED BY <2>1 DEF ItemPkt
<1>2. pkt \notin {ConnectPkt} \cup {AckPkt(id) : id \in PacketIds}
             \cup {ResubPkt(topics) : topics \in SUBSET Topics}
  BY DEF ConnectPkt, AckPkt, ResubPkt
<1> QED BY <1>1, <1>2 DEF ToBroker

\* The broker acknowledges a publish when it has received it.
LEMMA Acknowledges ==
    ASSUME TypeOK, Wire, BrokerPublish
    PROVE  /\ got' \in Seq(Receipt)
           /\ Out' = Out /\ Received \subseteq Received'
           /\ UNCHANGED toClient \/ \E ack \in Acks' : toClient' = Append(toClient, ack)
<1> DEFINE pkt == Head(toBroker)
           receipt == [n |-> pkt.n, dup |-> pkt.dup]
<1>1. pkt \in ToBroker /\ pkt.type \in {"Publish0", "Publish1"}
  BY DEF Wire, BrokerPublish, Incoming
<1>2. /\ got' = Append(got, receipt) /\ UNCHANGED sent
      /\ IF pkt.type = "Publish1" THEN toClient' = Append(toClient, PubackPkt(pkt.id, pkt.n))
         ELSE UNCHANGED toClient
  BY DEF BrokerPublish, Answer, clientOnly
<1> HIDE DEF pkt
<1>3. PICK item \in Out : pkt.type = item.type /\ pkt.id = item.id /\ pkt.n = item.n
  BY <1>1, PublishOnWire
<1>4. receipt \in Receipt
  <2>1. pkt.dup \in BOOLEAN BY <1>1, PublishOnWire
  <2>2. item.n \in Nat BY <1>3, ItemsWire DEF TxItem
  <2> QED BY <1>3, <2>1, <2>2 DEF Receipt
<1>5. Received' = Received \cup {pkt.n}
  <2> HIDE DEF receipt
  <2>1. /\ Len(got) \in Nat /\ DOMAIN got = 1 .. Len(got)
        /\ DOMAIN got' = 1 .. Len(got) + 1
        /\ got'[Len(got) + 1] = receipt /\ \A i \in 1 .. Len(got) : got'[i] = got[i]
    BY <1>2, <1>4, LenProperties, AppendProperties DEF Wire
  <2>2. Received' = Received \cup {receipt.n} BY <2>1 DEF Received
  <2> QED BY <2>2 DEF receipt
<1>6. Out' = Out BY <1>2 DEF Out
<1>7. pkt.type = "Publish1" => PubackPkt(pkt.id, pkt.n) \in Acks'
  <2>1. pkt.type = "Publish1" => item \in Publishes' /\ item.n \in Received'
    BY <1>3, <1>5, <1>6 DEF Publishes
  <2> QED BY <1>3, <2>1 DEF Acks
<1>8. got' \in Seq(Receipt)
  <2> HIDE DEF receipt
  <2> QED BY <1>2, <1>4, AppendProperties DEF Wire
<1> QED BY <1>2, <1>5, <1>6, <1>7, <1>8

\* So what is under way stays of its kind.
LEMMA BrokerPublishWire == ASSUME TypeOK, Wire, BrokerPublish PROVE Wire'
<1>1. /\ toBroker # <<>> /\ toBroker' = Tail(toBroker)
      /\ UNCHANGED <<rxBuf, pendingPubs, sent>>
  BY DEF BrokerPublish, Incoming, clientOnly
<1>2. /\ ToBroker \subseteq ToBroker' /\ ToClient \subseteq ToClient'
      /\ Pending \subseteq Pending'
  BY Acknowledges, SetsGrow
<1>3. toBroker' \in Seq(ToBroker')
  <2>1. toBroker \in Seq(ToBroker') BY <1>2, LargerSet DEF Wire
  <2> QED BY <1>1, <2>1
<1>4. toClient' \in Seq(ToClient')
  <2>1. toClient \in Seq(ToClient') BY <1>2, LargerSet DEF Wire
  <2>2. ASSUME NEW ack \in Acks', toClient' = Append(toClient, ack)
        PROVE  toClient' \in Seq(ToClient')
    <3>1. ack \in ToClient' BY <2>2 DEF ToClient, Harmless
    <3> QED BY <2>1, <2>2, <3>1, AppendProperties
  <2> QED BY <2>1, <2>2, Acknowledges
<1>5. rxBuf' \in Seq(ToClient') /\ pendingPubs' \in Seq(Pending')
  BY <1>1, <1>2, LargerSet DEF Wire
<1>6. got' \in Seq(Receipt') BY Acknowledges DEF Receipt
<1> QED BY <1>3, <1>4, <1>5, <1>6 DEF Wire

\* Its other answers are of the kinds expected.
LEMMA BrokerWire == ASSUME TypeOK, Wire, BrokerStep PROVE Wire'
<1> USE DEF clientOnly, Answer
<1>1. /\ ConnackPkt(TRUE) \in ToClient /\ ConnackPkt(FALSE) \in ToClient
      /\ OtherPkt \in ToClient /\ BadPkt \in ToClient
      /\ \A qos \in {0, 1} : PublishPkt(qos) \in ToClient
  BY DEF ToClient, Harmless
<1>2. CASE BrokerConnect \/ BrokerSubscription \/ BrokerPuback
  <2>1. UNCHANGED <<rxBuf, pendingPubs, sent, got>> /\ toBroker # <<>> /\ toBroker' = Tail(toBroker)
    BY <1>2 DEF BrokerConnect, BrokerSubscription, BrokerPuback, Incoming, brokerVars
  <2>2. \/ UNCHANGED toClient
        \/ \E pkt \in ToClient : toClient' = Append(toClient, pkt)
    BY <1>1, <1>2 DEF BrokerConnect, BrokerSubscription, BrokerPuback
  <2>3. toClient' \in Seq(ToClient)
    <3>1. ASSUME NEW pkt \in ToClient, toClient' = Append(toClient, pkt)
          PROVE  toClient' \in Seq(ToClient)
      BY <3>1, AppendProperties DEF Wire
    <3>2. UNCHANGED toClient => toClient' \in Seq(ToClient) BY DEF Wire
    <3> QED BY <2>2, <3>1, <3>2
  <2>4. toBroker' \in Seq(ToBroker) BY <2>1 DEF Wire
  <2> QED BY <2>1, <2>3, <2>4, SetsKept DEF Wire, Receipt
<1>3. CASE BrokerPublish BY <1>3, BrokerPublishWire
<1>4. CASE BrokerPushes \/ BrokerMisbehaves
  <2>1. UNCHANGED <<toBroker, rxBuf, pendingPubs, sent, got>>
    BY <1>4 DEF BrokerPushes, BrokerMisbehaves, brokerVars
  <2>2. \E pkt \in ToClient : toClient' = Append(toClient, pkt)
    BY <1>1, <1>4 DEF BrokerPushes, BrokerMisbehaves
  <2> QED BY <2>1, <2>2, SetsKept, AppendProperties DEF Wire
<1>5. CASE LinkBreaks
  <2>1. UNCHANGED <<toClient, rxBuf, pendingPubs, sent, got>> /\ toBroker' = <<>>
    BY <1>5 DEF LinkBreaks
  <2> QED BY <2>1, EmptySeq, SetsKept DEF Wire
<1> QED BY <1>2, <1>3, <1>4, <1>5 DEF BrokerStep, BrokerReceives

\* Together: whatever happens, what is under way is of its kind.
LEMMA NextWire == TypeOK /\ Wire /\ [Next]_vars => Wire'
<1>1. ASSUME Wire, ClientSide, TypeOK PROVE Wire'
  <2>1. UNCHANGED got BY <1>1 DEF ClientSide
  <2>2. CASE (\E u \in Users : UserStep(u)) \/ LifeStep
    <3>1. UNCHANGED <<toBroker, toClient, rxBuf, pendingPubs, sent>> BY <2>2, CallsWire
    <3> QED BY <1>1, <2>1, <3>1, SetsKept DEF Wire, Receipt
  <2>3. CASE NetworkStep BY <1>1, <2>1, <2>3, NetworkWire
  <2> QED BY <1>1, <2>2, <2>3 DEF ClientSide, ClientStep
<1>2. ASSUME Wire, UNCHANGED vars PROVE Wire'
  <2>1. UNCHANGED <<toBroker, toClient, rxBuf, pendingPubs, sent, got>>
    BY <1>2 DEF vars, clientVars, brokerVars
  <2> QED BY <1>2, <2>1, SetsKept DEF Wire, Receipt
<1> QED BY <1>1, <1>2, BrokerWire DEF Next
-----------------------------------------------------------------------------
(* The connection flag.                                                    *)

\* Where the network thread has no socket, and where it has one.
Detached == {"none", "backoff", "connect", "lost", "left", "closepipe", "done"}
Attached == {"hello", "connack", "announce", "resubscribe", "drain", "send", "timers",
             "poll", "handle"}
\* Where it serves a session.
Serves == Attached \ {"hello", "connack", "announce"}

\* Before the broker has accepted CONNECT nothing under way says it has.
Handshake ==
    /\ session \in BOOLEAN
    /\ npc \in Detached => link = "none"
    /\ npc \in Attached => link # "none"
    /\ link = "none" => toClient = <<>> /\ rxBuf = <<>> /\ ~session
    /\ link = "up" /\ ~session => toClient \in Seq(Harmless) /\ rxBuf \in Seq(Harmless)
    /\ npc = "announce" /\ link = "up" => session
    /\ npc = "top" /\ link # "none" => connected
    /\ ConnectedIsHonest

\* An acceptance is none of the other packets.
LEMMA AcceptanceDiffers == ConnackPkt(TRUE) \notin Harmless
<1>1. ConnackPkt(TRUE) # ConnackPkt(FALSE)
  <2>1. ConnackPkt(TRUE).ok /\ ~ConnackPkt(FALSE).ok BY DEF ConnackPkt
  <2> QED BY <2>1, Zenon
<1>2. /\ ConnackPkt(TRUE) # OtherPkt /\ ConnackPkt(TRUE) # BadPkt
      /\ \A qos \in {0, 1} : ConnackPkt(TRUE) # PublishPkt(qos)
      /\ \A id, n : ConnackPkt(TRUE) # PubackPkt(id, n)
  BY DEF ConnackPkt, OtherPkt, BadPkt, PublishPkt, PubackPkt
<1>3. ConnackPkt(TRUE) \notin Acks BY <1>2 DEF Acks
<1> QED BY <1>1, <1>2, <1>3 DEF Harmless

\* There is no connection to begin with.
LEMMA InitHandshake == Init => Handshake
<1>1. <<>> \in Seq(Harmless) BY EmptySeq
<1> QED
  BY <1>1 DEF Init, ClientInit, Handshake, ConnectedIsHonest, Detached, Attached

\* Users leave the connection alone; start() finds none, and stop() waits until
\* there is none.
LEMMA CallsHandshake ==
    ASSUME Handshake, (\E u \in Users : UserStep(u)) \/ LifeStep,
           session' = (session /\ link' # "none"), UNCHANGED got
    PROVE  Handshake'
<1>1. UNCHANGED <<toBroker, toClient, rxBuf, pendingPubs, sent, link>> BY CallsWire
<1>2. Harmless' = Harmless BY <1>1, SetsKept
<1>3. session' = session BY <1>1 DEF Handshake
<1>4. CASE \E u \in Users : UserStep(u)
  <2>1. UNCHANGED <<npc, connected>>
    BY <1>4 DEF UserStep, Publish, ChangeTable, TakePacketId, EnqueuePacket, WakeAfterEnqueue
  <2> QED BY <1>1, <1>2, <1>3, <2>1 DEF Handshake, ConnectedIsHonest
<1>5. CASE LifeStep
  <2>1. \/ UNCHANGED <<npc, connected>>
        \/ npc \in {"none", "done"} /\ npc' \in {"top", "none"} /\ connected' = FALSE
    BY <1>5 DEF LifeStep, Start, StopRequest, StopWake, StopJoin
  <2> QED
    BY <1>1, <1>2, <1>3, <2>1 DEF Handshake, ConnectedIsHonest, Detached, Attached
<1> QED BY <1>4, <1>5

\* A step that keeps the socket, takes in nothing but what is under way, and
\* does not set the flag keeps the invariant, unless it goes where the socket
\* should be another.
LEMMA SameSocket ==
    ASSUME Handshake, UNCHANGED <<link, got>>, Out \subseteq Out',
           session' = (session /\ link' # "none"),
           connected' => connected /\ npc \notin {"lost", "left"},
           npc' \in Serves \/ (npc' = "top" /\ link # "none") => connected',
           link = "none" => toClient' = <<>> /\ rxBuf' = <<>>,
           link = "up" /\ ~session => toClient' \in Seq(Harmless) /\ rxBuf' \in Seq(Harmless),
           npc' \in Detached => link = "none", npc' \in Attached => link # "none",
           npc' # "announce"
    PROVE  Handshake'
<1>1. Received' = Received BY DEF Received
<1>2. Harmless \subseteq Harmless' BY <1>1, SetsGrow
<1>3. session' = session BY DEF Handshake
<1>4. link = "up" /\ ~session => toClient' \in Seq(Harmless') /\ rxBuf' \in Seq(Harmless')
  BY <1>2, LargerSet
<1> QED BY <1>3, <1>4 DEF Handshake, ConnectedIsHonest, Attached, Serves

\* What has been sent is a history: the network thread adds to its end or nothing.
LEMMA SentGrows ==
    ASSUME TypeOK, NetworkStep
    PROVE  UNCHANGED sent \/ \E item \in TxItem : sent' = Append(sent, item)
<1>1. CASE SendItem
  <2>1. Head(batch) \in TxItem /\ sent' = Append(sent, Head(batch))
    BY <1>1 DEF SendItem, TypeOK
  <2> QED BY <2>1
<1>2. CASE ~SendItem
  BY <1>2, QuietWire
  DEF NetworkStep, QuietStep, SendConnect, AwaitConnack, ResubscribeAll, ResendDup, GiveUp,
      Poll, HandlePublish, HandlePuback, HandleOther, OnDisconnect, Cleanup
<1> QED BY <1>1, <1>2

\* The steps of the network thread that leave what has come in alone.
LEMMA SocketSteps ==
    ASSUME TypeOK, Handshake, NetworkStep, UNCHANGED <<toClient, rxBuf, link, got>>,
           session' = (session /\ link' # "none"),
           ~AwaitConnack, ~Announce, ~ConnectSucceeds
    PROVE  Handshake'
<1>1. Out \subseteq Out'
  <2>1. ASSUME NEW item \in TxItem, sent' = Append(sent, item) PROVE Out \subseteq Out'
    <3>1. /\ DOMAIN sent = 1 .. Len(sent) /\ DOMAIN sent' = 1 .. Len(sent) + 1
          /\ Len(sent) \in Nat /\ \A i \in 1 .. Len(sent) : sent'[i] = sent[i]
      BY <2>1, LenProperties, AppendProperties DEF TypeOK
    <3> QED BY <3>1 DEF Out
  <2>2. UNCHANGED sent => Out \subseteq Out' BY DEF Out
  <2> QED BY <2>1, <2>2, SentGrows
<1>2. /\ connected' => connected /\ npc \notin {"lost", "left"}
      /\ npc' \in Serves \/ (npc' = "top" /\ link # "none") => connected'
      /\ npc' \in Detached => link = "none"
      /\ npc' \in Attached => link # "none"
      /\ npc' # "announce"
  <2> DEFINE Sound ==
        /\ connected' => connected /\ npc \notin {"lost", "left"}
        /\ npc' \in Serves \/ (npc' = "top" /\ link # "none") => connected'
        /\ npc' \in Detached => link = "none"
        /\ npc' \in Attached => link # "none"
        /\ npc' # "announce"
  <2> USE DEF Handshake, ConnectedIsHonest, Detached, Attached, Serves
  <2>0. ASSUME connected' = connected, npc \in Serves,
               npc' \in {npc, "top", "timers", "send", "poll", "disconnect"}
        PROVE  Sound
    BY <2>0
  <2>1. CASE LoopTop \/ BackoffWait \/ ConnectAbandoned \/ ConnectFails
    <3>1. CASE LoopTop
      <4>1. connected' = connected /\ npc = "top" /\ npc' = LoopBranch BY <3>1 DEF LoopTop
      <4>2. CASE link # "none" BY <4>1, <4>2 DEF LoopBranch
      <4>3. CASE link = "none" BY <4>1, <4>3 DEF LoopBranch
      <4> QED BY <4>2, <4>3
    <3>2. CASE BackoffWait \/ ConnectAbandoned \/ ConnectFails
      BY <3>2 DEF BackoffWait, ConnectAbandoned, ConnectFails
    <3> QED BY <2>1, <3>1, <3>2
  <2>2. CASE ResubscribeAll \/ TakeBatch \/ SkipItem \/ SendItem
    <3>1. /\ connected' = connected /\ npc \in Serves
          /\ npc' \in {npc, "top", "timers", "send", "disconnect"}
      BY <2>2 DEF ResubscribeAll, TakeBatch, SkipItem, SendItem
    <3> QED BY <2>0, <3>1
  <2>3. CASE Requeue \/ BatchSent \/ NotExpired \/ ResendDup \/ GiveUp \/ TimersDone
    <3>1. /\ connected' = connected /\ npc \in Serves
          /\ npc' \in {npc, "timers", "poll", "disconnect"}
      <4>1. CASE ResendDup BY <4>1 DEF ResendDup
      <4>2. CASE ~ResendDup
        BY <2>3, <4>2 DEF Requeue, BatchSent, NotExpired, GiveUp, TimersDone
      <4> QED BY <4>1, <4>2
    <3> QED BY <2>0, <3>1
  <2>4. CASE Poll \/ HandlePublish \/ HandlePuback \/ HandleOther \/ HandledAll
    <3>1. \/ connected' = connected /\ npc \in Serves /\ npc' \in {npc, "top", "disconnect"}
          \/ Poll
      BY <2>4 DEF HandlePublish, HandlePuback, HandleOther, HandledAll, HandlingPacket
    <3>2. CASE Poll BY <3>2 DEF Poll
    <3> QED BY <2>0, <3>1, <3>2
  <2>5. CASE OnDisconnect \/ LossReported \/ Cleanup \/ EndReported \/ ClosePipe
    BY <2>5 DEF OnDisconnect, LossReported, Cleanup, EndReported, ClosePipe, CloseSocket,
                NotConnected, ContinueLoop
  <2>6. CASE SendConnect BY <2>6 DEF SendConnect
  <2> QED BY <2>1, <2>2, <2>3, <2>4, <2>5, <2>6 DEF NetworkStep
<1>3. link = "none" => toClient' = <<>> /\ rxBuf' = <<>> BY DEF Handshake
<1>4. link = "up" /\ ~session => toClient' \in Seq(Harmless) /\ rxBuf' \in Seq(Harmless)
  BY DEF Handshake
<1> QED BY <1>1, <1>2, <1>3, <1>4, SameSocket

\* The handshake: a packet is taken for an acceptance only if the broker has sent one.
LEMMA AwaitHandshake ==
    ASSUME Handshake, AwaitConnack, UNCHANGED got, session' = (session /\ link' # "none")
    PROVE  Handshake'
<1>1. /\ UNCHANGED <<link, connected, sent>> /\ npc = "connack"
      /\ npc' \in {"connack", "announce", "disconnect"}
  BY DEF AwaitConnack
<1>2. link # "none" /\ session' = session BY <1>1 DEF Handshake, Attached
<1>3. CASE UNCHANGED <<rxBuf, toClient>> /\ npc' # "announce"
  BY <1>1, <1>2, <1>3, SetsKept DEF Handshake, ConnectedIsHonest, Detached, Attached, Serves
<1>4. CASE ~(UNCHANGED <<rxBuf, toClient>> /\ npc' # "announce")
  <2>1. PICK k \in 1 .. Len(toClient) :
           /\ Receive(k)
           /\ rxBuf' = Tail(rxBuf \o SubSeq(toClient, 1, k))
           /\ npc' = "announce" => Head(rxBuf \o SubSeq(toClient, 1, k)) = ConnackPkt(TRUE)
    BY <1>4 DEF AwaitConnack
  <2> DEFINE buf == rxBuf \o SubSeq(toClient, 1, k)
  <2>2. ASSUME link = "up", ~session
        PROVE  toClient' \in Seq(Harmless) /\ rxBuf' \in Seq(Harmless) /\ npc' # "announce"
    <3>1. toClient \in Seq(Harmless) /\ rxBuf \in Seq(Harmless) BY <2>2 DEF Handshake
    <3>2. toClient' \in Seq(Harmless) /\ buf \in Seq(Harmless) /\ buf # <<>>
      BY <2>1, <3>1, ReceivesWire
    <3> HIDE DEF buf
    <3>3. Tail(buf) \in Seq(Harmless) /\ Head(buf) \in Harmless BY <3>2
    <3> QED BY <2>1, <3>2, <3>3, AcceptanceDiffers DEF buf
  <2>3. Harmless' = Harmless BY <1>1, SetsKept
  <2> QED
    BY <1>1, <1>2, <2>2, <2>3 DEF Handshake, ConnectedIsHonest, Detached, Attached
<1> QED BY <1>3, <1>4

\* What is received on a connection that is up, and what is handled.
LEMMA ReadHandshake ==
    ASSUME TypeOK, Wire, Handshake, UNCHANGED got, session' = (session /\ link' # "none"),
           Poll \/ HandlePublish \/ HandlePuback \/ HandleOther
    PROVE  Handshake'
<1>1. /\ UNCHANGED <<link, connected, sent>> /\ npc \in {"poll", "handle"}
      /\ npc' \in {"top", "handle", "disconnect"}
  BY DEF Poll, HandlePublish, HandlePuback, HandleOther, HandlingPacket, linkVars
<1>2. link # "none" BY <1>1 DEF Handshake, Attached
<1>3. ASSUME link = "up", ~session
      PROVE  toClient' \in Seq(Harmless) /\ rxBuf' \in Seq(Harmless)
  <2>1. toClient \in Seq(Harmless) /\ rxBuf \in Seq(Harmless) BY <1>3 DEF Handshake
  <2>2. CASE UNCHANGED <<rxBuf, toClient>> BY <2>1, <2>2
  <2>3. CASE Poll /\ ~UNCHANGED <<rxBuf, toClient>>
    <3>1. PICK k \in 1 .. Len(toClient) :
             Receive(k) /\ rxBuf' = rxBuf \o SubSeq(toClient, 1, k)
      BY <2>3 DEF Poll
    <3> QED BY <2>1, <3>1, ReceivesWire
  <2>4. CASE HandlePublish \/ HandlePuback \/ HandleOther
    <3>1. UNCHANGED toClient /\ rxBuf # <<>> /\ rxBuf' = Tail(rxBuf)
      BY <2>4 DEF HandlePublish, HandlePuback, HandleOther, HandlingPacket, linkVars
    <3> QED BY <2>1, <3>1
  <2> QED BY <2>2, <2>3, <2>4
<1>4. Out' = Out BY <1>1 DEF Out
<1> QED BY <1>1, <1>2, <1>3, <1>4, SameSocket
  DEF Handshake, ConnectedIsHonest, Detached, Attached, Serves

\* A step of the client keeps the invariant: where it connects no flag is set, and
\* where the flag is set the broker has accepted.
LEMMA ClientHandshake == ASSUME TypeOK, Wire, Handshake, ClientSide PROVE Handshake'
<1>1. UNCHANGED got /\ session' = (session /\ link' # "none") BY DEF ClientSide
<1>2. CASE (\E u \in Users : UserStep(u)) \/ LifeStep BY <1>1, <1>2, CallsHandshake
<1>3. CASE AwaitConnack BY <1>1, <1>3, AwaitHandshake
<1>4. CASE Announce
  <2>1. /\ UNCHANGED <<link, toClient, rxBuf, sent>> /\ connected' = TRUE
        /\ npc = "announce" /\ npc' \in {"resubscribe", "top"}
    BY <1>4 DEF Announce, linkVars
  <2> QED
    BY <1>1, <2>1, SetsKept DEF Handshake, ConnectedIsHonest, Detached, Attached
<1>5. CASE ConnectSucceeds
  <2>1. /\ npc = "connect" /\ npc' = "hello" /\ link' = "up"
        /\ UNCHANGED <<toClient, rxBuf, sent, connected>>
    BY <1>5 DEF ConnectSucceeds
  <2>2. link = "none" /\ ~connected /\ ~session /\ toClient = <<>> /\ rxBuf = <<>>
    BY <2>1 DEF Handshake, ConnectedIsHonest, Detached
  <2>3. <<>> \in Seq(Harmless) BY EmptySeq
  <2>4. Harmless' = Harmless BY <1>1, <2>1, SetsKept
  <2> QED
    BY <1>1, <2>1, <2>2, <2>3, <2>4 DEF Handshake, ConnectedIsHonest, Detached, Attached
<1>6. CASE Poll \/ HandlePublish \/ HandlePuback \/ HandleOther
  BY <1>1, <1>6, ReadHandshake
<1>7. CASE OnDisconnect \/ Cleanup
  <2>1. /\ link' = "none" /\ toClient' = <<>> /\ rxBuf' = <<>>
        /\ npc' \in {"lost", "left"} /\ UNCHANGED sent
    BY <1>7 DEF OnDisconnect, Cleanup, CloseSocket
  <2> QED BY <1>1, <2>1 DEF Handshake, ConnectedIsHonest, Detached, Attached
<1>8. ASSUME NetworkStep, ~AwaitConnack, ~Announce, ~ConnectSucceeds,
             ~(Poll \/ HandlePublish \/ HandlePuback \/ HandleOther), ~(OnDisconnect \/ Cleanup)
      PROVE  Handshake'
  <2>1. UNCHANGED <<toClient, rxBuf, link>>
    <3> USE DEF linkVars
    <3>1. CASE LoopTop \/ BackoffWait \/ ConnectAbandoned \/ ConnectFails \/ SendConnect
      BY <3>1 DEF LoopTop, BackoffWait, ConnectAbandoned, ConnectFails, SendConnect
    <3>2. CASE ResubscribeAll \/ TakeBatch \/ SkipItem \/ SendItem \/ Requeue \/ BatchSent
      BY <3>2 DEF ResubscribeAll, TakeBatch, SkipItem, SendItem, Requeue, BatchSent
    <3>3. CASE NotExpired \/ ResendDup \/ GiveUp \/ TimersDone \/ HandledAll
      BY <3>3 DEF NotExpired, ResendDup, GiveUp, TimersDone, HandledAll
    <3>4. CASE LossReported \/ EndReported \/ ClosePipe
      BY <3>4 DEF LossReported, EndReported, ClosePipe
    <3> QED BY <1>8, <3>1, <3>2, <3>3, <3>4 DEF NetworkStep
  <2> QED BY <1>1, <1>8, <2>1, SocketSteps
<1> QED
  BY <1>2, <1>3, <1>4, <1>5, <1>6, <1>7, <1>8 DEF ClientSide, ClientStep

\* The broker says that it has accepted when it has, and not before.
LEMMA BrokerHandshake == ASSUME TypeOK, Wire, Handshake, BrokerStep PROVE Handshake'
<1> USE DEF clientOnly, Answer
<1>1. UNCHANGED <<npc, connected, rxBuf, sent>> /\ link = "up"
  BY DEF BrokerStep, BrokerReceives, BrokerConnect, BrokerSubscription, BrokerPublish,
         BrokerPuback, BrokerPushes, BrokerMisbehaves, LinkBreaks, Incoming
<1>2. CASE LinkBreaks
  <2>1. link' = "broken" /\ session' = FALSE BY <1>2 DEF LinkBreaks
  <2> QED BY <1>1, <2>1 DEF Handshake, ConnectedIsHonest, Detached, Attached
<1>3. ASSUME ~LinkBreaks, session' = TRUE PROVE Handshake'
  <2>1. UNCHANGED link
    BY <1>3 DEF BrokerStep, BrokerReceives, BrokerConnect, BrokerSubscription,
         BrokerPublish, BrokerPuback, BrokerPushes, BrokerMisbehaves
  <2> QED BY <1>1, <1>3, <2>1 DEF Handshake, ConnectedIsHonest, Detached, Attached
<1>4. ASSUME ~LinkBreaks, session' # TRUE PROVE Handshake'
  <2>1. ~session /\ UNCHANGED <<session, link>>
    BY <1>4 DEF Handshake, BrokerStep, BrokerReceives, BrokerConnect, BrokerSubscription,
         BrokerPublish, BrokerPuback, BrokerPushes, BrokerMisbehaves, brokerVars
  <2>2. toClient \in Seq(Harmless) /\ rxBuf \in Seq(Harmless)
    BY <1>1, <2>1 DEF Handshake
  <2>3. \/ /\ Harmless \subseteq Harmless' /\ UNCHANGED toClient
        \/ /\ Harmless \subseteq Harmless'
           /\ \E pkt \in Harmless' : toClient' = Append(toClient, pkt)
    <3>1. CASE BrokerPublish
      <4>1. Harmless \subseteq Harmless' BY <3>1, Acknowledges, SetsGrow
      <4>2. Acks' \subseteq Harmless' BY DEF Harmless
      <4> QED BY <3>1, <4>1, <4>2, Acknowledges
    <3>2. CASE ~BrokerPublish
      <4>1. UNCHANGED got
        BY <3>2 DEF BrokerStep, BrokerReceives, BrokerConnect, BrokerSubscription,
             BrokerPuback, BrokerPushes, BrokerMisbehaves, LinkBreaks, brokerVars
      <4>2. Harmless' = Harmless BY <1>1, <4>1, SetsKept
      <4>3. ConnackPkt(FALSE) \in Harmless /\ OtherPkt \in Harmless BY DEF Harmless
      <4>4. \/ UNCHANGED toClient \/ toClient' = Append(toClient, ConnackPkt(FALSE))
            \/ toClient' = Append(toClient, OtherPkt)
        BY <1>4, <2>1, <3>2 DEF BrokerStep, BrokerReceives, BrokerConnect,
             BrokerSubscription, BrokerPuback, BrokerPushes, BrokerMisbehaves
      <4> QED BY <4>2, <4>3, <4>4
    <3> QED BY <3>1, <3>2
  <2>4. toClient' \in Seq(Harmless') /\ rxBuf' \in Seq(Harmless')
    <3>1. Harmless \subseteq Harmless' BY <2>3
    <3>2. toClient \in Seq(Harmless') /\ rxBuf \in Seq(Harmless')
      BY <2>2, <3>1, LargerSet
    <3>3. ASSUME NEW pkt \in Harmless', toClient' = Append(toClient, pkt)
          PROVE  toClient' \in Seq(Harmless')
      BY <3>2, <3>3, AppendProperties
    <3> QED BY <1>1, <2>3, <3>2, <3>3
  <2> QED BY <1>1, <2>1, <2>4 DEF Handshake, ConnectedIsHonest, Detached, Attached
<1> QED BY <1>2, <1>3, <1>4

\* What is under way and what the flag says, always.
LEMMA HandshakeCorrect == Spec => [](Wire /\ Handshake)
<1>1. ASSUME Handshake, UNCHANGED vars PROVE Handshake'
  <2>1. UNCHANGED <<npc, link, connected, session, toClient, rxBuf, sent, got>>
    BY <1>1 DEF vars, clientVars, brokerVars
  <2>2. Harmless' = Harmless BY <2>1, SetsKept
  <2> QED BY <1>1, <2>1, <2>2 DEF Handshake, ConnectedIsHonest
<1>2. TypeOK /\ Wire /\ Handshake /\ [Next]_vars => (Wire /\ Handshake)'
  BY <1>1, NextWire, ClientHandshake, BrokerHandshake DEF Next
<1> QED BY InitWire, InitHandshake, <1>2, TypeCorrect, PTL DEF Spec

\* isConnected() follows the socket: it is TRUE while a session is served, and TRUE
\* without one only between closeSocket() and the store that follows it (networkThread,
\* onDisconnect), in every interleaving and for every number of reconnections.
THEOREM FlagIsHonest == Spec => []ConnectedIsHonest
<1>1. Handshake => ConnectedIsHonest BY DEF Handshake
<1> QED BY <1>1, HandshakeCorrect, PTL
-----------------------------------------------------------------------------
(* In which order publishes reach the broker.                              *)

IsPublish(pkt) == pkt.type \in {"Publish0", "Publish1"}

\* What may be said of a publish, p, that is ahead of another, q: the later one is the
\* younger unless it is marked, and of two copies just one is marked.
Before(p, q) == (~q.dup => p.n < q.n) /\ (p.n = q.n => p.dup # q.dup)

\* It can be said of what has arrived, g, and what is under way, t.
InOrder(g, t) ==
    /\ \A i, j \in 1 .. Len(g) : i < j => Before(g[i], g[j])
    /\ \A i, j \in 1 .. Len(t) :
          i < j /\ IsPublish(t[i]) /\ IsPublish(t[j]) => Before(t[i], t[j])
    /\ \A i \in 1 .. Len(g), j \in 1 .. Len(t) : IsPublish(t[j]) => Before(g[i], t[j])

\* The publish of rank n has been sent again, and the copy is there or under way.
Repeats(g, t, n) ==
    \/ \E i \in 1 .. Len(g) : g[i].n = n /\ g[i].dup
    \/ \E i \in 1 .. Len(t) : IsPublish(t[i]) /\ t[i].n = n /\ t[i].dup

\* A packet sent last keeps the order if it is behind all others.
LEMMA OrderSend ==
    ASSUME NEW G, NEW T, NEW g \in Seq(G), NEW t \in Seq(T), NEW p \in T, InOrder(g, t),
           IsPublish(p) =>
               /\ \A i \in 1 .. Len(g) : Before(g[i], p)
               /\ \A i \in 1 .. Len(t) : IsPublish(t[i]) => Before(t[i], p)
    PROVE  /\ InOrder(g, Append(t, p))
           /\ \A n : Repeats(g, Append(t, p), n) =>
                        Repeats(g, t, n) \/ (IsPublish(p) /\ p.n = n /\ p.dup)
<1> DEFINE t1 == Append(t, p)
<1>1. /\ Len(t) \in Nat /\ Len(t1) = Len(t) + 1
      /\ t1[Len(t) + 1] = p /\ \A i \in 1 .. Len(t) : t1[i] = t[i]
  BY LenProperties, AppendProperties
<1> HIDE DEF t1
<1>2. \A i \in 1 .. Len(t1) : i \in 1 .. Len(t) \/ i = Len(t) + 1 BY <1>1
<1>3. ASSUME NEW i \in 1 .. Len(t1), NEW j \in 1 .. Len(t1),
             i < j, IsPublish(t1[i]), IsPublish(t1[j])
      PROVE  Before(t1[i], t1[j])
  <2>1. i \in 1 .. Len(t) BY <1>1, <1>3
  <2>2. CASE j \in 1 .. Len(t)
    <3>1. t1[i] = t[i] /\ t1[j] = t[j] BY <1>1, <2>1, <2>2
    <3> QED BY <1>3, <2>1, <2>2, <3>1 DEF InOrder
  <2>3. CASE j = Len(t) + 1
    <3>1. t1[i] = t[i] /\ t1[j] = p BY <1>1, <2>1, <2>3
    <3> QED BY <1>3, <2>1, <3>1
  <2> QED BY <1>2, <2>2, <2>3
<1>4. ASSUME NEW i \in 1 .. Len(g), NEW j \in 1 .. Len(t1), IsPublish(t1[j])
      PROVE  Before(g[i], t1[j])
  <2>1. CASE j \in 1 .. Len(t) BY <1>1, <1>4, <2>1 DEF InOrder
  <2>2. CASE j = Len(t) + 1 BY <1>1, <1>4, <2>2
  <2> QED BY <1>2, <2>1, <2>2
<1>5. ASSUME NEW n, Repeats(g, t1, n)
      PROVE  Repeats(g, t, n) \/ (IsPublish(p) /\ p.n = n /\ p.dup)
  BY <1>1, <1>2, <1>5 DEF Repeats
<1> QED BY <1>3, <1>4, <1>5 DEF InOrder, t1

\* The broker reads the first packet under way; if it is a publish it arrives.
LEMMA OrderReceive ==
    ASSUME NEW G, NEW T, NEW g \in Seq(G), NEW t \in Seq(T), t # <<>>, InOrder(g, t)
    PROVE  /\ InOrder(g, Tail(t))
           /\ \A n : Repeats(g, Tail(t), n) => Repeats(g, t, n)
           /\ \A r \in G : IsPublish(Head(t)) /\ r.n = Head(t).n /\ r.dup = Head(t).dup =>
                 /\ InOrder(Append(g, r), Tail(t))
                 /\ \A n : Repeats(Append(g, r), Tail(t), n) => Repeats(g, t, n)
<1> DEFINE t1 == Tail(t)
<1>1. /\ Len(t) \in Nat \ {0} /\ Len(t1) = Len(t) - 1 /\ Head(t) = t[1]
      /\ \A i \in 1 .. Len(t1) : t1[i] = t[i + 1]
  BY EmptySeq, HeadTailProperties
<1> HIDE DEF t1
<1>2. \A i \in 1 .. Len(t1) : i \in Nat /\ i + 1 \in 1 .. Len(t) /\ 1 < i + 1 BY <1>1
<1>3. InOrder(g, t1)
  <2>1. ASSUME NEW i \in 1 .. Len(t1), NEW j \in 1 .. Len(t1),
               i < j, IsPublish(t1[i]), IsPublish(t1[j])
        PROVE  Before(t1[i], t1[j])
    <3>1. i + 1 < j + 1 BY <1>2, <2>1
    <3> QED BY <1>1, <1>2, <2>1, <3>1 DEF InOrder
  <2>2. ASSUME NEW i \in 1 .. Len(g), NEW j \in 1 .. Len(t1), IsPublish(t1[j])
        PROVE  Before(g[i], t1[j])
    BY <1>1, <1>2, <2>2 DEF InOrder
  <2> QED BY <2>1, <2>2 DEF InOrder
<1>4. ASSUME NEW n, Repeats(g, t1, n) PROVE Repeats(g, t, n)
  BY <1>1, <1>2, <1>4 DEF Repeats
<1>5. ASSUME NEW r \in G, IsPublish(Head(t)), r.n = Head(t).n, r.dup = Head(t).dup
      PROVE  /\ InOrder(Append(g, r), t1)
             /\ \A n : Repeats(Append(g, r), t1, n) => Repeats(g, t, n)
  <2> DEFINE g1 == Append(g, r)
  <2>1. /\ Len(g) \in Nat /\ Len(g1) = Len(g) + 1
        /\ g1[Len(g) + 1] = r /\ \A i \in 1 .. Len(g) : g1[i] = g[i]
    BY LenProperties, AppendProperties
  <2> HIDE DEF g1
  <2>2. \A i \in 1 .. Len(g1) : i \in 1 .. Len(g) \/ i = Len(g) + 1 BY <2>1
  <2>3. 1 \in 1 .. Len(t) BY <1>1
  <2>4. \A p : Before(p, r) <=> Before(p, t[1]) BY <1>1, <1>5 DEF Before
  <2>5. \A q : Before(r, q) <=> Before(t[1], q) BY <1>1, <1>5 DEF Before
  <2>6. ASSUME NEW i \in 1 .. Len(g1), NEW j \in 1 .. Len(g1), i < j
        PROVE  Before(g1[i], g1[j])
    <3>1. i \in 1 .. Len(g) BY <2>1, <2>6
    <3>2. CASE j \in 1 .. Len(g)
      <4>1. g1[i] = g[i] /\ g1[j] = g[j] BY <2>1, <3>1, <3>2
      <4> QED BY <2>6, <3>1, <3>2, <4>1 DEF InOrder
    <3>3. CASE j = Len(g) + 1
      <4>1. g1[i] = g[i] /\ g1[j] = r BY <2>1, <3>1, <3>3
      <4>2. Before(g[i], t[1]) BY <1>1, <1>5, <2>3, <3>1 DEF InOrder
      <4> QED BY <2>4, <4>1, <4>2
    <3> QED BY <2>2, <3>2, <3>3
  <2>7. ASSUME NEW i \in 1 .. Len(g1), NEW j \in 1 .. Len(t1), IsPublish(t1[j])
        PROVE  Before(g1[i], t1[j])
    <3>1. CASE i \in 1 .. Len(g) BY <1>3, <2>1, <2>7, <3>1 DEF InOrder
    <3>2. CASE i = Len(g) + 1
      <4>1. g1[i] = r /\ t1[j] = t[j + 1] BY <1>1, <2>1, <3>2
      <4>2. Before(t[1], t[j + 1]) BY <1>1, <1>2, <1>5, <2>3, <2>7 DEF InOrder
      <4> QED BY <2>5, <4>1, <4>2
    <3> QED BY <2>2, <3>1, <3>2
  <2>8. InOrder(g1, t1) BY <1>3, <2>6, <2>7 DEF InOrder
  <2>9. ASSUME NEW n, Repeats(g1, t1, n) PROVE Repeats(g, t, n)
    <3>1. CASE \E i \in 1 .. Len(g1) : g1[i].n = n /\ g1[i].dup
      <4>1. PICK i \in 1 .. Len(g1) : g1[i].n = n /\ g1[i].dup BY <3>1
      <4>2. CASE i \in 1 .. Len(g) BY <2>1, <4>1, <4>2 DEF Repeats
      <4>3. CASE i = Len(g) + 1 BY <1>1, <1>5, <2>1, <2>3, <4>1, <4>3 DEF Repeats
      <4> QED BY <2>2, <4>2, <4>3
    <3>2. CASE \E i \in 1 .. Len(t1) : IsPublish(t1[i]) /\ t1[i].n = n /\ t1[i].dup
      BY <1>1, <1>2, <3>2 DEF Repeats
    <3> QED BY <2>9, <3>1, <3>2 DEF Repeats
  <2> QED BY <2>8, <2>9 DEF g1
<1> QED BY <1>3, <1>4, <1>5 DEF t1

\* Losing what is under way disturbs no order.
LEMMA OrderLoss ==
    ASSUME NEW g, NEW t, InOrder(g, t)
    PROVE  InOrder(g, <<>>) /\ \A n : Repeats(g, <<>>, n) => Repeats(g, t, n)
BY DEF InOrder, Repeats

\* What is pending is pending once, and as long as it has not been sent again no copy
\* of it is marked; what has arrived has been sent.
Pendings(pubs, g, t) ==
    /\ \A i, j \in 1 .. Len(pubs) : i # j => pubs[i].item.n # pubs[j].item.n
    /\ \A i \in 1 .. Len(pubs) : ~pubs[i].resent => ~Repeats(g, t, pubs[i].item.n)
SentSet == {item.n : item \in Out}
Flight ==
    /\ InOrder(got, toBroker)
    /\ Pendings(pendingPubs, got, toBroker)
    /\ Received \subseteq SentSet

\* Nothing has been sent before the first start().
LEMMA InitFlight == Init => Flight
<1> SUFFICES ASSUME Init PROVE Flight
  OBVIOUS
<1>1. got = <<>> /\ toBroker = <<>> /\ pendingPubs = <<>>
  BY DEF Init, ClientInit
<1>2. Received = {} BY <1>1 DEF Received
<1> QED BY <1>1, <1>2 DEF Flight, InOrder, Pendings

\* Fewer copies leave what is pending as it was, and so does one entry less.
LEMMA PendingsKept ==
    ASSUME NEW pubs, NEW g, NEW t, NEW g1, NEW t1, Pendings(pubs, g, t),
           \A i \in 1 .. Len(pubs) :
               Repeats(g1, t1, pubs[i].item.n) => Repeats(g, t, pubs[i].item.n)
    PROVE  Pendings(pubs, g1, t1)
BY DEF Pendings

\* Where the entries are when one of them is taken out.
LEMMA RemovalIndex ==
    ASSUME Wire, NEW k \in 1 .. Len(pendingPubs)
    PROVE  /\ Len(RemovePending(k)) = Len(pendingPubs) - 1
           /\ \A i \in 1 .. Len(RemovePending(k)) :
                 RemovePending(k)[i] = pendingPubs[IF i < k THEN i ELSE i + 1]
<1> DEFINE rest == RemovePending(k)
           old(i) == IF i < k THEN i ELSE i + 1
<1>1. pendingPubs \in Seq(Pending) /\ Len(pendingPubs) \in Nat BY LenProperties DEF Wire
<1>2. Len(rest) = Len(pendingPubs) - 1 /\ \A i \in 1 .. Len(rest) : rest[i] = pendingPubs[old(i)]
  <2> DEFINE front == SubSeq(pendingPubs, 1, k - 1)
             back == SubSeq(pendingPubs, k + 1, Len(pendingPubs))
  <2>1. /\ front \in Seq(Pending) /\ Len(front) = k - 1
        /\ \A i \in 1 .. k - 1 : front[i] = pendingPubs[i]
    BY <1>1
  <2>2. /\ back \in Seq(Pending) /\ Len(back) = Len(pendingPubs) - k
        /\ \A i \in 1 .. Len(pendingPubs) - k : back[i] = pendingPubs[i + k]
    BY <1>1
  <2>3. rest = front \o back BY DEF RemovePending
  <2> HIDE DEF front, back, rest
  <2>4. /\ Len(rest) = Len(front) + Len(back)
        /\ \A i \in 1 .. Len(front) + Len(back) :
             rest[i] = IF i <= Len(front) THEN front[i] ELSE back[i - Len(front)]
    BY <2>1, <2>2, <2>3, ConcatProperties, ZenonT(30)
  <2>5. Len(rest) = Len(pendingPubs) - 1 BY <1>1, <2>1, <2>2, <2>4
  <2>6. ASSUME NEW i \in 1 .. Len(rest) PROVE rest[i] = pendingPubs[old(i)]
    <3>1. CASE i < k
      <4>1. i \in 1 .. k - 1 BY <1>1, <2>5, <3>1
      <4>2. rest[i] = front[i] BY <1>1, <2>1, <2>2, <2>4, <2>5, <4>1
      <4> QED BY <2>1, <3>1, <4>1, <4>2
    <3>2. CASE i >= k
      <4>1. rest[i] = back[i - (k - 1)] BY <1>1, <2>1, <2>2, <2>4, <2>5, <3>2
      <4>2. i - (k - 1) \in 1 .. Len(pendingPubs) - k BY <1>1, <2>5, <3>2
      <4>3. back[i - (k - 1)] = pendingPubs[(i - (k - 1)) + k] BY <2>2, <4>2
      <4>4. (i - (k - 1)) + k = i + 1 BY <1>1, <2>5
      <4> QED BY <3>2, <4>1, <4>3, <4>4
    <3> QED BY <1>1, <2>5, <3>1, <3>2
  <2> QED BY <2>5, <2>6
<1> QED BY <1>2

\* An entry is given up or acknowledged.
LEMMA PendingsRemove ==
    ASSUME Wire, Pendings(pendingPubs, got, toBroker), NEW k \in 1 .. Len(pendingPubs)
    PROVE  Pendings(RemovePending(k), got, toBroker)
<1> DEFINE rest == RemovePending(k)
           old(i) == IF i < k THEN i ELSE i + 1
<1>1. pendingPubs \in Seq(Pending) /\ Len(pendingPubs) \in Nat BY LenProperties DEF Wire
<1>2. Len(rest) = Len(pendingPubs) - 1 /\ \A i \in 1 .. Len(rest) : rest[i] = pendingPubs[old(i)]
  BY RemovalIndex
<1> HIDE DEF rest
<1>3. \A i \in 1 .. Len(rest) : old(i) \in 1 .. Len(pendingPubs) BY <1>1, <1>2
<1>4. \A i, j \in 1 .. Len(rest) : i # j => old(i) # old(j) BY <1>1, <1>2
<1> HIDE DEF old
<1> QED BY <1>2, <1>3, <1>4 DEF Pendings, rest

\* A publish under way or there has been sent.
LEMMA FlightWasSent ==
    ASSUME Wire, Flight
    PROVE  /\ \A i \in 1 .. Len(got) : got[i].n \in SentSet /\ got[i].dup \in BOOLEAN
           /\ \A i \in 1 .. Len(toBroker) : IsPublish(toBroker[i]) =>
                 toBroker[i].n \in SentSet /\ toBroker[i].dup \in BOOLEAN
           /\ \A i \in 1 .. Len(pendingPubs) : pendingPubs[i].item.n \in SentSet
<1>1. \A i \in 1 .. Len(got) : got[i].n \in SentSet
  <2>1. DOMAIN got = 1 .. Len(got) BY LenProperties DEF Wire
  <2> QED BY <2>1 DEF Flight, Received
<1>2. \A i \in 1 .. Len(got) : got[i].dup \in BOOLEAN
  <2>1. \A i \in 1 .. Len(got) : got[i] \in Receipt BY ElementOfSeq DEF Wire
  <2>2. \A r \in Receipt : r.dup \in BOOLEAN BY DEF Receipt
  <2> QED BY <2>1, <2>2
<1>3. ASSUME NEW i \in 1 .. Len(toBroker), IsPublish(toBroker[i])
      PROVE  toBroker[i].n \in SentSet /\ toBroker[i].dup \in BOOLEAN
  <2>1. toBroker[i] \in ToBroker BY ElementOfSeq DEF Wire
  <2>2. \E item \in Out : toBroker[i].n = item.n BY <1>3, <2>1, PublishOnWire DEF IsPublish
  <2> QED BY <1>3, <2>1, <2>2, PublishOnWire DEF SentSet, IsPublish
<1>4. ASSUME NEW i \in 1 .. Len(pendingPubs) PROVE pendingPubs[i].item.n \in SentSet
  <2>1. pendingPubs[i] \in Pending BY ElementOfSeq DEF Wire
  <2> QED BY <2>1 DEF Pending, Publishes, SentSet
<1> QED BY <1>1, <1>2, <1>3, <1>4

\* Everything sent ranks before what is sent next.
LEMMA NextIsYounger ==
    ASSUME TypeOK, RanksGrow, batch # <<>>
    PROVE  /\ Head(batch) \in TxItem /\ Head(batch).n \in Nat
           /\ \A n \in SentSet : n \in Nat /\ n < Head(batch).n
<1>1. Head(batch) \in TxItem /\ sent \in Seq(TxItem) /\ DOMAIN sent = 1 .. Len(sent)
  BY LenProperties DEF TypeOK
<1>2. \A x \in TxItem : x.n \in Nat BY DEF TxItem
<1>3. \A i \in DOMAIN sent : sent[i].n \in Nat /\ sent[i].n < Head(batch).n
  BY <1>1, <1>2, SentInOrder
<1> QED BY <1>1, <1>2, <1>3 DEF SentSet, Out

\* A new publish is the youngest: it may follow whatever is there or under way.
LEMMA SendItemFlight ==
    ASSUME TypeOK, Wire, RanksGrow, Flight, SendItem, UNCHANGED got
    PROVE  Flight'
<1> DEFINE item == Head(batch)
           pkt == ItemPkt(item, FALSE)
           entry == [item |-> item, resent |-> FALSE]
<1>1. /\ batch # <<>> /\ sent' = Append(sent, item)
      /\ toBroker' \in {toBroker, Append(toBroker, pkt)}
      /\ pendingPubs' = IF item.type = "Publish1" THEN Append(pendingPubs, entry)
                                                  ELSE pendingPubs
  BY DEF SendItem, Sends
<1>2. /\ item \in TxItem /\ item.n \in Nat /\ \A n \in SentSet : n \in Nat /\ n < item.n
  BY <1>1, NextIsYounger
<1>3. pkt.n = item.n /\ pkt.dup = FALSE /\ entry.item = item /\ entry.resent = FALSE
  BY DEF ItemPkt
<1>4. /\ \A i \in 1 .. Len(got) : Before(got[i], pkt)
      /\ \A i \in 1 .. Len(toBroker) : IsPublish(toBroker[i]) => Before(toBroker[i], pkt)
  <2> HIDE DEF pkt, item
  <2>1. ASSUME NEW q, q.n \in SentSet PROVE Before(q, pkt)
    <3>1. q.n \in Nat /\ q.n < item.n BY <1>2, <2>1
    <3> QED BY <1>2, <1>3, <3>1 DEF Before
  <2> QED BY <2>1, FlightWasSent
<1>5. /\ got \in Seq(Receipt) /\ pendingPubs \in Seq(Pending)
      /\ toBroker \in Seq(ToBroker \cup {pkt})
  BY LargerSet DEF Wire
<1>6. /\ InOrder(got, toBroker')
      /\ \A n : Repeats(got, toBroker', n) => Repeats(got, toBroker, n)
  <2> HIDE DEF pkt, item
  <2>1. InOrder(got, toBroker) BY DEF Flight
  <2>2. pkt \in ToBroker \cup {pkt} OBVIOUS
  <2>3. /\ InOrder(got, Append(toBroker, pkt))
        /\ \A n : Repeats(got, Append(toBroker, pkt), n) => Repeats(got, toBroker, n)
    BY <1>3, <1>4, <1>5, <2>1, <2>2, OrderSend
  <2> QED BY <1>1, <2>1, <2>3
<1>7. Pendings(pendingPubs, got, toBroker')
  BY <1>6, PendingsKept DEF Flight
<1>8. ~Repeats(got, toBroker, item.n)
  <2> HIDE DEF item
  <2> QED BY <1>2, FlightWasSent DEF Repeats
<1>9. Pendings(pendingPubs', got, toBroker')
  <2>1. CASE pendingPubs' = pendingPubs BY <1>7, <2>1
  <2>2. CASE pendingPubs' = Append(pendingPubs, entry)
    <3> HIDE DEF item, entry
    <3>1. pendingPubs \in Seq(Pending \cup {entry}) /\ entry \in Pending \cup {entry}
      BY <1>5, LargerSet
    <3>2. /\ Len(pendingPubs) \in Nat /\ Len(pendingPubs') = Len(pendingPubs) + 1
          /\ pendingPubs'[Len(pendingPubs) + 1] = entry
          /\ \A i \in 1 .. Len(pendingPubs) : pendingPubs'[i] = pendingPubs[i]
      BY <2>2, <3>1, LenProperties, AppendProperties
    <3>3. \A i \in 1 .. Len(pendingPubs') : i \in 1 .. Len(pendingPubs) \/ i = Len(pendingPubs) + 1
      BY <3>2
    <3>4. \A i \in 1 .. Len(pendingPubs) : pendingPubs[i].item.n # item.n
      BY <1>2, FlightWasSent
    <3> QED BY <1>3, <1>6, <1>7, <1>8, <3>2, <3>3, <3>4, SMTT(30) DEF Pendings
  <2> QED BY <1>1, <2>1, <2>2
<1>10. Received' \subseteq SentSet'
  <2>1. DOMAIN sent = 1 .. Len(sent) /\ sent \in Seq(TxItem) BY LenProperties DEF TypeOK
  <2>2. Out \subseteq Out'
    <3> HIDE DEF item
    <3>1. /\ Len(sent) \in Nat /\ DOMAIN sent' = 1 .. Len(sent) + 1
          /\ \A i \in 1 .. Len(sent) : sent'[i] = sent[i]
      BY <1>1, <1>2, <2>1, LenProperties, AppendProperties
    <3> QED BY <2>1, <3>1 DEF Out
  <2> QED BY <2>2 DEF Flight, Received, SentSet
<1> QED BY <1>6, <1>9, <1>10 DEF Flight

\* A pending publish that is sent again is marked, and only once.
LEMMA ResendFlight ==
    ASSUME TypeOK, Wire, Flight, ResendDup, UNCHANGED got
    PROVE  Flight'
<1> DEFINE entry == pendingPubs[cursor]
           pkt == ItemPkt(entry.item, TRUE)
<1>1. cursor \in 1 .. Len(pendingPubs) /\ ~entry.resent BY DEF ResendDup, TypeOK
<1>2. /\ UNCHANGED <<sent, toBroker, pendingPubs>>
      \/ /\ toBroker' \in {toBroker, Append(toBroker, pkt)}
         /\ pendingPubs' = [pendingPubs EXCEPT ![cursor].resent = TRUE]
         /\ UNCHANGED sent
  BY DEF ResendDup, Sends, SendFails
<1>3. UNCHANGED sent BY <1>2
<1>4. Received' \subseteq SentSet' BY <1>3 DEF Flight, Received, SentSet, Out
<1>5. CASE UNCHANGED <<toBroker, pendingPubs>> BY <1>4, <1>5 DEF Flight
<1>6. CASE /\ toBroker' \in {toBroker, Append(toBroker, pkt)}
           /\ pendingPubs' = [pendingPubs EXCEPT ![cursor].resent = TRUE]
  <2> DEFINE n0 == entry.item.n
  <2>1. entry \in Pending /\ pendingPubs \in Seq(Pending) BY <1>1, ElementOfSeq DEF Wire
  <2>2. pkt.n = n0 /\ pkt.dup = TRUE BY DEF ItemPkt
  <2>3. ~Repeats(got, toBroker, n0) BY <1>1 DEF Flight, Pendings
  <2> HIDE DEF pkt, n0
  <2>4. \A q : q.n = n0 /\ q.dup \in BOOLEAN /\ ~q.dup => Before(q, pkt)
    BY <2>2 DEF Before
  <2>5. \A q : q.n # n0 => Before(q, pkt) BY <2>2 DEF Before
  <2>6. /\ \A i \in 1 .. Len(got) : Before(got[i], pkt)
        /\ \A i \in 1 .. Len(toBroker) : IsPublish(toBroker[i]) => Before(toBroker[i], pkt)
    BY <2>3, <2>4, <2>5, FlightWasSent DEF Repeats
  <2>7. /\ InOrder(got, toBroker')
        /\ \A n : n # n0 /\ Repeats(got, toBroker', n) => Repeats(got, toBroker, n)
    <3>1. InOrder(got, toBroker) BY DEF Flight
    <3>2. got \in Seq(Receipt) /\ toBroker \in Seq(ToBroker \cup {pkt})
      BY LargerSet DEF Wire
    <3>3. pkt \in ToBroker \cup {pkt} OBVIOUS
    <3>4. /\ InOrder(got, Append(toBroker, pkt))
          /\ \A n : Repeats(got, Append(toBroker, pkt), n) =>
                       Repeats(got, toBroker, n) \/ pkt.n = n
      BY <2>6, <3>1, <3>2, <3>3, OrderSend
    <3> QED BY <1>6, <2>2, <3>1, <3>4
  <2>8. /\ Len(pendingPubs') = Len(pendingPubs)
        /\ \A i \in 1 .. Len(pendingPubs) :
             /\ pendingPubs'[i].item = pendingPubs[i].item
             /\ i # cursor => pendingPubs'[i].resent = pendingPubs[i].resent
        /\ pendingPubs'[cursor].resent = TRUE
    <3>1. [entry EXCEPT !.resent = TRUE] \in Pending BY <2>1 DEF Pending
    <3>2. pendingPubs' = [pendingPubs EXCEPT ![cursor] = [entry EXCEPT !.resent = TRUE]]
      BY <1>6
    <3>3. [entry EXCEPT !.resent = TRUE].item = entry.item
          /\ [entry EXCEPT !.resent = TRUE].resent = TRUE
      BY <2>1 DEF Pending
    <3> DEFINE marked == [entry EXCEPT !.resent = TRUE]
    <3> HIDE DEF marked, entry
    <3>4. /\ Len(pendingPubs') = Len(pendingPubs)
          /\ \A i \in 1 .. Len(pendingPubs) :
               pendingPubs'[i] = IF i = cursor THEN marked ELSE pendingPubs[i]
      BY <1>1, <2>1, <3>1, <3>2, ExceptSeq DEF marked
    <3> QED BY <1>1, <3>3, <3>4 DEF marked, entry
  <2>9. \A i \in 1 .. Len(pendingPubs) : i # cursor => pendingPubs[i].item.n # n0
    BY <1>1 DEF Flight, Pendings, n0
  <2>10. Pendings(pendingPubs', got, toBroker')
    <3> HIDE DEF entry
    <3>1. Pendings(pendingPubs, got, toBroker) BY DEF Flight
    <3> QED BY <1>1, <2>7, <2>8, <2>9, <3>1 DEF Pendings
  <2> QED BY <1>4, <2>7, <2>10 DEF Flight
<1> QED BY <1>2, <1>5, <1>6

\* A packet that is no publish disturbs nothing.
LEMMA OtherPacketFlight ==
    ASSUME Wire, Flight, NEW pkt, ~IsPublish(pkt), Sends(pkt) \/ SendFails,
           UNCHANGED <<got, sent, pendingPubs>>
    PROVE  Flight'
<1>1. toBroker' \in {toBroker, Append(toBroker, pkt)} BY DEF Sends, SendFails
<1>2. got \in Seq(Receipt) /\ toBroker \in Seq(ToBroker \cup {pkt})
  BY LargerSet DEF Wire
<1>3. InOrder(got, toBroker) BY DEF Flight
<1>4. pkt \in ToBroker \cup {pkt} OBVIOUS
<1>5. /\ InOrder(got, Append(toBroker, pkt))
      /\ \A n : Repeats(got, Append(toBroker, pkt), n) => Repeats(got, toBroker, n)
  BY <1>2, <1>3, <1>4, OrderSend
<1>6. /\ InOrder(got, toBroker')
      /\ \A n : Repeats(got, toBroker', n) => Repeats(got, toBroker, n)
  BY <1>1, <1>3, <1>5
<1>7. Pendings(pendingPubs, got, toBroker') BY <1>6, PendingsKept DEF Flight
<1> QED BY <1>6, <1>7 DEF Flight, Received, SentSet, Out

\* Every step of the client keeps the order.
LEMMA ClientFlight ==
    ASSUME TypeOK, Wire, RanksGrow, Flight, ClientSide
    PROVE  Flight'
<1>1. UNCHANGED got BY DEF ClientSide
<1>2. ASSUME UNCHANGED <<toBroker, pendingPubs, sent>> PROVE Flight'
  BY <1>1, <1>2 DEF Flight, Received, SentSet, Out
<1>3. CASE (\E u \in Users : UserStep(u)) \/ LifeStep BY <1>2, <1>3, CallsWire
<1>4. CASE QuietStep BY <1>2, <1>4, QuietWire
<1>5. CASE AwaitConnack \/ Poll \/ HandleOther
  <2>1. UNCHANGED <<toBroker, pendingPubs, sent>>
    BY <1>5 DEF AwaitConnack, Poll, HandleOther, pubVars, linkVars
  <2> QED BY <1>2, <2>1
<1>6. CASE SendConnect \/ ResubscribeAll \/ HandlePublish
  <2>1. UNCHANGED <<pendingPubs, sent>>
    BY <1>6 DEF SendConnect, ResubscribeAll, HandlePublish, pubVars
  <2>2. \/ UNCHANGED toBroker
        \/ \E pkt \in {ConnectPkt, AckPkt(0), ResubPkt(subscriptions)} : Sends(pkt) \/ SendFails
    BY <1>6 DEF SendConnect, ResubscribeAll, HandlePublish
  <2>3. \A pkt \in {ConnectPkt, AckPkt(0), ResubPkt(subscriptions)} : ~IsPublish(pkt)
    BY DEF IsPublish, ConnectPkt, AckPkt, ResubPkt
  <2> QED BY <1>1, <1>2, <2>1, <2>2, <2>3, OtherPacketFlight
<1>7. CASE SendItem BY <1>1, <1>7, SendItemFlight
<1>8. CASE ResendDup BY <1>1, <1>8, ResendFlight
<1>9. CASE GiveUp \/ HandlePuback
  <2>1. UNCHANGED <<toBroker, sent>> BY <1>9 DEF GiveUp, HandlePuback, linkVars
  <2>2. \/ UNCHANGED pendingPubs
        \/ \E i \in 1 .. Len(pendingPubs) : pendingPubs' = RemovePending(i)
    <3>1. DOMAIN pendingPubs = 1 .. Len(pendingPubs) BY LenProperties DEF Wire
    <3>2. GiveUp => cursor \in 1 .. Len(pendingPubs) BY DEF GiveUp, TypeOK
    <3> QED BY <1>9, <3>1, <3>2 DEF GiveUp, HandlePuback
  <2>3. Pendings(pendingPubs', got, toBroker)
    BY <2>2, PendingsRemove DEF Flight
  <2> QED BY <1>1, <2>1, <2>3 DEF Flight, Received, SentSet, Out
<1>10. CASE OnDisconnect \/ Cleanup
  <2>1. toBroker' = <<>> /\ pendingPubs' = <<>> /\ UNCHANGED sent
    BY <1>10 DEF OnDisconnect, Cleanup, CloseSocket
  <2>2. InOrder(got, <<>>) BY OrderLoss DEF Flight
  <2>3. Pendings(<<>>, got, <<>>) BY DEF Pendings
  <2> QED BY <1>1, <2>1, <2>2, <2>3 DEF Flight, Received, SentSet, Out
<1> QED
  BY <1>3, <1>4, <1>5, <1>6, <1>7, <1>8, <1>9, <1>10
  DEF ClientSide, ClientStep, NetworkStep, QuietStep

\* The broker reads in the order of the connection, and what the connection loses it
\* loses together.
LEMMA BrokerFlight ==
    ASSUME TypeOK, Wire, Flight, BrokerStep
    PROVE  Flight'
<1> USE DEF clientOnly
<1>1. UNCHANGED <<sent, pendingPubs>>
  BY DEF BrokerStep, BrokerReceives, BrokerConnect, BrokerSubscription, BrokerPublish,
         BrokerPuback, BrokerPushes, BrokerMisbehaves, LinkBreaks
<1>2. got \in Seq(Receipt) /\ toBroker \in Seq(ToBroker) /\ InOrder(got, toBroker)
  BY DEF Wire, Flight
<1>3. ASSUME InOrder(got', toBroker'), Received' \subseteq SentSet,
             \A n : Repeats(got', toBroker', n) => Repeats(got, toBroker, n)
      PROVE  Flight'
  <2>1. Pendings(pendingPubs, got', toBroker') BY <1>3, PendingsKept DEF Flight
  <2>2. SentSet' = SentSet BY <1>1 DEF SentSet, Out
  <2> QED BY <1>1, <1>3, <2>1, <2>2 DEF Flight
<1>4. CASE BrokerConnect \/ BrokerSubscription \/ BrokerPuback
  <2>1. UNCHANGED got /\ toBroker # <<>> /\ toBroker' = Tail(toBroker)
    BY <1>4 DEF BrokerConnect, BrokerSubscription, BrokerPuback, Incoming, brokerVars
  <2>2. /\ InOrder(got, Tail(toBroker))
        /\ \A n : Repeats(got, Tail(toBroker), n) => Repeats(got, toBroker, n)
    BY <1>2, <2>1, OrderReceive
  <2>3. Received' = Received BY <2>1 DEF Received
  <2> QED BY <1>3, <2>1, <2>2, <2>3 DEF Flight
<1>5. CASE BrokerPublish
  <2> DEFINE pkt == Head(toBroker)
             receipt == [n |-> pkt.n, dup |-> pkt.dup]
  <2>1. /\ toBroker # <<>> /\ pkt.type \in {"Publish0", "Publish1"}
        /\ toBroker' = Tail(toBroker) /\ got' = Append(got, receipt)
    BY <1>5 DEF BrokerPublish, Incoming
  <2>2. 1 \in 1 .. Len(toBroker) /\ toBroker[1] = pkt
    BY <1>2, <2>1, EmptySeq
  <2>3. pkt.n \in SentSet /\ pkt.dup \in BOOLEAN
    BY <2>1, <2>2, FlightWasSent DEF IsPublish
  <2>4. receipt.n = pkt.n /\ receipt.dup = pkt.dup OBVIOUS
  <2> HIDE DEF pkt, receipt
  <2> DEFINE R == Receipt \cup {receipt}
  <2>5. got \in Seq(R) /\ receipt \in R BY <1>2, LargerSet
  <2>6. IsPublish(pkt) BY <2>1 DEF IsPublish
  <2> HIDE DEF R
  <2>7. /\ InOrder(Append(got, receipt), Tail(toBroker))
        /\ \A n : Repeats(Append(got, receipt), Tail(toBroker), n) => Repeats(got, toBroker, n)
    BY <1>2, <2>1, <2>4, <2>5, <2>6, OrderReceive DEF pkt
  <2>8. Received' \subseteq Received \cup {pkt.n}
    <3>1. /\ Len(got) \in Nat /\ DOMAIN got = 1 .. Len(got)
          /\ DOMAIN got' = 1 .. Len(got) + 1
          /\ got'[Len(got) + 1] = receipt /\ \A i \in 1 .. Len(got) : got'[i] = got[i]
      BY <2>1, <2>5, LenProperties, AppendProperties
    <3> QED BY <2>4, <3>1 DEF Received
  <2> QED BY <1>3, <2>1, <2>3, <2>7, <2>8 DEF Flight
<1>6. CASE BrokerPushes \/ BrokerMisbehaves
  <2>1. UNCHANGED <<got, toBroker>> BY <1>6 DEF BrokerPushes, BrokerMisbehaves, brokerVars
  <2>2. Received' = Received BY <2>1 DEF Received
  <2> QED BY <1>2, <1>3, <2>1, <2>2 DEF Flight
<1>7. CASE LinkBreaks
  <2>1. UNCHANGED got /\ toBroker' = <<>> BY <1>7 DEF LinkBreaks
  <2>2. Received' = Received BY <2>1 DEF Received
  <2> QED BY <1>2, <1>3, <2>1, <2>2, OrderLoss DEF Flight
<1> QED BY <1>4, <1>5, <1>6, <1>7 DEF BrokerStep, BrokerReceives

\* What is under way is in order, always.
LEMMA FlightCorrect == Spec => []Flight
<1>1. Flight /\ UNCHANGED vars => Flight'
  BY DEF Flight, Received, SentSet, Out, vars, clientVars, brokerVars
<1>2. TypeOK /\ Wire /\ RanksGrow /\ Flight /\ [Next]_vars => Flight'
  BY <1>1, ClientFlight, BrokerFlight DEF Next
<1> QED
  BY InitFlight, <1>2, TypeCorrect, HandshakeCorrect, RanksGrowCorrect, PTL DEF Spec

\* The broker sees publishes in the order in which the queue has accepted them; what
\* comes again or late is marked DUP and comes at most once more (enqueuePacket,
\* drainTxQueue, the resend loop of onlineLoop), however often packets are requeued,
\* resent and lost.
THEOREM PublishesArriveInOrder == Spec => []DeliveryOrder
<1>1. Wire /\ Flight => DeliveryOrder
  <2> SUFFICES ASSUME Wire, Flight PROVE DeliveryOrder
    OBVIOUS
  <2>1. DOMAIN got = 1 .. Len(got) /\ Len(got) \in Nat BY LenProperties DEF Wire
  <2>2. ASSUME NEW i \in DOMAIN got, NEW j \in DOMAIN got, i < j PROVE Before(got[i], got[j])
    BY <2>1, <2>2 DEF Flight, InOrder
  <2>3. ASSUME NEW i \in DOMAIN got, NEW j \in DOMAIN got, i # j, got[i].n = got[j].n
        PROVE  got[i].dup # got[j].dup
    <3>1. i < j \/ j < i BY <2>1, <2>3
    <3> QED BY <2>2, <2>3, <3>1 DEF Before
  <2> QED BY <2>2, <2>3 DEF DeliveryOrder, Before
<1> QED BY <1>1, HandshakeCorrect, FlightCorrect, PTL
-----------------------------------------------------------------------------
(* Acknowledgements.  Packet identifiers wrap around, so an identifier     *)
(* alone does not say which publish an acknowledgement is for.  Among the  *)
(* publishes sent only once the order does: pending publishes and their    *)
(* acknowledgements come in the order in which they were sent, and the     *)
(* first pending one with the identifier is the right one.                 *)

\* What has arrived at the client, or is on its way there, and is not handled yet.
Inbound == rxBuf \o toClient

\* The acknowledgement of a publish that has not been sent again.
Single(pkt, rep) == pkt.type = "Puback" /\ pkt.n \notin rep

\* Such acknowledgements come in the order of the publishes, ...
Rising(in, rep) ==
    \A i, j \in 1 .. Len(in) :
        i < j /\ Single(in[i], rep) /\ Single(in[j], rep) => in[i].n < in[j].n

\* ... each for a publish that is pending.
Owned(in, pubs, rep) ==
    \A i \in 1 .. Len(in) :
        Single(in[i], rep) => \E k \in 1 .. Len(pubs) : pubs[k].item.n = in[i].n

Answered(in, n) == \E i \in 1 .. Len(in) : in[i].type = "Puback" /\ in[i].n = n
Travels(t, n) == \E i \in 1 .. Len(t) : IsPublish(t[i]) /\ t[i].n = n /\ ~t[i].dup

\* A pending publish sent once has been received and its acknowledgement is on its
\* way, or it has not been received, nor has a younger one, and it is on its way
\* itself unless the connection has broken.
Awaited(in, pubs, rep, rec, t, l) ==
    \A k \in 1 .. Len(pubs) :
        pubs[k].item.n \notin rep =>
            \/ pubs[k].item.n \in rec /\ Answered(in, pubs[k].item.n)
            \/ /\ \A x \in rec : x < pubs[k].item.n
               /\ l = "up" => Travels(t, pubs[k].item.n)

\* A publish that travels to the broker for the first time is pending.
Carried(t, pubs, rep) ==
    \A i \in 1 .. Len(t) :
        t[i].type = "Publish1" /\ ~t[i].dup /\ t[i].n \notin rep =>
            \E k \in 1 .. Len(pubs) : pubs[k].item.n = t[i].n

\* Publishes wait for their acknowledgements in the order in which they were sent;
\* those marked are the ones that have been sent again, and marked packets carry them.
Marks ==
    /\ repeated \subseteq SentSet
    /\ \A k \in 1 .. Len(pendingPubs) :
          pendingPubs[k].resent <=> pendingPubs[k].item.n \in repeated
    /\ \A i \in 1 .. Len(toBroker) :
          IsPublish(toBroker[i]) /\ toBroker[i].dup => toBroker[i].n \in repeated
    /\ \A j, k \in 1 .. Len(pendingPubs) :
          j < k => pendingPubs[j].item.n < pendingPubs[k].item.n

\* A new connection has no pending publishes.
Blank == link = "none" \/ npc \in {"hello", "connack"} => pendingPubs = <<>>

AckFlight ==
    /\ Rising(Inbound, repeated)
    /\ Owned(Inbound, pendingPubs, repeated)
    /\ Awaited(Inbound, pendingPubs, repeated, Received, toBroker, link)
    /\ Carried(toBroker, pendingPubs, repeated)
AckInv ==
    /\ Marks /\ Blank
    /\ RepeatsUnshared => AckFlight /\ acked \subseteq Received

\* Nothing is pending before the first start().
LEMMA InitAcks == Init => AckInv
<1> SUFFICES ASSUME Init PROVE AckInv
  OBVIOUS
<1>1. /\ pendingPubs = <<>> /\ toBroker = <<>> /\ rxBuf = <<>> /\ toClient = <<>>
      /\ repeated = {} /\ acked = {}
  BY DEF Init, ClientInit
<1>2. Len(pendingPubs) = 0 /\ Len(toBroker) = 0 /\ Len(Inbound) = 0 BY <1>1 DEF Inbound
<1>3. \A i : i \notin 1 .. 0 OBVIOUS
<1>4. Marks /\ Blank BY <1>1, <1>2, <1>3 DEF Marks, Blank
<1>5. AckFlight BY <1>2, <1>3 DEF AckFlight, Rising, Owned, Awaited, Carried
<1> QED BY <1>1, <1>4, <1>5 DEF AckInv

\* Publishes whose identifiers are not confused have never been.
LEMMA UnsharedBefore ==
    ASSUME TypeOK, UNCHANGED sent \/ \E item \in TxItem : sent' = Append(sent, item),
           repeated \subseteq repeated', RepeatsUnshared'
    PROVE  RepeatsUnshared
<1>1. ASSUME NEW item \in TxItem, sent' = Append(sent, item) PROVE RepeatsUnshared
  <2>1. /\ DOMAIN sent = 1 .. Len(sent) /\ DOMAIN sent' = 1 .. Len(sent) + 1
        /\ Len(sent) \in Nat /\ \A i \in 1 .. Len(sent) : sent'[i] = sent[i]
    BY <1>1, LenProperties, AppendProperties DEF TypeOK
  <2>2. DOMAIN sent \subseteq DOMAIN sent' /\ \A i \in DOMAIN sent : sent'[i] = sent[i]
    BY <2>1
  <2> QED BY <2>2 DEF RepeatsUnshared
<1>2. UNCHANGED sent => RepeatsUnshared BY DEF RepeatsUnshared
<1> QED BY <1>1, <1>2

\* An item that has been sent is known by its rank.
LEMMA RankIsUnique ==
    ASSUME TypeOK, RanksGrow, NEW x \in Out, NEW y \in Out, x.n = y.n
    PROVE  x = y
<1>1. sent \in Seq(TxItem) /\ DOMAIN sent = 1 .. Len(sent) /\ Len(sent) \in Nat
  BY LenProperties DEF TypeOK
<1>2. PICK a \in DOMAIN sent, b \in DOMAIN sent : x = sent[a] /\ y = sent[b] BY DEF Out
<1>3. \A i, j \in DOMAIN sent : i < j => sent[i].n < sent[j].n BY SentInOrder
<1>4. \A i \in DOMAIN sent : sent[i].n \in Nat
  <2>1. \A i \in DOMAIN sent : sent[i] \in TxItem BY <1>1
  <2> QED BY <2>1 DEF TxItem
<1>5. a = b BY <1>1, <1>2, <1>3, <1>4
<1> QED BY <1>2, <1>5

\* Taking an entry out of a sequence leaves all others, in their order.
LEMMA EntriesLeft ==
    ASSUME Wire, NEW k \in 1 .. Len(pendingPubs)
    PROVE  LET rest == RemovePending(k) IN
           /\ Len(rest) \in Nat
           /\ \A i \in 1 .. Len(rest) :
                 \E j \in 1 .. Len(pendingPubs) :
                     j # k /\ rest[i] = pendingPubs[j] /\ j = (IF i < k THEN i ELSE i + 1)
           /\ \A j \in 1 .. Len(pendingPubs) :
                 j # k => \E i \in 1 .. Len(rest) : rest[i] = pendingPubs[j]
<1> DEFINE rest == RemovePending(k)
           old(i) == IF i < k THEN i ELSE i + 1
<1>1. pendingPubs \in Seq(Pending) /\ Len(pendingPubs) \in Nat BY LenProperties DEF Wire
<1>2. Len(rest) = Len(pendingPubs) - 1 /\ \A i \in 1 .. Len(rest) : rest[i] = pendingPubs[old(i)]
  BY RemovalIndex
<1> HIDE DEF rest
<1>3. ASSUME NEW i \in 1 .. Len(rest)
      PROVE  \E j \in 1 .. Len(pendingPubs) :
                j # k /\ rest[i] = pendingPubs[j] /\ j = (IF i < k THEN i ELSE i + 1)
  <2>1. old(i) \in 1 .. Len(pendingPubs) /\ old(i) # k BY <1>1, <1>2
  <2> QED BY <1>2, <2>1
<1>4. ASSUME NEW j \in 1 .. Len(pendingPubs), j # k
      PROVE  \E i \in 1 .. Len(rest) : rest[i] = pendingPubs[j]
  <2> DEFINE i == IF j < k THEN j ELSE j - 1
  <2>1. i \in 1 .. Len(rest) /\ old(i) = j BY <1>1, <1>2, <1>4
  <2> HIDE DEF i, old
  <2> QED BY <1>2, <2>1
<1> QED BY <1>1, <1>2, <1>3, <1>4 DEF rest

\* The packets after the first one: nothing but the first one is gone.
LEMMA AcksTail ==
    ASSUME NEW S, NEW in \in Seq(S), in # <<>>, NEW pubs, NEW rep
    PROVE  /\ Len(in) \in Nat \ {0} /\ in[1] = Head(in)
           /\ Len(Tail(in)) = Len(in) - 1
           /\ \A i \in 1 .. Len(Tail(in)) : Tail(in)[i] = in[i + 1] /\ i + 1 \in 1 .. Len(in)
           /\ Rising(in, rep) => Rising(Tail(in), rep)
           /\ Owned(in, pubs, rep) => Owned(Tail(in), pubs, rep)
           /\ \A n : Answered(in, n) =>
                        Answered(Tail(in), n) \/ (Head(in).type = "Puback" /\ Head(in).n = n)
<1> DEFINE t == Tail(in)
<1>1. /\ Len(in) \in Nat \ {0} /\ Len(t) = Len(in) - 1 /\ Head(in) = in[1]
      /\ \A i \in 1 .. Len(t) : t[i] = in[i + 1]
  BY EmptySeq, HeadTailProperties
<1> HIDE DEF t
<1>2. \A i \in 1 .. Len(t) : i \in Nat /\ i + 1 \in 1 .. Len(in) BY <1>1
<1>3. ASSUME Rising(in, rep) PROVE Rising(t, rep)
  <2> SUFFICES ASSUME NEW i \in 1 .. Len(t), NEW j \in 1 .. Len(t),
                      i < j, Single(t[i], rep), Single(t[j], rep)
               PROVE  t[i].n < t[j].n
    BY DEF Rising
  <2>1. i + 1 < j + 1 BY <1>2
  <2> QED BY <1>1, <1>2, <1>3, <2>1 DEF Rising
<1>4. ASSUME Owned(in, pubs, rep) PROVE Owned(t, pubs, rep)
  BY <1>1, <1>2, <1>4 DEF Owned
<1>5. ASSUME NEW n, Answered(in, n)
      PROVE  Answered(t, n) \/ (in[1].type = "Puback" /\ in[1].n = n)
  <2>1. PICK i \in 1 .. Len(in) : in[i].type = "Puback" /\ in[i].n = n BY <1>5 DEF Answered
  <2>2. CASE i = 1 BY <2>1, <2>2
  <2>3. CASE i # 1
    <3>1. i - 1 \in 1 .. Len(t) /\ (i - 1) + 1 = i BY <1>1, <2>3
    <3> HIDE DEF t
    <3>2. t[i - 1] = in[i] BY <1>1, <3>1
    <3> QED BY <2>1, <3>1, <3>2 DEF Answered
  <2> QED BY <2>2, <2>3
<1> QED BY <1>1, <1>2, <1>3, <1>4, <1>5 DEF t

\* A packet that arrives is behind all others.
LEMMA AcksAppend ==
    ASSUME NEW S, NEW in \in Seq(S), NEW p \in S, NEW pubs, NEW rep,
           Rising(in, rep), Owned(in, pubs, rep),
           Single(p, rep) => /\ \A i \in 1 .. Len(in) : Single(in[i], rep) => in[i].n < p.n
                             /\ \E k \in 1 .. Len(pubs) : pubs[k].item.n = p.n
    PROVE  /\ Rising(Append(in, p), rep)
           /\ Owned(Append(in, p), pubs, rep)
           /\ \A n : Answered(in, n) => Answered(Append(in, p), n)
           /\ p.type = "Puback" => Answered(Append(in, p), p.n)
<1> DEFINE t == Append(in, p)
<1>1. /\ Len(in) \in Nat /\ Len(t) = Len(in) + 1
      /\ t[Len(in) + 1] = p /\ \A i \in 1 .. Len(in) : t[i] = in[i]
  BY LenProperties, AppendProperties
<1> HIDE DEF t
<1>2. \A i \in 1 .. Len(t) : i \in 1 .. Len(in) \/ i = Len(in) + 1 BY <1>1
<1>3. Rising(t, rep)
  <2> SUFFICES ASSUME NEW i \in 1 .. Len(t), NEW j \in 1 .. Len(t),
                      i < j, Single(t[i], rep), Single(t[j], rep)
               PROVE  t[i].n < t[j].n
    BY DEF Rising
  <2>1. i \in 1 .. Len(in) /\ t[i] = in[i] BY <1>1
  <2>2. CASE j \in 1 .. Len(in)
    <3>1. t[j] = in[j] BY <1>1, <2>2
    <3> QED BY <2>1, <2>2, <3>1 DEF Rising
  <2>3. CASE j = Len(in) + 1
    <3>1. t[j] = p BY <1>1, <2>3
    <3> QED BY <2>1, <3>1
  <2> QED BY <1>2, <2>2, <2>3
<1>4. Owned(t, pubs, rep)
  <2> SUFFICES ASSUME NEW i \in 1 .. Len(t), Single(t[i], rep)
               PROVE  \E k \in 1 .. Len(pubs) : pubs[k].item.n = t[i].n
    BY DEF Owned
  <2>1. CASE i \in 1 .. Len(in)
    <3>1. t[i] = in[i] BY <1>1, <2>1
    <3> QED BY <2>1, <3>1 DEF Owned
  <2>2. CASE i = Len(in) + 1
    <3>1. t[i] = p BY <1>1, <2>2
    <3> QED BY <3>1
  <2> QED BY <1>2, <2>1, <2>2
<1>5. \A n : Answered(in, n) => Answered(t, n) BY <1>1 DEF Answered
<1>6. p.type = "Puback" => Answered(t, p.n) BY <1>1 DEF Answered
<1> QED BY <1>3, <1>4, <1>5, <1>6 DEF t

\* A packet that is sent joins those on their way.
LEMMA TravelsAppend ==
    ASSUME NEW S, NEW t \in Seq(S), NEW p \in S
    PROVE  /\ \A n : Travels(t, n) => Travels(Append(t, p), n)
           /\ IsPublish(p) /\ ~p.dup => Travels(Append(t, p), p.n)
<1> DEFINE u == Append(t, p)
<1>1. /\ Len(t) \in Nat /\ Len(u) = Len(t) + 1
      /\ u[Len(t) + 1] = p /\ \A i \in 1 .. Len(t) : u[i] = t[i]
  BY LenProperties, AppendProperties
<1> HIDE DEF u
<1>2. \A i \in 1 .. Len(t) : i \in 1 .. Len(u) BY <1>1
<1>3. Len(t) + 1 \in 1 .. Len(u) BY <1>1
<1>4. \A n : Travels(t, n) => Travels(u, n) BY <1>1, <1>2 DEF Travels
<1>5. IsPublish(p) /\ ~p.dup => Travels(u, p.n) BY <1>1, <1>3 DEF Travels
<1> QED BY <1>4, <1>5 DEF u

\* Receiving moves packets from the connection to the buffer, in their order.
LEMMA InboundReceived ==
    ASSUME Wire, NEW k \in 1 .. Len(toClient), Receive(k)
    PROVE  /\ (rxBuf \o SubSeq(toClient, 1, k)) \o toClient' = Inbound
           /\ Inbound \in Seq(ToClient)
<1> DEFINE front == SubSeq(toClient, 1, k)
           back == SubSeq(toClient, k + 1, Len(toClient))
<1>1. /\ toClient \in Seq(ToClient) /\ rxBuf \in Seq(ToClient)
      /\ Len(toClient) \in Nat /\ Len(rxBuf) \in Nat
  BY LenProperties DEF Wire
<1>2. /\ front \in Seq(ToClient) /\ Len(front) = k
      /\ \A i \in 1 .. k : front[i] = toClient[i]
  BY <1>1
<1>3. /\ back \in Seq(ToClient) /\ Len(back) = Len(toClient) - k
      /\ \A i \in 1 .. Len(toClient) - k : back[i] = toClient[i + k]
  BY <1>1
<1>4. toClient' = back BY DEF Receive
<1> HIDE DEF front, back
<1>5. front \o back = toClient
  <2> DEFINE whole == front \o back
  <2>1. /\ whole \in Seq(ToClient) /\ Len(whole) = Len(front) + Len(back)
        /\ \A i \in 1 .. Len(front) + Len(back) :
              whole[i] = IF i <= Len(front) THEN front[i] ELSE back[i - Len(front)]
    BY <1>2, <1>3, ConcatProperties, ZenonT(30)
  <2> HIDE DEF whole
  <2>2. Len(whole) = Len(toClient) BY <1>1, <1>2, <1>3, <2>1
  <2>3. ASSUME NEW i \in 1 .. Len(toClient) PROVE whole[i] = toClient[i]
    <3>1. CASE i <= k
      <4>1. i \in 1 .. k BY <3>1
      <4> QED BY <1>2, <1>3, <2>1, <2>2, <3>1, <4>1
    <3>2. CASE i > k
      <4>1. i - k \in 1 .. Len(toClient) - k /\ (i - k) + k = i BY <1>1, <3>2
      <4>2. whole[i] = back[i - k] BY <1>1, <1>2, <1>3, <2>1, <3>2
      <4> QED BY <1>3, <4>1, <4>2
    <3> QED BY <1>1, <3>1, <3>2
  <2>4. whole = toClient BY <1>1, <2>1, <2>2, <2>3, SeqEqual
  <2> QED BY <2>4 DEF whole
<1>6. (rxBuf \o front) \o back = rxBuf \o (front \o back)
  <2> DEFINE S == ToClient
  <2>1. rxBuf \in Seq(S) /\ front \in Seq(S) /\ back \in Seq(S)
    BY <1>1, <1>2, <1>3
  <2> HIDE DEF S
  <2> QED BY <2>1, ConcatAssociative
<1>7. Inbound \in Seq(ToClient) BY <1>1, ConcatProperties DEF Inbound
<1> QED BY <1>4, <1>5, <1>6, <1>7 DEF Inbound, front

\* Handling a packet takes away the first one.
LEMMA InboundHandled ==
    ASSUME NEW S, NEW buf \in Seq(S), buf # <<>>, NEW rest \in Seq(S)
    PROVE  /\ buf \o rest \in Seq(S) /\ buf \o rest # <<>> /\ Head(buf \o rest) = Head(buf)
           /\ Tail(buf) \o rest = Tail(buf \o rest)
<1>1. /\ Len(buf) \in Nat \ {0} /\ Len(rest) \in Nat /\ Head(buf) = buf[1]
      /\ Tail(buf) \in Seq(S) /\ Len(Tail(buf)) = Len(buf) - 1
      /\ \A i \in 1 .. Len(buf) - 1 : Tail(buf)[i] = buf[i + 1]
  BY EmptySeq, LenProperties, HeadTailProperties
<1> DEFINE whole == buf \o rest
           tail == Tail(buf)
           less == tail \o rest
<1>2. /\ whole \in Seq(S) /\ Len(whole) = Len(buf) + Len(rest)
      /\ \A i \in 1 .. Len(buf) + Len(rest) :
            whole[i] = IF i <= Len(buf) THEN buf[i] ELSE rest[i - Len(buf)]
  BY ConcatProperties, ZenonT(30)
<1>3. tail \in Seq(S) /\ Len(tail) = Len(buf) - 1 BY <1>1
<1>4. \A i \in 1 .. Len(buf) - 1 : tail[i] = buf[i + 1] BY <1>1
<1> HIDE DEF tail
<1>5. /\ less \in Seq(S) /\ Len(less) = Len(tail) + Len(rest)
      /\ \A i \in 1 .. Len(tail) + Len(rest) :
            less[i] = IF i <= Len(tail) THEN tail[i] ELSE rest[i - Len(tail)]
  BY <1>3, ConcatProperties, ZenonT(30)
<1> HIDE DEF whole, less
<1>6. Len(whole) \in Nat \ {0} /\ whole[1] = buf[1] BY <1>1, <1>2
<1>7. whole # <<>> BY <1>6
<1>8. /\ Tail(whole) \in Seq(S) /\ Len(Tail(whole)) = Len(whole) - 1 /\ Head(whole) = whole[1]
      /\ \A i \in 1 .. Len(whole) - 1 : Tail(whole)[i] = whole[i + 1]
  BY <1>2, <1>6, <1>7, HeadTailProperties
<1>9. ASSUME NEW i \in 1 .. Len(less) PROVE less[i] = Tail(whole)[i]
  <2>1. i \in Nat \ {0} /\ i <= (Len(buf) - 1) + Len(rest) BY <1>1, <1>3, <1>5
  <2>2. Tail(whole)[i] = whole[i + 1] BY <1>1, <1>2, <1>8, <2>1
  <2>3. CASE i <= Len(buf) - 1
    <3>1. less[i] = buf[i + 1] BY <1>1, <1>3, <1>4, <1>5, <2>1, <2>3
    <3>2. whole[i + 1] = buf[i + 1] BY <1>1, <1>2, <2>1, <2>3
    <3> QED BY <2>2, <3>1, <3>2
  <2>4. CASE i > Len(buf) - 1
    <3>1. less[i] = rest[i - (Len(buf) - 1)]
      <4>1. Len(tail) = Len(buf) - 1 /\ i \in 1 .. Len(tail) + Len(rest) /\ ~(i <= Len(tail))
        BY <1>1, <1>3, <2>1, <2>4
      <4>2. less[i] = rest[i - Len(tail)] BY <1>5, <4>1
      <4> QED BY <4>1, <4>2
    <3>2. whole[i + 1] = rest[(i + 1) - Len(buf)] BY <1>1, <1>2, <2>1, <2>4
    <3>3. i - (Len(buf) - 1) = (i + 1) - Len(buf) BY <1>1, <2>1
    <3> QED BY <2>2, <3>1, <3>2, <3>3
  <2>5. i <= Len(buf) - 1 \/ i > Len(buf) - 1 BY <1>1, <2>1
  <2> QED BY <2>3, <2>4, <2>5
<1>10. Len(less) = Len(Tail(whole)) BY <1>1, <1>2, <1>3, <1>5, <1>8
<1>11. less = Tail(whole) BY <1>5, <1>8, <1>9, <1>10, SeqEqual
<1> QED BY <1>1, <1>2, <1>6, <1>7, <1>8, <1>11 DEF whole, less, tail

\* The marks: an item sent for the first time carries none, ...
LEMMA SendItemMarks ==
    ASSUME TypeOK, Wire, RanksGrow, Flight, Marks, SendItem
    PROVE  Marks'
<1> DEFINE item == Head(batch)
           pkt == ItemPkt(item, FALSE)
           entry == [item |-> item, resent |-> FALSE]
<1>1. /\ batch # <<>> /\ sent' = Append(sent, item) /\ UNCHANGED repeated
      /\ toBroker' \in {toBroker, Append(toBroker, pkt)}
      /\ pendingPubs' \in {pendingPubs, Append(pendingPubs, entry)}
  BY DEF SendItem, Sends
<1>2. item \in TxItem /\ item.n \in Nat /\ \A n \in SentSet : n \in Nat /\ n < item.n
  BY <1>1, NextIsYounger
<1>3. pkt.dup = FALSE /\ entry.item = item /\ entry.resent = FALSE BY DEF ItemPkt
<1>4. item.n \notin repeated
  <2> HIDE DEF item
  <2> QED BY <1>2 DEF Marks
<1>5. /\ toBroker \in Seq(ToBroker \cup {pkt}) /\ pkt \in ToBroker \cup {pkt}
      /\ pendingPubs \in Seq(Pending \cup {entry}) /\ entry \in Pending \cup {entry}
  BY LargerSet DEF Wire
<1> HIDE DEF item, pkt, entry
<1>6. repeated' \subseteq SentSet'
  <2>1. sent \in Seq(TxItem) /\ DOMAIN sent = 1 .. Len(sent) BY LenProperties DEF TypeOK
  <2>2. /\ Len(sent) \in Nat /\ DOMAIN sent' = 1 .. Len(sent) + 1
        /\ \A i \in 1 .. Len(sent) : sent'[i] = sent[i]
    BY <1>1, <1>2, <2>1, LenProperties, AppendProperties
  <2>3. Out \subseteq Out' BY <2>1, <2>2 DEF Out
  <2>4. SentSet \subseteq SentSet' BY <2>3 DEF SentSet
  <2> QED BY <1>1, <2>4 DEF Marks
<1>7. \A i \in 1 .. Len(toBroker') :
         IsPublish(toBroker'[i]) /\ toBroker'[i].dup => toBroker'[i].n \in repeated'
  <2>1. CASE toBroker' = toBroker BY <1>1, <2>1 DEF Marks
  <2>2. CASE toBroker' = Append(toBroker, pkt)
    <3>1. /\ Len(toBroker) \in Nat /\ Len(toBroker') = Len(toBroker) + 1
          /\ toBroker'[Len(toBroker) + 1] = pkt
          /\ \A i \in 1 .. Len(toBroker) : toBroker'[i] = toBroker[i]
      BY <1>5, <2>2, LenProperties, AppendProperties
    <3>2. \A i \in 1 .. Len(toBroker') : i \in 1 .. Len(toBroker) \/ i = Len(toBroker) + 1
      BY <3>1
    <3> QED BY <1>1, <1>3, <3>1, <3>2 DEF Marks
  <2> QED BY <1>1, <2>1, <2>2
<1>8. /\ \A k \in 1 .. Len(pendingPubs') :
            pendingPubs'[k].resent <=> pendingPubs'[k].item.n \in repeated'
      /\ \A j, k \in 1 .. Len(pendingPubs') :
            j < k => pendingPubs'[j].item.n < pendingPubs'[k].item.n
  <2>1. CASE pendingPubs' = pendingPubs BY <1>1, <2>1 DEF Marks
  <2>2. CASE pendingPubs' = Append(pendingPubs, entry)
    <3>1. /\ Len(pendingPubs) \in Nat /\ Len(pendingPubs') = Len(pendingPubs) + 1
          /\ pendingPubs'[Len(pendingPubs) + 1] = entry
          /\ \A k \in 1 .. Len(pendingPubs) : pendingPubs'[k] = pendingPubs[k]
      BY <1>5, <2>2, LenProperties, AppendProperties
    <3>2. \A k \in 1 .. Len(pendingPubs') : k \in 1 .. Len(pendingPubs) \/ k = Len(pendingPubs) + 1
      BY <3>1
    <3>3. \A k \in 1 .. Len(pendingPubs) : pendingPubs[k].item.n < item.n
      BY <1>2, FlightWasSent
    <3>4. \A k \in 1 .. Len(pendingPubs') :
             pendingPubs'[k].resent <=> pendingPubs'[k].item.n \in repeated'
      BY <1>1, <1>3, <1>4, <3>1, <3>2 DEF Marks
    <3>5. ASSUME NEW j \in 1 .. Len(pendingPubs'), NEW k \in 1 .. Len(pendingPubs'), j < k
          PROVE  pendingPubs'[j].item.n < pendingPubs'[k].item.n
      <4>1. j \in 1 .. Len(pendingPubs) /\ pendingPubs'[j] = pendingPubs[j] BY <3>1, <3>5
      <4>2. CASE k \in 1 .. Len(pendingPubs)
        <5>1. pendingPubs'[k] = pendingPubs[k] BY <3>1, <4>2
        <5> QED BY <3>5, <4>1, <4>2, <5>1 DEF Marks
      <4>3. CASE k = Len(pendingPubs) + 1
        <5>1. pendingPubs'[k].item = item BY <1>3, <3>1, <4>3
        <5> QED BY <3>3, <4>1, <5>1
      <4> QED BY <3>2, <4>2, <4>3
    <3> QED BY <3>4, <3>5
  <2> QED BY <1>1, <2>1, <2>2
<1> QED BY <1>6, <1>7, <1>8 DEF Marks

\* How a publish that is sent again is marked: in the history, in its entry and in
\* the packet.
LEMMA ResendIs ==
    ASSUME TypeOK, Wire, ResendDup, ~UNCHANGED <<pendingPubs, toBroker, repeated>>
    PROVE  LET pkt == ItemPkt(pendingPubs[cursor].item, TRUE) IN
           /\ cursor \in 1 .. Len(pendingPubs) /\ Len(pendingPubs') = Len(pendingPubs)
           /\ pkt.dup = TRUE /\ pkt.n = pendingPubs[cursor].item.n
           /\ toBroker' \in {toBroker, Append(toBroker, pkt)}
           /\ repeated' = repeated \cup {pendingPubs[cursor].item.n}
           /\ \A k \in 1 .. Len(pendingPubs) :
                 /\ pendingPubs'[k].item = pendingPubs[k].item
                 /\ k # cursor => pendingPubs'[k].resent = pendingPubs[k].resent
           /\ pendingPubs'[cursor].resent = TRUE
<1> DEFINE entry == pendingPubs[cursor]
           marked == [entry EXCEPT !.resent = TRUE]
<1>1. cursor \in 1 .. Len(pendingPubs) BY DEF ResendDup, TypeOK
<1>2. entry \in Pending /\ pendingPubs \in Seq(Pending) BY <1>1, ElementOfSeq DEF Wire
<1>3. /\ toBroker' \in {toBroker, Append(toBroker, ItemPkt(entry.item, TRUE))}
      /\ pendingPubs' = [pendingPubs EXCEPT ![cursor].resent = TRUE]
      /\ repeated' = repeated \cup {entry.item.n}
  BY DEF ResendDup, Sends, SendFails
<1>4. marked \in Pending /\ marked.item = entry.item /\ marked.resent = TRUE
  BY <1>2 DEF Pending
<1>5. pendingPubs' = [pendingPubs EXCEPT ![cursor] = marked] BY <1>3
<1> HIDE DEF marked, entry
<1>6. /\ Len(pendingPubs') = Len(pendingPubs)
      /\ \A k \in 1 .. Len(pendingPubs) :
            pendingPubs'[k] = IF k = cursor THEN marked ELSE pendingPubs[k]
  BY <1>1, <1>2, <1>4, <1>5, ExceptSeq
<1>7. ItemPkt(entry.item, TRUE).dup = TRUE /\ ItemPkt(entry.item, TRUE).n = entry.item.n
  BY DEF ItemPkt
<1> QED BY <1>1, <1>3, <1>4, <1>6, <1>7 DEF entry

\* ... one sent again is marked everywhere, ...
LEMMA ResendMarks ==
    ASSUME TypeOK, Wire, Flight, Marks, ResendDup
    PROVE  Marks'
<1>1. UNCHANGED sent BY DEF ResendDup
<1>2. SentSet' = SentSet BY <1>1 DEF SentSet, Out
<1>3. CASE UNCHANGED <<pendingPubs, toBroker, repeated>> BY <1>2, <1>3 DEF Marks
<1>4. CASE ~UNCHANGED <<pendingPubs, toBroker, repeated>>
  <2> DEFINE n0 == pendingPubs[cursor].item.n
             pkt == ItemPkt(pendingPubs[cursor].item, TRUE)
  <2>1. /\ cursor \in 1 .. Len(pendingPubs) /\ Len(pendingPubs') = Len(pendingPubs)
        /\ pkt.dup = TRUE /\ pkt.n = n0
        /\ toBroker' \in {toBroker, Append(toBroker, pkt)}
        /\ repeated' = repeated \cup {n0}
        /\ \A k \in 1 .. Len(pendingPubs) :
              /\ pendingPubs'[k].item = pendingPubs[k].item
              /\ k # cursor => pendingPubs'[k].resent = pendingPubs[k].resent
        /\ pendingPubs'[cursor].resent = TRUE
    BY <1>4, ResendIs
  <2>2. n0 \in SentSet BY <2>1, FlightWasSent
  <2>3. \A k \in 1 .. Len(pendingPubs) : k # cursor => pendingPubs[k].item.n # n0
    BY <2>1 DEF Flight, Pendings
  <2>4. toBroker \in Seq(ToBroker \cup {pkt}) /\ pkt \in ToBroker \cup {pkt}
    BY LargerSet DEF Wire
  <2> HIDE DEF pkt
  <2>5. \A i \in 1 .. Len(toBroker') :
           IsPublish(toBroker'[i]) /\ toBroker'[i].dup => toBroker'[i].n \in repeated'
    <3>1. CASE toBroker' = toBroker BY <2>1, <3>1 DEF Marks
    <3>2. CASE toBroker' = Append(toBroker, pkt)
      <4>1. /\ Len(toBroker) \in Nat /\ Len(toBroker') = Len(toBroker) + 1
            /\ toBroker'[Len(toBroker) + 1] = pkt
            /\ \A i \in 1 .. Len(toBroker) : toBroker'[i] = toBroker[i]
        BY <2>4, <3>2, LenProperties, AppendProperties
      <4>2. \A i \in 1 .. Len(toBroker') : i \in 1 .. Len(toBroker) \/ i = Len(toBroker) + 1
        BY <4>1
      <4> HIDE DEF n0
      <4> QED BY <2>1, <4>1, <4>2 DEF Marks
    <3> QED BY <2>1, <3>1, <3>2
  <2>6. ASSUME NEW k \in 1 .. Len(pendingPubs')
        PROVE  pendingPubs'[k].resent <=> pendingPubs'[k].item.n \in repeated'
    <3>1. CASE k = cursor BY <2>1, <3>1
    <3>2. CASE k # cursor
      <4>1. /\ pendingPubs'[k].item.n = pendingPubs[k].item.n
            /\ pendingPubs'[k].resent = pendingPubs[k].resent
            /\ pendingPubs[k].item.n # n0
        BY <2>1, <2>3, <2>6, <3>2
      <4>2. pendingPubs[k].resent <=> pendingPubs[k].item.n \in repeated
        BY <2>1, <2>6 DEF Marks
      <4> HIDE DEF n0
      <4> QED BY <2>1, <4>1, <4>2
    <3> QED BY <3>1, <3>2
  <2>7. \A j, k \in 1 .. Len(pendingPubs') :
           j < k => pendingPubs'[j].item.n < pendingPubs'[k].item.n
    BY <2>1 DEF Marks
  <2>8. repeated' \subseteq SentSet'
    <3> HIDE DEF n0
    <3> QED BY <1>2, <2>1, <2>2 DEF Marks
  <2> QED BY <2>5, <2>6, <2>7, <2>8 DEF Marks
<1> QED BY <1>3, <1>4

\* ... and one given up or acknowledged leaves the others as they were.
LEMMA RemovalMarks ==
    ASSUME Wire, Marks, NEW c \in 1 .. Len(pendingPubs), pendingPubs' = RemovePending(c),
           UNCHANGED <<toBroker, sent, repeated>>
    PROVE  Marks'
<1>1. SentSet' = SentSet BY DEF SentSet, Out
<1>2. Len(pendingPubs) \in Nat BY LenProperties DEF Wire
<1>3. /\ Len(pendingPubs') = Len(pendingPubs) - 1
      /\ \A i \in 1 .. Len(pendingPubs') : pendingPubs'[i] = pendingPubs[IF i < c THEN i ELSE i + 1]
  BY RemovalIndex
<1>4. \A i \in 1 .. Len(pendingPubs') : (IF i < c THEN i ELSE i + 1) \in 1 .. Len(pendingPubs)
  BY <1>2, <1>3
<1>5. \A i, j \in 1 .. Len(pendingPubs') :
         i < j => (IF i < c THEN i ELSE i + 1) < (IF j < c THEN j ELSE j + 1)
  BY <1>2, <1>3
<1> DEFINE old(i) == IF i < c THEN i ELSE i + 1
<1>6. \A i \in 1 .. Len(pendingPubs') : pendingPubs'[i] = pendingPubs[old(i)] /\ old(i) \in 1 .. Len(pendingPubs)
  BY <1>3, <1>4
<1>7. \A i, j \in 1 .. Len(pendingPubs') : i < j => old(i) < old(j) BY <1>5
<1> HIDE DEF old
<1>8. \A k \in 1 .. Len(pendingPubs') : pendingPubs'[k].resent <=> pendingPubs'[k].item.n \in repeated'
  BY <1>6 DEF Marks
<1>9. \A j, k \in 1 .. Len(pendingPubs') : j < k => pendingPubs'[j].item.n < pendingPubs'[k].item.n
  BY <1>6, <1>7 DEF Marks
<1> QED BY <1>1, <1>8, <1>9 DEF Marks

\* A step that leaves the publishes alone leaves the marks.
LEMMA MarksKept ==
    ASSUME Marks, UNCHANGED <<sent, repeated>>,
           \/ UNCHANGED pendingPubs \/ pendingPubs' = <<>>,
           \A i \in 1 .. Len(toBroker') : IsPublish(toBroker'[i]) =>
               \E j \in 1 .. Len(toBroker) : toBroker'[i] = toBroker[j]
    PROVE  Marks'
<1>1. SentSet' = SentSet BY DEF SentSet, Out
<1>2. \A i \in 1 .. Len(toBroker') :
         IsPublish(toBroker'[i]) /\ toBroker'[i].dup => toBroker'[i].n \in repeated'
  BY DEF Marks
<1>3. CASE pendingPubs' = <<>>
  <2>1. \A i : i \notin 1 .. Len(pendingPubs') BY <1>3
  <2> QED BY <1>1, <1>2, <2>1 DEF Marks
<1>4. CASE UNCHANGED pendingPubs BY <1>1, <1>2, <1>4 DEF Marks
<1> QED BY <1>3, <1>4

\* Only the resend loop marks publishes, and only handlePuback counts them.
LEMMA HistoryKept ==
    ASSUME ClientStep
    PROVE  /\ ~ResendDup => UNCHANGED repeated
           /\ ~HandlePuback => UNCHANGED acked
<1> USE DEF pubVars
<1>1. ASSUME NEW u \in Users, UserStep(u) PROVE UNCHANGED <<repeated, acked>>
  BY <1>1 DEF UserStep, Publish, ChangeTable, TakePacketId, EnqueuePacket, WakeAfterEnqueue
<1>2. ASSUME LifeStep PROVE UNCHANGED <<repeated, acked>>
  BY <1>2 DEF LifeStep, Start, StopRequest, StopWake, StopJoin
<1>3. ASSUME NetworkStep
      PROVE  /\ ~ResendDup => UNCHANGED repeated
             /\ ~HandlePuback => UNCHANGED acked
  <2>1. CASE LoopTop \/ BackoffWait \/ ConnectSucceeds \/ ConnectAbandoned \/ ConnectFails
    BY <2>1 DEF LoopTop, BackoffWait, ConnectSucceeds, ConnectAbandoned, ConnectFails
  <2>2. CASE SendConnect \/ AwaitConnack \/ Announce \/ ResubscribeAll \/ TakeBatch \/ SkipItem
    BY <2>2 DEF SendConnect, AwaitConnack, Announce, ResubscribeAll, TakeBatch, SkipItem
  <2>3. CASE SendItem \/ Requeue \/ BatchSent \/ NotExpired \/ GiveUp
    BY <2>3 DEF SendItem, Requeue, BatchSent, NotExpired, GiveUp
  <2>4. CASE TimersDone \/ Poll \/ HandlePublish \/ HandleOther \/ HandledAll
    BY <2>4 DEF TimersDone, Poll, HandlePublish, HandleOther, HandledAll
  <2>5. CASE OnDisconnect \/ LossReported \/ Cleanup \/ EndReported \/ ClosePipe
    BY <2>5 DEF OnDisconnect, LossReported, Cleanup, EndReported, ClosePipe
  <2>6. CASE ResendDup BY <2>6 DEF ResendDup
  <2>7. CASE HandlePuback BY <2>7 DEF HandlePuback
  <2> QED BY <1>3, <2>1, <2>2, <2>3, <2>4, <2>5, <2>6, <2>7 DEF NetworkStep
<1> QED BY <1>1, <1>2, <1>3 DEF ClientStep

\* What the client sends besides publishes.
LEMMA OtherSends ==
    ASSUME SendConnect \/ ResubscribeAll \/ HandlePublish
    PROVE  \/ UNCHANGED toBroker
           \/ \E pkt : ~IsPublish(pkt) /\ toBroker' = Append(toBroker, pkt)
<1>1. \/ UNCHANGED toBroker
      \/ \E pkt \in {ConnectPkt, AckPkt(0), ResubPkt(subscriptions)} : Sends(pkt) \/ SendFails
  BY DEF SendConnect, ResubscribeAll, HandlePublish
<1>2. \A pkt \in {ConnectPkt, AckPkt(0), ResubPkt(subscriptions)} : ~IsPublish(pkt)
  BY DEF IsPublish, ConnectPkt, AckPkt, ResubPkt
<1> QED BY <1>1, <1>2 DEF Sends, SendFails

\* Such a packet adds no publish to those under way.
LEMMA OtherAppended ==
    ASSUME Wire, UNCHANGED toBroker \/ \E pkt : ~IsPublish(pkt) /\ toBroker' = Append(toBroker, pkt)
    PROVE  /\ \A i \in 1 .. Len(toBroker') : IsPublish(toBroker'[i]) =>
                 \E j \in 1 .. Len(toBroker) : toBroker'[i] = toBroker[j]
           /\ \A n : Travels(toBroker, n) => Travels(toBroker', n)
<1>1. ASSUME NEW pkt, ~IsPublish(pkt), toBroker' = Append(toBroker, pkt)
      PROVE  /\ \A i \in 1 .. Len(toBroker') : IsPublish(toBroker'[i]) =>
                   \E j \in 1 .. Len(toBroker) : toBroker'[i] = toBroker[j]
             /\ \A n : Travels(toBroker, n) => Travels(toBroker', n)
  <2>1. toBroker \in Seq(ToBroker \cup {pkt}) /\ pkt \in ToBroker \cup {pkt}
    BY LargerSet DEF Wire
  <2>2. /\ Len(toBroker) \in Nat /\ Len(toBroker') = Len(toBroker) + 1
        /\ toBroker'[Len(toBroker) + 1] = pkt
        /\ \A i \in 1 .. Len(toBroker) : toBroker'[i] = toBroker[i]
    BY <1>1, <2>1, LenProperties, AppendProperties
  <2>3. \A i \in 1 .. Len(toBroker') : i \in 1 .. Len(toBroker) \/ i = Len(toBroker) + 1
    BY <2>2
  <2>4. \A n : Travels(toBroker, n) => Travels(toBroker', n) BY <1>1, <2>1, TravelsAppend
  <2> QED BY <1>1, <2>2, <2>3, <2>4
<1>2. CASE UNCHANGED toBroker BY <1>2
<1> QED BY <1>1, <1>2

\* Every step of the client keeps the marks, ...
LEMMA ClientMarks ==
    ASSUME TypeOK, Wire, RanksGrow, Flight, Marks, ClientSide
    PROVE  Marks'
<1>1. CASE ResendDup BY <1>1, ResendMarks
<1>2. CASE ~ResendDup
  <2>1. UNCHANGED repeated BY <1>2, HistoryKept DEF ClientSide
  <2>2. ASSUME UNCHANGED <<toBroker, pendingPubs, sent>> PROVE Marks'
    BY <2>1, <2>2 DEF Marks, SentSet, Out
  <2>3. CASE (\E u \in Users : UserStep(u)) \/ LifeStep BY <2>2, <2>3, CallsWire
  <2>4. CASE QuietStep BY <2>2, <2>4, QuietWire
  <2>5. CASE AwaitConnack \/ Poll \/ HandleOther
    <3>1. UNCHANGED <<toBroker, pendingPubs, sent>>
      BY <2>5 DEF AwaitConnack, Poll, HandleOther, pubVars, linkVars
    <3> QED BY <2>2, <3>1
  <2>6. CASE SendConnect \/ ResubscribeAll \/ HandlePublish
    <3>1. UNCHANGED <<pendingPubs, sent>>
      BY <2>6 DEF SendConnect, ResubscribeAll, HandlePublish, pubVars
    <3> QED BY <2>1, <2>6, <3>1, OtherSends, OtherAppended, MarksKept
  <2>7. CASE SendItem BY <2>7, SendItemMarks
  <2>8. CASE GiveUp \/ HandlePuback
    <3>1. UNCHANGED <<toBroker, sent>> BY <2>8 DEF GiveUp, HandlePuback, linkVars
    <3>2. DOMAIN pendingPubs = 1 .. Len(pendingPubs) BY LenProperties DEF Wire
    <3>3. GiveUp => cursor \in 1 .. Len(pendingPubs) BY DEF GiveUp, TypeOK
    <3>4. \/ UNCHANGED pendingPubs
          \/ \E i \in 1 .. Len(pendingPubs) : pendingPubs' = RemovePending(i)
      BY <2>8, <3>2, <3>3 DEF GiveUp, HandlePuback
    <3> QED BY <2>1, <2>2, <3>1, <3>4, RemovalMarks
  <2>9. CASE OnDisconnect \/ Cleanup
    <3>1. toBroker' = <<>> /\ pendingPubs' = <<>> /\ UNCHANGED sent
      BY <2>9 DEF OnDisconnect, Cleanup, CloseSocket
    <3>2. \A i : i \notin 1 .. Len(toBroker') BY <3>1
    <3> QED BY <2>1, <3>1, <3>2, MarksKept
  <2> QED
    BY <1>2, <2>3, <2>4, <2>5, <2>6, <2>7, <2>8, <2>9
    DEF ClientSide, ClientStep, NetworkStep, QuietStep
<1> QED BY <1>1, <1>2

\* ... and so does every step of the broker.
LEMMA BrokerMarks ==
    ASSUME Wire, Marks, BrokerStep
    PROVE  Marks'
<1>1. UNCHANGED <<sent, pendingPubs, repeated>>
  BY DEF BrokerStep, BrokerReceives, BrokerConnect, BrokerSubscription, BrokerPublish,
         BrokerPuback, BrokerPushes, BrokerMisbehaves, LinkBreaks, clientOnly
<1>2. \/ UNCHANGED toBroker
      \/ toBroker' = <<>>
      \/ toBroker # <<>> /\ toBroker' = Tail(toBroker)
  BY DEF BrokerStep, BrokerReceives, BrokerConnect, BrokerSubscription, BrokerPublish,
         BrokerPuback, BrokerPushes, BrokerMisbehaves, LinkBreaks, Incoming
<1>3. \A i \in 1 .. Len(toBroker') : \E j \in 1 .. Len(toBroker) : toBroker'[i] = toBroker[j]
  <2>1. CASE toBroker' = <<>>
    <3>1. \A i : i \notin 1 .. Len(toBroker') BY <2>1
    <3> QED BY <3>1
  <2>2. CASE toBroker # <<>> /\ toBroker' = Tail(toBroker)
    <3>1. /\ Len(toBroker) \in Nat /\ Len(toBroker') = Len(toBroker) - 1
          /\ \A i \in 1 .. Len(toBroker') : toBroker'[i] = toBroker[i + 1]
      BY <2>2, EmptySeq, LenProperties, HeadTailProperties DEF Wire
    <3>2. \A i \in 1 .. Len(toBroker') : i + 1 \in 1 .. Len(toBroker) BY <3>1
    <3> QED BY <3>1, <3>2
  <2> QED BY <1>2, <2>1, <2>2
<1> QED BY <1>1, <1>3, MarksKept

\* A new connection starts without pending publishes: closing a socket forgets them.
LEMMA ClientBlank ==
    ASSUME TypeOK, Wire, Handshake, Blank, ClientSide
    PROVE  Blank'
<1>1. ASSUME UNCHANGED pendingPubs, link' = "none" => link = "none",
             npc' \in {"hello", "connack"} => link = "none" \/ npc \in {"hello", "connack"}
      PROVE  Blank'
  BY <1>1 DEF Blank
<1> USE DEF pubVars, linkVars
<1>2. ASSUME NEW u \in Users, UserStep(u) PROVE UNCHANGED <<npc, link, pendingPubs>>
  BY <1>2 DEF UserStep, Publish, ChangeTable, TakePacketId, EnqueuePacket, WakeAfterEnqueue
<1>3. ASSUME LifeStep
      PROVE  UNCHANGED <<link, pendingPubs>> /\ (UNCHANGED npc \/ npc' \in {"top", "none"})
  BY <1>3 DEF LifeStep, Start, StopRequest, StopWake, StopJoin
<1>4. CASE LoopTop \/ BackoffWait \/ ConnectAbandoned \/ ConnectFails
  <2>1. UNCHANGED <<link, pendingPubs>> /\ npc' \notin {"hello", "connack"}
    BY <1>4 DEF LoopTop, LoopBranch, BackoffWait, ConnectAbandoned, ConnectFails
  <2> QED BY <1>1, <2>1
<1>5. CASE ConnectSucceeds
  <2>1. link = "none" BY <1>5 DEF ConnectSucceeds, Handshake, Detached
  <2>2. UNCHANGED pendingPubs /\ link' = "up" BY <1>5 DEF ConnectSucceeds
  <2> QED BY <1>1, <2>1, <2>2
<1>6. CASE SendConnect \/ AwaitConnack
  <2>1. UNCHANGED <<link, pendingPubs>> /\ npc \in {"hello", "connack"}
    BY <1>6 DEF SendConnect, AwaitConnack
  <2> QED BY <1>1, <2>1
<1>7. CASE Announce \/ ResubscribeAll \/ TakeBatch \/ SkipItem \/ Requeue \/ BatchSent \/ NotExpired
  <2>1. UNCHANGED <<link, pendingPubs>> /\ npc' \notin {"hello", "connack"}
    BY <1>7 DEF Announce, ResubscribeAll, TakeBatch, SkipItem, Requeue, BatchSent, NotExpired
  <2> QED BY <1>1, <2>1
<1>8. CASE TimersDone \/ Poll \/ HandlePublish \/ HandleOther \/ HandledAll
  <2>1. UNCHANGED <<link, pendingPubs>> /\ npc' \notin {"hello", "connack"}
    BY <1>8 DEF TimersDone, Poll, HandlePublish, HandleOther, HandledAll, HandlingPacket
  <2> QED BY <1>1, <2>1
<1>9. CASE SendItem \/ ResendDup \/ GiveUp \/ HandlePuback
  <2>1. /\ UNCHANGED link /\ npc \in {"send", "timers", "handle"}
        /\ npc' \in {"send", "timers", "handle", "disconnect"}
    BY <1>9 DEF SendItem, ResendDup, GiveUp, HandlePuback, HandlingPacket
  <2>2. link # "none" BY <2>1 DEF Handshake, Attached
  <2> QED BY <2>1, <2>2 DEF Blank
<1>10. CASE OnDisconnect \/ Cleanup
  <2>1. pendingPubs' = <<>> BY <1>10 DEF OnDisconnect, Cleanup, CloseSocket
  <2> QED BY <2>1 DEF Blank
<1>11. CASE LossReported \/ EndReported \/ ClosePipe
  <2>1. UNCHANGED <<link, pendingPubs>> /\ npc' \notin {"hello", "connack"}
    BY <1>11 DEF LossReported, EndReported, ClosePipe, ContinueLoop
  <2> QED BY <1>1, <2>1
<1>12. CASE LifeStep BY <1>1, <1>3, <1>12
<1>13. CASE \E u \in Users : UserStep(u) BY <1>1, <1>2, <1>13
<1> QED
  BY <1>4, <1>5, <1>6, <1>7, <1>8, <1>9, <1>10, <1>11, <1>12, <1>13
  DEF ClientSide, ClientStep, NetworkStep

LEMMA BrokerBlank == Blank /\ BrokerStep => Blank'
BY DEF Blank, BrokerStep, BrokerReceives, BrokerConnect, BrokerSubscription, BrokerPublish,
       BrokerPuback, BrokerPushes, BrokerMisbehaves, LinkBreaks, clientOnly

\* What is under way to the client is made of known packets.
LEMMA InboundType == Wire => Inbound \in Seq(ToClient)
BY ConcatProperties DEF Wire, Inbound

\* The acknowledgements are as they were when the entries, the receipts and what has
\* come in are.
LEMMA AcksKept ==
    ASSUME Wire, AckFlight, UNCHANGED <<pendingPubs, repeated, got>>, Inbound' = Inbound,
           UNCHANGED link \/ pendingPubs = <<>>,
           UNCHANGED toBroker \/ \E pkt : ~IsPublish(pkt) /\ toBroker' = Append(toBroker, pkt)
    PROVE  AckFlight'
<1>1. Received' = Received BY DEF Received
<1>2. /\ \A i \in 1 .. Len(toBroker') : IsPublish(toBroker'[i]) =>
            \E j \in 1 .. Len(toBroker) : toBroker'[i] = toBroker[j]
      /\ \A n : Travels(toBroker, n) => Travels(toBroker', n)
  BY OtherAppended
<1>3. Awaited(Inbound, pendingPubs, repeated, Received, toBroker', link')
  <2>1. CASE pendingPubs = <<>>
    <3>1. \A k : k \notin 1 .. Len(pendingPubs) BY <2>1
    <3> QED BY <3>1 DEF Awaited
  <2>2. CASE UNCHANGED link BY <1>2, <2>2 DEF AckFlight, Awaited
  <2> QED BY <2>1, <2>2
<1>4. Carried(toBroker', pendingPubs, repeated)
  BY <1>2 DEF AckFlight, Carried, IsPublish
<1> QED BY <1>1, <1>3, <1>4 DEF AckFlight

\* A packet that is no acknowledgement is handled without further ado, and before
\* anything is pending every packet is.
LEMMA OtherHandled ==
    ASSUME Wire, AckFlight, UNCHANGED <<pendingPubs, repeated, got, link>>,
           Inbound # <<>>, Inbound' = Tail(Inbound),
           Head(Inbound).type # "Puback" \/ pendingPubs = <<>>,
           UNCHANGED toBroker \/ \E pkt : ~IsPublish(pkt) /\ toBroker' = Append(toBroker, pkt)
    PROVE  AckFlight'
<1>1. Received' = Received BY DEF Received
<1>2. /\ \A i \in 1 .. Len(toBroker') : IsPublish(toBroker'[i]) =>
            \E j \in 1 .. Len(toBroker) : toBroker'[i] = toBroker[j]
      /\ \A n : Travels(toBroker, n) => Travels(toBroker', n)
  BY OtherAppended
<1>3. /\ Rising(Tail(Inbound), repeated) /\ Owned(Tail(Inbound), pendingPubs, repeated)
      /\ \A n : Answered(Inbound, n) =>
                   Answered(Tail(Inbound), n) \/ (Head(Inbound).type = "Puback" /\ Head(Inbound).n = n)
  BY AcksTail, InboundType DEF AckFlight
<1>4. Awaited(Tail(Inbound), pendingPubs, repeated, Received, toBroker', link)
  <2>1. CASE pendingPubs = <<>>
    <3>1. \A k : k \notin 1 .. Len(pendingPubs) BY <2>1
    <3> QED BY <3>1 DEF Awaited
  <2>2. CASE Head(Inbound).type # "Puback" BY <1>2, <1>3, <2>2 DEF AckFlight, Awaited
  <2> QED BY <2>1, <2>2
<1>5. Carried(toBroker', pendingPubs, repeated)
  BY <1>2 DEF AckFlight, Carried, IsPublish
<1> QED BY <1>1, <1>3, <1>4, <1>5 DEF AckFlight

\* A publish that is sent is younger than whatever has been received, and travels.
LEMMA SendItemAcks ==
    ASSUME TypeOK, Wire, RanksGrow, Flight, AckFlight, SendItem, UNCHANGED got
    PROVE  AckFlight'
<1> DEFINE item == Head(batch)
           pkt == ItemPkt(item, FALSE)
           entry == [item |-> item, resent |-> FALSE]
<1>1. /\ batch # <<>> /\ UNCHANGED <<repeated, link, rxBuf, toClient>>
      /\ toBroker' = IF link = "up" THEN Append(toBroker, pkt) ELSE toBroker
      /\ pendingPubs' = IF item.type = "Publish1" THEN Append(pendingPubs, entry) ELSE pendingPubs
  BY DEF SendItem, Sends
<1>2. item.n \in Nat /\ \A n \in SentSet : n \in Nat /\ n < item.n
  BY <1>1, NextIsYounger
<1>3. /\ pkt.type = item.type /\ pkt.dup = FALSE /\ pkt.n = item.n
      /\ entry.item = item
  BY DEF ItemPkt
<1>4. /\ toBroker \in Seq(ToBroker \cup {pkt}) /\ pkt \in ToBroker \cup {pkt}
      /\ pendingPubs \in Seq(Pending \cup {entry}) /\ entry \in Pending \cup {entry}
  BY LargerSet DEF Wire
<1>5. Inbound' = Inbound /\ Received' = Received BY <1>1 DEF Inbound, Received
<1> HIDE DEF item, pkt, entry
<1>6. /\ Len(pendingPubs) \in Nat
      /\ \A k \in 1 .. Len(pendingPubs) : k \in 1 .. Len(pendingPubs') /\ pendingPubs'[k] = pendingPubs[k]
      /\ \A k \in 1 .. Len(pendingPubs') :
            k \in 1 .. Len(pendingPubs) \/ (item.type = "Publish1" /\ pendingPubs'[k] = entry)
      /\ item.type = "Publish1" =>
            \E k \in 1 .. Len(pendingPubs') : pendingPubs'[k] = entry
  <2>1. CASE item.type = "Publish1"
    <3>1. /\ Len(pendingPubs) \in Nat /\ Len(pendingPubs') = Len(pendingPubs) + 1
          /\ pendingPubs'[Len(pendingPubs) + 1] = entry
          /\ \A k \in 1 .. Len(pendingPubs) : pendingPubs'[k] = pendingPubs[k]
      BY <1>1, <1>4, <2>1, LenProperties, AppendProperties
    <3>2. /\ Len(pendingPubs) + 1 \in 1 .. Len(pendingPubs')
          /\ \A k \in 1 .. Len(pendingPubs) : k \in 1 .. Len(pendingPubs')
          /\ \A k \in 1 .. Len(pendingPubs') : k \in 1 .. Len(pendingPubs) \/ k = Len(pendingPubs) + 1
      BY <3>1
    <3> QED BY <2>1, <3>1, <3>2
  <2>2. CASE item.type # "Publish1" BY <1>1, <1>4, <2>2, LenProperties
  <2> QED BY <2>1, <2>2
<1>7. Owned(Inbound, pendingPubs', repeated)
  BY <1>6 DEF AckFlight, Owned
<1>8. /\ \A n : Travels(toBroker, n) => Travels(toBroker', n)
      /\ link = "up" /\ item.type = "Publish1" => Travels(toBroker', item.n)
      /\ \A i \in 1 .. Len(toBroker') : toBroker'[i] = pkt \/ \E j \in 1 .. Len(toBroker) : toBroker'[i] = toBroker[j]
  <2>1. CASE link = "up"
    <3>1. toBroker' = Append(toBroker, pkt) BY <1>1, <2>1
    <3>2. /\ Len(toBroker) \in Nat /\ Len(toBroker') = Len(toBroker) + 1
          /\ toBroker'[Len(toBroker) + 1] = pkt
          /\ \A i \in 1 .. Len(toBroker) : toBroker'[i] = toBroker[i]
      BY <1>4, <3>1, LenProperties, AppendProperties
    <3>3. \A i \in 1 .. Len(toBroker') : i \in 1 .. Len(toBroker) \/ i = Len(toBroker) + 1
      BY <3>2
    <3>4. item.type = "Publish1" => IsPublish(pkt) BY <1>3 DEF IsPublish
    <3>5. /\ \A n : Travels(toBroker, n) => Travels(Append(toBroker, pkt), n)
          /\ IsPublish(pkt) /\ ~pkt.dup => Travels(Append(toBroker, pkt), pkt.n)
      BY <1>4, TravelsAppend
    <3> QED BY <1>3, <3>1, <3>2, <3>3, <3>4, <3>5
  <2>2. CASE link # "up" BY <1>1, <2>2
  <2> QED BY <2>1, <2>2
<1>9. Awaited(Inbound, pendingPubs', repeated, Received, toBroker', link)
  <2> SUFFICES ASSUME NEW k \in 1 .. Len(pendingPubs'), pendingPubs'[k].item.n \notin repeated
               PROVE  \/ pendingPubs'[k].item.n \in Received /\ Answered(Inbound, pendingPubs'[k].item.n)
                      \/ /\ \A x \in Received : x < pendingPubs'[k].item.n
                         /\ link = "up" => Travels(toBroker', pendingPubs'[k].item.n)
    BY DEF Awaited
  <2>1. CASE k \in 1 .. Len(pendingPubs)
    <3>1. pendingPubs'[k] = pendingPubs[k] BY <1>6, <2>1
    <3> QED BY <1>8, <2>1, <3>1 DEF AckFlight, Awaited
  <2>2. CASE item.type = "Publish1" /\ pendingPubs'[k] = entry
    <3>1. \A x \in Received : x < item.n BY <1>2 DEF Flight
    <3> QED BY <1>3, <1>8, <2>2, <3>1
  <2> QED BY <1>6, <2>1, <2>2
<1>10. Carried(toBroker', pendingPubs', repeated)
  <2> SUFFICES ASSUME NEW i \in 1 .. Len(toBroker'), toBroker'[i].type = "Publish1",
                      ~toBroker'[i].dup, toBroker'[i].n \notin repeated
               PROVE  \E k \in 1 .. Len(pendingPubs') : pendingPubs'[k].item.n = toBroker'[i].n
    BY DEF Carried
  <2>1. CASE toBroker'[i] = pkt BY <1>3, <1>6, <2>1
  <2>2. CASE \E j \in 1 .. Len(toBroker) : toBroker'[i] = toBroker[j]
    <3>1. \E k \in 1 .. Len(pendingPubs) : pendingPubs[k].item.n = toBroker'[i].n
      BY <2>2 DEF AckFlight, Carried
    <3> QED BY <1>6, <3>1
  <2> QED BY <1>8, <2>1, <2>2
<1> QED BY <1>1, <1>5, <1>7, <1>9, <1>10 DEF AckFlight

\* A publish that is sent again is no longer one of those sent once.
LEMMA ResendAcks ==
    ASSUME TypeOK, Wire, AckFlight, ResendDup, UNCHANGED got
    PROVE  AckFlight'
<1>1. UNCHANGED <<link, rxBuf, toClient>> BY DEF ResendDup
<1>2. Inbound' = Inbound /\ Received' = Received BY <1>1 DEF Inbound, Received
<1>3. CASE UNCHANGED <<pendingPubs, toBroker, repeated>> BY <1>1, <1>2, <1>3 DEF AckFlight
<1>4. CASE ~UNCHANGED <<pendingPubs, toBroker, repeated>>
  <2> DEFINE n0 == pendingPubs[cursor].item.n
             pkt == ItemPkt(pendingPubs[cursor].item, TRUE)
  <2>1. /\ Len(pendingPubs') = Len(pendingPubs)
        /\ pkt.dup = TRUE
        /\ toBroker' \in {toBroker, Append(toBroker, pkt)}
        /\ repeated' = repeated \cup {n0}
        /\ \A k \in 1 .. Len(pendingPubs) : pendingPubs'[k].item = pendingPubs[k].item
    BY <1>4, ResendIs
  <2>2. toBroker \in Seq(ToBroker \cup {pkt}) /\ pkt \in ToBroker \cup {pkt}
    BY LargerSet DEF Wire
  <2> HIDE DEF n0, pkt
  <2>3. \A n : n \notin repeated' => n \notin repeated BY <2>1
  <2>4. /\ \A n : Travels(toBroker, n) => Travels(toBroker', n)
        /\ \A i \in 1 .. Len(toBroker') : toBroker'[i] = pkt \/ \E j \in 1 .. Len(toBroker) : toBroker'[i] = toBroker[j]
    <3>1. CASE toBroker' = Append(toBroker, pkt)
      <4>1. /\ Len(toBroker) \in Nat /\ Len(toBroker') = Len(toBroker) + 1
            /\ toBroker'[Len(toBroker) + 1] = pkt
            /\ \A i \in 1 .. Len(toBroker) : toBroker'[i] = toBroker[i]
        BY <2>2, <3>1, LenProperties, AppendProperties
      <4>2. \A i \in 1 .. Len(toBroker') : i \in 1 .. Len(toBroker) \/ i = Len(toBroker) + 1
        BY <4>1
      <4>3. \A n : Travels(toBroker, n) => Travels(toBroker', n) BY <2>2, <3>1, TravelsAppend
      <4> QED BY <4>1, <4>2, <4>3
    <3> QED BY <2>1, <3>1
  <2>5. Rising(Inbound, repeated') BY <2>3 DEF AckFlight, Rising, Single
  <2>6. Owned(Inbound, pendingPubs', repeated') BY <2>1, <2>3 DEF AckFlight, Owned, Single
  <2>7. Awaited(Inbound, pendingPubs', repeated', Received, toBroker', link)
    BY <2>1, <2>3, <2>4 DEF AckFlight, Awaited
  <2>8. Carried(toBroker', pendingPubs', repeated')
    <3> SUFFICES ASSUME NEW i \in 1 .. Len(toBroker'), toBroker'[i].type = "Publish1",
                        ~toBroker'[i].dup, toBroker'[i].n \notin repeated'
                 PROVE  \E k \in 1 .. Len(pendingPubs') : pendingPubs'[k].item.n = toBroker'[i].n
      BY DEF Carried
    <3>1. \E j \in 1 .. Len(toBroker) : toBroker'[i] = toBroker[j] BY <2>1, <2>4
    <3>2. \E k \in 1 .. Len(pendingPubs) : pendingPubs[k].item.n = toBroker'[i].n
      BY <2>3, <3>1 DEF AckFlight, Carried
    <3> QED BY <2>1, <3>2
  <2> QED BY <1>1, <1>2, <2>5, <2>6, <2>7, <2>8 DEF AckFlight
<1> QED BY <1>3, <1>4

\* Only such a publish is given up.
LEMMA GiveUpAcks ==
    ASSUME TypeOK, Wire, Marks, AckFlight, GiveUp, UNCHANGED got
    PROVE  AckFlight'
<1>1. /\ UNCHANGED <<repeated, link, rxBuf, toClient, toBroker>>
      /\ pendingPubs' = RemovePending(cursor)
      /\ cursor \in 1 .. Len(pendingPubs) /\ pendingPubs[cursor].resent
  BY DEF GiveUp, linkVars, TypeOK
<1>2. Inbound' = Inbound /\ Received' = Received BY <1>1 DEF Inbound, Received
<1>3. pendingPubs[cursor].item.n \in repeated BY <1>1 DEF Marks
<1>4. /\ \A i \in 1 .. Len(pendingPubs') :
            \E j \in 1 .. Len(pendingPubs) : pendingPubs'[i] = pendingPubs[j]
      /\ \A j \in 1 .. Len(pendingPubs) :
            j # cursor => \E i \in 1 .. Len(pendingPubs') : pendingPubs'[i] = pendingPubs[j]
  <2> DEFINE rest == RemovePending(cursor)
  <2>1. /\ \A i \in 1 .. Len(rest) :
              \E j \in 1 .. Len(pendingPubs) :
                 j # cursor /\ rest[i] = pendingPubs[j] /\ j = (IF i < cursor THEN i ELSE i + 1)
        /\ \A j \in 1 .. Len(pendingPubs) :
              j # cursor => \E i \in 1 .. Len(rest) : rest[i] = pendingPubs[j]
    BY <1>1, EntriesLeft
  <2>2. pendingPubs' = rest BY <1>1
  <2> HIDE DEF rest
  <2> QED BY <2>1, <2>2, Zenon
<1>5. ASSUME NEW n, n \notin repeated, \E k \in 1 .. Len(pendingPubs) : pendingPubs[k].item.n = n
      PROVE  \E k \in 1 .. Len(pendingPubs') : pendingPubs'[k].item.n = n
  BY <1>3, <1>4, <1>5
<1>6. Owned(Inbound, pendingPubs', repeated) BY <1>5 DEF AckFlight, Owned, Single
<1>7. Awaited(Inbound, pendingPubs', repeated, Received, toBroker, link)
  BY <1>4 DEF AckFlight, Awaited
<1>8. Carried(toBroker, pendingPubs', repeated) BY <1>5 DEF AckFlight, Carried
<1> QED BY <1>1, <1>2, <1>6, <1>7, <1>8 DEF AckFlight

\* An acknowledgement is the first thing that has come in, and answers a publish
\* that has been received.
LEMMA PubackIs ==
    ASSUME TypeOK, Wire, HandlePuback
    PROVE  /\ Inbound # <<>> /\ Inbound' = Tail(Inbound)
           /\ Inbound[1] = Head(rxBuf) /\ Head(Inbound) = Head(rxBuf) /\ 1 \in 1 .. Len(Inbound)
           /\ Head(rxBuf).type = "Puback"
           /\ \E theirs \in Publishes : /\ theirs.n \in Received
                                        /\ Head(rxBuf).id = theirs.id /\ Head(rxBuf).n = theirs.n
<1>1. /\ rxBuf # <<>> /\ rxBuf \in Seq(ToClient) /\ toClient \in Seq(ToClient)
      /\ rxBuf' = Tail(rxBuf) /\ UNCHANGED toClient /\ Head(rxBuf).type = "Puback"
  BY DEF HandlePuback, HandlingPacket, Wire, linkVars
<1>2. /\ Inbound # <<>> /\ Head(Inbound) = Head(rxBuf) /\ Inbound' = Tail(Inbound)
      /\ Inbound \in Seq(ToClient)
  BY <1>1, InboundHandled DEF Inbound
<1>3. Inbound[1] = Head(rxBuf) /\ 1 \in 1 .. Len(Inbound)
  <2>1. Len(Inbound) \in Nat \ {0} /\ Inbound[1] = Head(Inbound) BY <1>2, EmptySeq
  <2> QED BY <1>2, <2>1
<1> DEFINE pkt == Head(rxBuf)
<1>4. pkt \in ToClient /\ pkt.type = "Puback" BY <1>1
<1> HIDE DEF pkt
<1>5. pkt \in Acks
  <2>1. pkt \notin {ConnackPkt(FALSE), OtherPkt, BadPkt}
            \cup {PublishPkt(qos) : qos \in {0, 1}} \cup {ConnackPkt(TRUE)}
    BY <1>4 DEF ConnackPkt, OtherPkt, BadPkt, PublishPkt
  <2> QED BY <1>4, <2>1 DEF ToClient, Harmless
<1>6. PICK item \in Publishes : item.n \in Received /\ pkt = PubackPkt(item.id, item.n)
  BY <1>5 DEF Acks
<1>7. pkt.id = item.id /\ pkt.n = item.n BY <1>6 DEF PubackPkt
<1> QED BY <1>1, <1>2, <1>3, <1>6, <1>7 DEF pkt

\* Publishes that have the same identifier and are not the same have both been sent
\* only once.
LEMMA UnsharedIds ==
    ASSUME TypeOK, RepeatsUnshared, NEW x \in Publishes, NEW y \in Publishes,
           x.id = y.id, x # y
    PROVE  x.n \notin repeated /\ y.n \notin repeated
<1>1. PICK a \in DOMAIN sent : x = sent[a] /\ sent[a].type = "Publish1"
  BY DEF Publishes, Out
<1>2. PICK b \in DOMAIN sent : y = sent[b] /\ sent[b].type = "Publish1"
  BY DEF Publishes, Out
<1> QED BY <1>1, <1>2 DEF RepeatsUnshared

\* The entry that handlePuback takes is the one that the acknowledgement is for.
LEMMA MatchIsAnswered ==
    ASSUME TypeOK, Wire, RanksGrow, Marks, AckFlight, RepeatsUnshared, HandlePuback,
           NEW i \in 1 .. Len(pendingPubs), Matches(i, Head(rxBuf).id)
    PROVE  pendingPubs[i].item.n = Head(rxBuf).n
<1> DEFINE pkt == Head(rxBuf)
           mine == pendingPubs[i].item
<1>1. PICK theirs \in Publishes :
         theirs.n \in Received /\ pkt.id = theirs.id /\ pkt.n = theirs.n
  BY PubackIs
<1>2. Inbound[1] = pkt /\ 1 \in 1 .. Len(Inbound) /\ pkt.type = "Puback" BY PubackIs
<1>3. \A k \in 1 .. Len(pendingPubs) :
         pendingPubs[k].item \in Publishes /\ pendingPubs[k].item \in Out /\ pendingPubs[k].item.n \in Nat
  <2>1. Out \subseteq TxItem BY ItemsWire
  <2>2. \A k \in 1 .. Len(pendingPubs) : pendingPubs[k] \in Pending BY ElementOfSeq DEF Wire
  <2>3. \A x \in TxItem : x.n \in Nat BY DEF TxItem
  <2>4. \A p \in Pending : p.item \in Publishes BY DEF Pending
  <2>5. Publishes \subseteq Out BY DEF Publishes
  <2> QED BY <2>1, <2>2, <2>3, <2>4, <2>5
<1>4. mine.id = pkt.id /\ \A k \in 1 .. i - 1 : pendingPubs[k].item.id # pkt.id
  BY DEF Matches
<1> HIDE DEF pkt, mine
<1>5. CASE mine = theirs BY <1>1, <1>5 DEF mine, pkt
<1>6. CASE mine # theirs
  <2>1. mine.n \notin repeated /\ theirs.n \notin repeated
    BY <1>1, <1>3, <1>4, <1>6, UnsharedIds DEF mine
  <2>2. PICK k \in 1 .. Len(pendingPubs) : pendingPubs[k].item.n = theirs.n
    BY <1>1, <1>2, <2>1 DEF AckFlight, Owned, Single
  <2>3. pendingPubs[k].item = theirs
    BY <1>3, <2>2, RankIsUnique DEF Publishes
  <2>4. i < k
    <3>1. k \notin 1 .. i - 1 BY <1>1, <1>4, <2>3
    <3>2. k # i BY <1>6, <2>3 DEF mine
    <3> QED BY <3>1, <3>2
  <2>5. mine.n < theirs.n /\ mine.n \in Nat /\ theirs.n \in Nat
    BY <1>3, <2>2, <2>4 DEF Marks, mine
  <2>6. ~ \A x \in Received : x < mine.n
    <3>1. ~(theirs.n < mine.n) BY <2>5
    <3> QED BY <1>1, <3>1
  <2>7. Answered(Inbound, mine.n)
    BY <2>1, <2>6 DEF AckFlight, Awaited, mine
  <2>8. PICK j \in 1 .. Len(Inbound) : Inbound[j].type = "Puback" /\ Inbound[j].n = mine.n
    BY <2>7 DEF Answered
  <2>9. j # 1 BY <1>1, <1>2, <2>5, <2>8
  <2>10. 1 < j BY <2>8, <2>9
  <2>11. Single(Inbound[1], repeated) /\ Single(Inbound[j], repeated)
    BY <1>1, <1>2, <2>1, <2>8 DEF Single
  <2>12. theirs.n < mine.n
    BY <1>1, <1>2, <2>8, <2>10, <2>11 DEF AckFlight, Rising
  <2> QED BY <2>5, <2>12
<1> QED BY <1>5, <1>6

\* So a publish counted has been received, and the others wait as they did.
LEMMA PubackAcks ==
    ASSUME TypeOK, Wire, RanksGrow, Flight, Marks, AckFlight, RepeatsUnshared, HandlePuback,
           UNCHANGED got
    PROVE  AckFlight' /\ acked' \subseteq acked \cup Received
<1> DEFINE pkt == Head(rxBuf)
           rest == Tail(Inbound)
<1>1. PICK theirs \in Publishes :
         theirs.n \in Received /\ pkt.id = theirs.id /\ pkt.n = theirs.n
  BY PubackIs
<1>2. /\ Inbound[1] = pkt /\ Head(Inbound) = pkt /\ 1 \in 1 .. Len(Inbound)
      /\ pkt.type = "Puback" /\ Inbound # <<>> /\ Inbound' = rest
  BY PubackIs
<1>3. UNCHANGED <<repeated, link, toBroker>> BY DEF HandlePuback, linkVars
<1>4. Received' = Received BY DEF Received
<1>5. DOMAIN pendingPubs = 1 .. Len(pendingPubs) /\ Len(pendingPubs) \in Nat
  BY LenProperties DEF Wire
<1>6. /\ Rising(rest, repeated) /\ Owned(rest, pendingPubs, repeated)
      /\ \A n : Answered(Inbound, n) => Answered(rest, n) \/ pkt.n = n
      /\ \A j \in 1 .. Len(rest) : rest[j] = Inbound[j + 1] /\ j + 1 \in 1 .. Len(Inbound)
  BY <1>2, AcksTail, InboundType DEF AckFlight
<1> HIDE DEF pkt, rest
<1>7. CASE \E i \in DOMAIN pendingPubs :
              /\ Matches(i, pkt.id)
              /\ pendingPubs' = RemovePending(i)
              /\ acked' = acked \cup {pendingPubs[i].item.n}
  <2>1. PICK i \in 1 .. Len(pendingPubs) :
           /\ Matches(i, pkt.id)
           /\ pendingPubs' = RemovePending(i)
           /\ acked' = acked \cup {pendingPubs[i].item.n}
    BY <1>5, <1>7
  <2>2. pendingPubs[i].item.n = pkt.n BY <2>1, MatchIsAnswered DEF pkt
  <2>3. \A k \in 1 .. Len(pendingPubs) : k # i => pendingPubs[k].item.n # pkt.n
    BY <2>2 DEF Flight, Pendings
  <2>4. /\ \A k \in 1 .. Len(pendingPubs') :
              \E j \in 1 .. Len(pendingPubs) : j # i /\ pendingPubs'[k] = pendingPubs[j]
        /\ \A j \in 1 .. Len(pendingPubs) :
              j # i => \E k \in 1 .. Len(pendingPubs') : pendingPubs'[k] = pendingPubs[j]
    <3> DEFINE less == RemovePending(i)
    <3>1. /\ \A k \in 1 .. Len(less) :
                \E j \in 1 .. Len(pendingPubs) :
                   j # i /\ less[k] = pendingPubs[j] /\ j = (IF k < i THEN k ELSE k + 1)
          /\ \A j \in 1 .. Len(pendingPubs) :
                j # i => \E k \in 1 .. Len(less) : less[k] = pendingPubs[j]
      BY EntriesLeft
    <3>2. pendingPubs' = less BY <2>1
    <3> HIDE DEF less
    <3> QED BY <3>1, <3>2, Zenon
  <2>5. ASSUME NEW n, n # pkt.n, \E k \in 1 .. Len(pendingPubs) : pendingPubs[k].item.n = n
        PROVE  \E k \in 1 .. Len(pendingPubs') : pendingPubs'[k].item.n = n
    <3>1. PICK k \in 1 .. Len(pendingPubs) : pendingPubs[k].item.n = n BY <2>5
    <3>2. k # i BY <2>2, <2>5, <3>1
    <3> QED BY <2>4, <3>1, <3>2
  <2>6. \A x \in Received : x \in Nat
    <3>1. Received \subseteq SentSet BY DEF Flight
    <3>2. Out \subseteq TxItem BY ItemsWire
    <3>3. \A x \in TxItem : x.n \in Nat BY DEF TxItem
    <3> QED BY <3>1, <3>2, <3>3 DEF SentSet
  <2>7. pkt.n \in Received /\ pkt.n \in Nat BY <1>1, <2>6
  <2>8. Owned(rest, pendingPubs', repeated)
    <3> SUFFICES ASSUME NEW j \in 1 .. Len(rest), Single(rest[j], repeated)
                 PROVE  \E k \in 1 .. Len(pendingPubs') : pendingPubs'[k].item.n = rest[j].n
      BY DEF Owned
    <3>1. rest[j].n # pkt.n
      <4>1. CASE pkt.n \in repeated BY <4>1 DEF Single
      <4>2. CASE pkt.n \notin repeated
        <5>1. Single(Inbound[1], repeated) /\ Single(Inbound[j + 1], repeated) /\ 1 < j + 1
          BY <1>2, <1>6, <4>2 DEF Single
        <5>2. pkt.n < rest[j].n BY <1>2, <1>6, <5>1 DEF AckFlight, Rising
        <5> QED BY <2>7, <5>2
      <4> QED BY <4>1, <4>2
    <3>2. \E k \in 1 .. Len(pendingPubs) : pendingPubs[k].item.n = rest[j].n
      BY <1>6 DEF Owned
    <3> QED BY <2>5, <3>1, <3>2
  <2>9. Awaited(rest, pendingPubs', repeated, Received, toBroker, link)
    <3> SUFFICES ASSUME NEW k \in 1 .. Len(pendingPubs'), pendingPubs'[k].item.n \notin repeated
                 PROVE  \/ pendingPubs'[k].item.n \in Received /\ Answered(rest, pendingPubs'[k].item.n)
                        \/ /\ \A x \in Received : x < pendingPubs'[k].item.n
                           /\ link = "up" => Travels(toBroker, pendingPubs'[k].item.n)
      BY DEF Awaited
    <3>1. PICK j \in 1 .. Len(pendingPubs) : j # i /\ pendingPubs'[k] = pendingPubs[j] BY <2>4
    <3>2. pendingPubs[j].item.n # pkt.n BY <2>3, <3>1
    <3> QED BY <1>6, <3>1, <3>2 DEF AckFlight, Awaited
  <2>10. Carried(toBroker, pendingPubs', repeated)
    <3> SUFFICES ASSUME NEW j \in 1 .. Len(toBroker), toBroker[j].type = "Publish1",
                        ~toBroker[j].dup, toBroker[j].n \notin repeated
                 PROVE  \E k \in 1 .. Len(pendingPubs') : pendingPubs'[k].item.n = toBroker[j].n
      BY DEF Carried
    <3>1. PICK a \in 1 .. Len(got) : got[a].n = pkt.n
      <4>1. DOMAIN got = 1 .. Len(got) BY LenProperties DEF Wire
      <4> QED BY <2>7, <4>1 DEF Received
    <3>2. got[a].n < toBroker[j].n BY <3>1 DEF Flight, InOrder, Before, IsPublish
    <3>3. toBroker[j].n # pkt.n BY <2>7, <3>1, <3>2
    <3>4. \E k \in 1 .. Len(pendingPubs) : pendingPubs[k].item.n = toBroker[j].n
      BY DEF AckFlight, Carried
    <3> QED BY <2>5, <3>3, <3>4
  <2>11. acked' \subseteq acked \cup Received BY <2>1, <2>2, <2>7
  <2> QED BY <1>2, <1>3, <1>4, <1>6, <2>8, <2>9, <2>10, <2>11 DEF AckFlight
<1>8. CASE /\ \A i \in DOMAIN pendingPubs : ~Matches(i, pkt.id)
           /\ UNCHANGED <<pendingPubs, acked>>
  <2>1. \A k \in 1 .. Len(pendingPubs) : pendingPubs[k].item.id # pkt.id
    <3> SUFFICES ASSUME NEW k \in 1 .. Len(pendingPubs), pendingPubs[k].item.id = pkt.id
                 PROVE  FALSE
      OBVIOUS
    <3> DEFINE T == {j \in 1 .. Len(pendingPubs) : pendingPubs[j].item.id = pkt.id}
    <3>1. T \in SUBSET Nat /\ T # {} OBVIOUS
    <3> HIDE DEF T
    <3>2. PICK i \in T : \A j \in T : i <= j BY <3>1, LeastNat
    <3>3. i \in 1 .. Len(pendingPubs) /\ pendingPubs[i].item.id = pkt.id BY <3>2 DEF T
    <3>4. ASSUME NEW j \in 1 .. i - 1 PROVE pendingPubs[j].item.id # pkt.id
      <4>1. j \in 1 .. Len(pendingPubs) /\ ~(i <= j) BY <1>5, <3>3
      <4> QED BY <3>2, <4>1 DEF T
    <3>5. Matches(i, pkt.id) BY <3>3, <3>4 DEF Matches
    <3> QED BY <1>5, <1>8, <3>3, <3>5
  <2>2. \A k \in 1 .. Len(pendingPubs) : pendingPubs[k].item.n # pkt.n
    <3> SUFFICES ASSUME NEW k \in 1 .. Len(pendingPubs), pendingPubs[k].item.n = pkt.n
                 PROVE  FALSE
      OBVIOUS
    <3>1. pendingPubs[k] \in Pending BY ElementOfSeq DEF Wire
    <3>2. pendingPubs[k].item \in Out /\ theirs \in Out BY <3>1 DEF Pending, Publishes
    <3>3. pendingPubs[k].item = theirs BY <1>1, <3>2, RankIsUnique
    <3> QED BY <1>1, <2>1, <3>3
  <2>3. Awaited(rest, pendingPubs, repeated, Received, toBroker, link)
    BY <1>6, <2>2 DEF AckFlight, Awaited
  <2> QED BY <1>2, <1>3, <1>4, <1>6, <1>8, <2>3 DEF AckFlight
<1> QED BY <1>7, <1>8 DEF HandlePuback, pkt

\* Every step of the client keeps all this.
LEMMA ClientAcks ==
    ASSUME TypeOK, Wire, Handshake, RanksGrow, Flight, AckInv, RepeatsUnshared, ClientSide
    PROVE  AckFlight' /\ acked' \subseteq Received'
<1>1. UNCHANGED got /\ Received' = Received BY DEF ClientSide, Received
<1>2. AckFlight /\ Marks /\ Blank /\ acked \subseteq Received BY DEF AckInv
<1>3. CASE HandlePuback BY <1>1, <1>2, <1>3, PubackAcks
<1>4. CASE ~HandlePuback
  <2>1. UNCHANGED acked BY <1>4, HistoryKept DEF ClientSide
  <2>2. ASSUME AckFlight' PROVE AckFlight' /\ acked' \subseteq Received'
    BY <1>1, <1>2, <2>1, <2>2
  <2>3. CASE ResendDup BY <1>1, <1>2, <2>2, <2>3, ResendAcks
  <2>4. CASE SendItem BY <1>1, <1>2, <2>2, <2>4, SendItemAcks
  <2>5. CASE GiveUp BY <1>1, <1>2, <2>2, <2>5, GiveUpAcks
  <2>6. CASE OnDisconnect \/ Cleanup
    <3>1. /\ toBroker' = <<>> /\ pendingPubs' = <<>> /\ rxBuf' = <<>> /\ toClient' = <<>>
      BY <2>6 DEF OnDisconnect, Cleanup, CloseSocket
    <3>2. Len(toBroker') = 0 /\ Len(pendingPubs') = 0 /\ Len(Inbound') = 0
      BY <3>1 DEF Inbound
    <3>3. \A i : i \notin 1 .. 0 OBVIOUS
    <3>4. AckFlight' BY <3>2, <3>3 DEF AckFlight, Rising, Owned, Awaited, Carried
    <3> QED BY <2>2, <3>4
  <2>7. CASE ~(ResendDup \/ SendItem \/ GiveUp \/ OnDisconnect \/ Cleanup)
    <3>1. UNCHANGED repeated BY <2>7, HistoryKept DEF ClientSide
    <3>2. CASE (\E u \in Users : UserStep(u)) \/ LifeStep
      <4>1. UNCHANGED <<toBroker, toClient, rxBuf, pendingPubs, link>> BY <3>2, CallsWire
      <4>2. Inbound' = Inbound BY <4>1 DEF Inbound
      <4> QED BY <1>1, <1>2, <2>2, <3>1, <4>1, <4>2, AcksKept
    <3>3. CASE QuietStep
      <4>1. UNCHANGED <<toBroker, toClient, rxBuf, pendingPubs>> BY <3>3, QuietWire
      <4>2. Inbound' = Inbound BY <4>1 DEF Inbound
      <4>3. UNCHANGED link \/ pendingPubs = <<>>
        <5>1. CASE ConnectSucceeds
          <6>1. link = "none" BY <5>1 DEF ConnectSucceeds, Handshake, Detached
          <6> QED BY <1>2, <6>1 DEF Blank
        <5>2. CASE ~ConnectSucceeds
          BY <3>3, <5>2
          DEF QuietStep, LoopTop, BackoffWait, ConnectAbandoned, ConnectFails, Announce,
              TakeBatch, SkipItem, Requeue, BatchSent, NotExpired, TimersDone, HandledAll,
              LossReported, EndReported, ClosePipe, linkVars
        <5> QED BY <5>1, <5>2
      <4> QED BY <1>1, <1>2, <2>2, <3>1, <4>1, <4>2, <4>3, AcksKept
    <3>4. CASE SendConnect \/ ResubscribeAll
      <4>1. UNCHANGED <<toClient, rxBuf, pendingPubs, link>>
        BY <3>4 DEF SendConnect, ResubscribeAll, pubVars
      <4>2. Inbound' = Inbound BY <4>1 DEF Inbound
      <4> QED BY <1>1, <1>2, <2>2, <3>1, <3>4, <4>1, <4>2, OtherSends, AcksKept
    <3>5. CASE AwaitConnack
      <4>1. UNCHANGED <<toBroker, pendingPubs, link>> /\ npc = "connack"
        BY <3>5 DEF AwaitConnack, pubVars
      <4>2. pendingPubs = <<>> BY <1>2, <4>1 DEF Blank
      <4>3. \/ UNCHANGED <<rxBuf, toClient>>
            \/ \E k \in 1 .. Len(toClient) :
                  Receive(k) /\ rxBuf' = Tail(rxBuf \o SubSeq(toClient, 1, k))
        BY <3>5 DEF AwaitConnack
      <4>4. CASE UNCHANGED <<rxBuf, toClient>>
        <5>1. Inbound' = Inbound BY <4>4 DEF Inbound
        <5> QED BY <1>1, <1>2, <2>2, <3>1, <4>1, <5>1, AcksKept
      <4>5. CASE \E k \in 1 .. Len(toClient) :
                    Receive(k) /\ rxBuf' = Tail(rxBuf \o SubSeq(toClient, 1, k))
        <5>1. PICK k \in 1 .. Len(toClient) :
                 Receive(k) /\ rxBuf' = Tail(rxBuf \o SubSeq(toClient, 1, k))
          BY <4>5
        <5> DEFINE buf == rxBuf \o SubSeq(toClient, 1, k)
        <5>2. toClient' \in Seq(ToClient) /\ buf \in Seq(ToClient) /\ buf # <<>>
          BY <5>1, ReceivesWire DEF Wire
        <5>3. buf \o toClient' = Inbound BY <5>1, InboundReceived
        <5>4. rxBuf' = Tail(buf) BY <5>1
        <5> HIDE DEF buf
        <5>5. Inbound # <<>> /\ Inbound' = Tail(Inbound)
          <6>1. /\ buf \o toClient' # <<>>
                /\ Tail(buf) \o toClient' = Tail(buf \o toClient')
            BY <5>2, InboundHandled
          <6>2. Inbound' = Tail(buf) \o toClient' BY <5>4 DEF Inbound
          <6> QED BY <5>3, <6>1, <6>2
        <5> QED BY <1>1, <1>2, <2>2, <3>1, <4>1, <4>2, <5>5, OtherHandled
      <4> QED BY <4>3, <4>4, <4>5
    <3>6. CASE Poll
      <4>1. UNCHANGED <<toBroker, pendingPubs, link>> BY <3>6 DEF Poll, pubVars
      <4>2. \/ UNCHANGED <<rxBuf, toClient>>
            \/ \E k \in 1 .. Len(toClient) :
                  Receive(k) /\ rxBuf' = rxBuf \o SubSeq(toClient, 1, k)
        BY <3>6 DEF Poll
      <4>3. Inbound' = Inbound BY <4>2, InboundReceived DEF Inbound
      <4> QED BY <1>1, <1>2, <2>2, <3>1, <4>1, <4>3, AcksKept
    <3>7. CASE HandlePublish \/ HandleOther
      <4>1. /\ UNCHANGED <<toClient, pendingPubs, link>>
            /\ rxBuf # <<>> /\ rxBuf' = Tail(rxBuf)
            /\ Head(rxBuf).type # "Puback"
            /\ HandlePublish \/ UNCHANGED toBroker
        BY <3>7 DEF HandlePublish, HandleOther, HandlingPacket, pubVars, linkVars
      <4>2. \/ UNCHANGED toBroker
            \/ \E pkt : ~IsPublish(pkt) /\ toBroker' = Append(toBroker, pkt)
        BY <4>1, OtherSends
      <4>3. Inbound # <<>> /\ Inbound' = Tail(Inbound) /\ Head(Inbound).type # "Puback"
        <5>1. rxBuf \in Seq(ToClient) /\ toClient \in Seq(ToClient) BY DEF Wire
        <5> QED BY <4>1, <5>1, InboundHandled DEF Inbound
      <4> QED BY <1>1, <1>2, <2>2, <3>1, <4>1, <4>2, <4>3, OtherHandled
    <3> QED
      BY <1>4, <2>7, <3>2, <3>3, <3>4, <3>5, <3>6, <3>7
      DEF ClientSide, ClientStep, NetworkStep, QuietStep
  <2> QED BY <2>3, <2>4, <2>5, <2>6, <2>7
<1> QED BY <1>3, <1>4

\* A packet that the broker sends comes last.
LEMMA InboundAppended ==
    ASSUME Wire, NEW p, toClient' = Append(toClient, p), UNCHANGED rxBuf
    PROVE  Inbound' = Append(Inbound, p)
<1>1. /\ rxBuf \in Seq(ToClient \cup {p}) /\ toClient \in Seq(ToClient \cup {p})
      /\ p \in ToClient \cup {p}
  BY LargerSet DEF Wire
<1>2. toClient' = toClient \o <<p>> BY <1>1, AppendIsConcat
<1>3. <<p>> \in Seq(ToClient \cup {p}) BY <1>1
<1>4. Inbound \in Seq(ToClient \cup {p}) BY <1>1, ConcatProperties DEF Inbound
<1>5. Append(Inbound, p) = Inbound \o <<p>> BY <1>1, <1>4, AppendIsConcat
<1>6. (rxBuf \o toClient) \o <<p>> = rxBuf \o (toClient \o <<p>>)
  BY <1>1, <1>3, ConcatAssociative
<1> QED BY <1>2, <1>5, <1>6 DEF Inbound

\* Whatever else the broker does leaves the acknowledgements where they are.
LEMMA BrokerOtherAcks ==
    ASSUME Wire, AckFlight, BrokerStep, ~BrokerPublish
    PROVE  AckFlight'
<1>1. UNCHANGED <<pendingPubs, repeated, got, rxBuf>>
  BY DEF BrokerStep, BrokerReceives, BrokerConnect, BrokerSubscription,
         BrokerPuback, BrokerPushes, BrokerMisbehaves, LinkBreaks, clientOnly, brokerVars
<1>2. \/ UNCHANGED toBroker
      \/ toBroker # <<>> /\ toBroker' = Tail(toBroker) /\ ~IsPublish(Head(toBroker)) /\ UNCHANGED link
      \/ toBroker' = <<>> /\ link' = "broken"
  BY DEF BrokerStep, BrokerReceives, BrokerConnect, BrokerSubscription, BrokerPuback,
         BrokerPushes, BrokerMisbehaves, LinkBreaks, Incoming, IsPublish
<1>3. \/ UNCHANGED toClient
      \/ \E p : p.type # "Puback" /\ toClient' = Append(toClient, p)
  <2>1. \A p \in {ConnackPkt(TRUE), ConnackPkt(FALSE), OtherPkt, BadPkt, PublishPkt(0), PublishPkt(1)} :
           p.type # "Puback"
    BY DEF ConnackPkt, OtherPkt, BadPkt, PublishPkt
  <2>2. \/ UNCHANGED toClient
        \/ \E p \in {ConnackPkt(TRUE), ConnackPkt(FALSE), OtherPkt, BadPkt, PublishPkt(0), PublishPkt(1)} :
              toClient' = Append(toClient, p)
    BY DEF BrokerStep, BrokerReceives, BrokerConnect, BrokerSubscription, BrokerPuback,
           BrokerPushes, BrokerMisbehaves, LinkBreaks, Answer
  <2> QED BY <2>1, <2>2
<1>4. UNCHANGED link \/ link' = "broken"
  BY DEF BrokerStep, BrokerReceives, BrokerConnect, BrokerSubscription, BrokerPuback,
         BrokerPushes, BrokerMisbehaves, LinkBreaks, clientOnly
<1>5. Received' = Received BY <1>1 DEF Received
<1>6. /\ Rising(Inbound', repeated) /\ Owned(Inbound', pendingPubs, repeated)
      /\ \A n : Answered(Inbound, n) => Answered(Inbound', n)
  <2>1. CASE UNCHANGED toClient
    <3>1. Inbound' = Inbound BY <1>1, <2>1 DEF Inbound
    <3> QED BY <3>1 DEF AckFlight
  <2>2. ASSUME NEW p, p.type # "Puback", toClient' = Append(toClient, p)
        PROVE  /\ Rising(Inbound', repeated) /\ Owned(Inbound', pendingPubs, repeated)
               /\ \A n : Answered(Inbound, n) => Answered(Inbound', n)
    <3>1. Inbound' = Append(Inbound, p) BY <1>1, <2>2, InboundAppended
    <3>2. Inbound \in Seq(ToClient \cup {p}) /\ p \in ToClient \cup {p}
      BY InboundType, LargerSet
    <3>3. ~Single(p, repeated) BY <2>2 DEF Single
    <3>4. /\ Rising(Append(Inbound, p), repeated)
          /\ Owned(Append(Inbound, p), pendingPubs, repeated)
          /\ \A n : Answered(Inbound, n) => Answered(Append(Inbound, p), n)
      BY <3>2, <3>3, AcksAppend DEF AckFlight
    <3> QED BY <3>1, <3>4
  <2> QED BY <1>3, <2>1, <2>2
<1>7. \A n : link' = "up" /\ Travels(toBroker, n) => link = "up" /\ Travels(toBroker', n)
  <2>1. ASSUME toBroker # <<>>, toBroker' = Tail(toBroker), ~IsPublish(Head(toBroker)),
               NEW n, Travels(toBroker, n)
        PROVE  Travels(toBroker', n)
    <3>1. PICK i \in 1 .. Len(toBroker) :
             IsPublish(toBroker[i]) /\ toBroker[i].n = n /\ ~toBroker[i].dup
      BY <2>1 DEF Travels
    <3>2. /\ Len(toBroker) \in Nat \ {0} /\ Head(toBroker) = toBroker[1]
          /\ Len(toBroker') = Len(toBroker) - 1
          /\ \A j \in 1 .. Len(toBroker') : toBroker'[j] = toBroker[j + 1]
      BY <2>1, EmptySeq, LenProperties, HeadTailProperties DEF Wire
    <3>3. i # 1 BY <2>1, <3>1, <3>2
    <3>4. i - 1 \in 1 .. Len(toBroker') /\ (i - 1) + 1 = i BY <3>2, <3>3
    <3>5. toBroker'[i - 1] = toBroker[i] BY <3>2, <3>4
    <3> QED BY <3>1, <3>4, <3>5 DEF Travels
  <2> QED BY <1>2, <1>4, <2>1
<1>8. link' = "up" => link = "up" BY <1>4
<1>9. Awaited(Inbound', pendingPubs, repeated, Received, toBroker', link')
  BY <1>6, <1>7, <1>8 DEF AckFlight, Awaited
<1>10. \A i \in 1 .. Len(toBroker') : \E j \in 1 .. Len(toBroker) : toBroker'[i] = toBroker[j]
  <2>1. CASE toBroker' = <<>>
    <3>1. \A i : i \notin 1 .. Len(toBroker') BY <2>1
    <3> QED BY <3>1
  <2>2. CASE toBroker # <<>> /\ toBroker' = Tail(toBroker)
    <3>1. /\ Len(toBroker) \in Nat /\ Len(toBroker') = Len(toBroker) - 1
          /\ \A i \in 1 .. Len(toBroker') : toBroker'[i] = toBroker[i + 1]
      BY <2>2, EmptySeq, LenProperties, HeadTailProperties DEF Wire
    <3>2. \A i \in 1 .. Len(toBroker') : i + 1 \in 1 .. Len(toBroker) BY <3>1
    <3> QED BY <3>1, <3>2
  <2> QED BY <1>2, <2>1, <2>2
<1>11. Carried(toBroker', pendingPubs, repeated) BY <1>10 DEF AckFlight, Carried
<1> QED BY <1>1, <1>5, <1>6, <1>9, <1>11 DEF AckFlight

\* The broker acknowledges a publish in its turn.
LEMMA BrokerPublishAcks ==
    ASSUME TypeOK, Wire, RanksGrow, Flight, Marks, AckFlight, BrokerPublish
    PROVE  AckFlight'
<1> DEFINE pkt == Head(toBroker)
           ack == PubackPkt(pkt.id, pkt.n)
           left == Tail(toBroker)
           receipt == [n |-> pkt.n, dup |-> pkt.dup]
<1>1. /\ toBroker # <<>> /\ toBroker' = left /\ got' = Append(got, receipt) /\ link = "up"
      /\ pkt.type \in {"Publish0", "Publish1"}
      /\ IF pkt.type = "Publish1" THEN toClient' = Append(toClient, ack) ELSE UNCHANGED toClient
      /\ UNCHANGED <<pendingPubs, repeated, rxBuf, sent, link>>
  BY DEF BrokerPublish, Incoming, Answer, clientOnly
<1>2. /\ Len(toBroker) \in Nat \ {0} /\ toBroker[1] = pkt /\ 1 \in 1 .. Len(toBroker)
      /\ Len(left) = Len(toBroker) - 1
      /\ \A i \in 1 .. Len(left) : left[i] = toBroker[i + 1]
  BY <1>1, EmptySeq, LenProperties, HeadTailProperties DEF Wire
<1>3. receipt.n = pkt.n /\ ack.type = "Puback" /\ ack.n = pkt.n BY DEF PubackPkt
<1>4. pkt \in ToBroker BY <1>1 DEF Wire
<1> HIDE DEF pkt, ack, left, receipt
<1>5. \A i \in 1 .. Len(left) : i \in Nat /\ i + 1 \in 1 .. Len(toBroker) /\ 1 < i + 1 BY <1>2
<1>6. IsPublish(pkt) /\ pkt.n \in Nat
  <2>1. \E item \in Out : pkt.n = item.n BY <1>1, <1>4, PublishOnWire
  <2> QED BY <1>1, <2>1, ItemsWire DEF IsPublish, TxItem
<1>7. Received' = Received \cup {pkt.n}
  <2>1. got \in Seq(Receipt \cup {receipt}) /\ receipt \in Receipt \cup {receipt}
    BY LargerSet DEF Wire
  <2>2. /\ Len(got) \in Nat /\ DOMAIN got = 1 .. Len(got)
        /\ DOMAIN got' = 1 .. Len(got) + 1
        /\ got'[Len(got) + 1] = receipt /\ \A i \in 1 .. Len(got) : got'[i] = got[i]
    BY <1>1, <2>1, LenProperties, AppendProperties
  <2> QED BY <1>3, <2>2 DEF Received
<1>8. ASSUME pkt.n \notin repeated PROVE \A x \in Received : x < pkt.n
  <2>1. ~pkt.dup BY <1>2, <1>6, <1>8 DEF Marks
  <2>2. DOMAIN got = 1 .. Len(got) BY LenProperties DEF Wire
  <2>3. \A i \in 1 .. Len(got) : got[i].n < pkt.n
    BY <1>2, <1>6, <2>1 DEF Flight, InOrder, Before
  <2> QED BY <2>2, <2>3 DEF Received
<1>9. \A i \in 1 .. Len(Inbound) : Single(Inbound[i], repeated) => Inbound[i].n \in Received
  <2> SUFFICES ASSUME NEW i \in 1 .. Len(Inbound), Single(Inbound[i], repeated)
               PROVE  Inbound[i].n \in Received
    OBVIOUS
  <2> DEFINE p == Inbound[i]
  <2>1. p \in ToClient /\ p.type = "Puback"
    BY InboundType, ElementOfSeq DEF Single
  <2> HIDE DEF p
  <2>2. p \in Acks
    <3>1. p \notin {ConnackPkt(FALSE), OtherPkt, BadPkt}
            \cup {PublishPkt(qos) : qos \in {0, 1}} \cup {ConnackPkt(TRUE)}
      BY <2>1 DEF ConnackPkt, OtherPkt, BadPkt, PublishPkt
    <3> QED BY <2>1, <3>1 DEF ToClient, Harmless
  <2>3. p.n \in Received BY <2>2 DEF Acks, PubackPkt
  <2> QED BY <2>3 DEF p
<1>10. /\ Rising(Inbound', repeated) /\ Owned(Inbound', pendingPubs, repeated)
       /\ \A n : Answered(Inbound, n) => Answered(Inbound', n)
       /\ pkt.type = "Publish1" => Answered(Inbound', pkt.n)
  <2>1. CASE pkt.type # "Publish1"
    <3>1. Inbound' = Inbound BY <1>1, <2>1 DEF Inbound
    <3> QED BY <2>1, <3>1 DEF AckFlight
  <2>2. CASE pkt.type = "Publish1"
    <3>1. Inbound' = Append(Inbound, ack) BY <1>1, <2>2, InboundAppended
    <3>2. Inbound \in Seq(ToClient \cup {ack}) /\ ack \in ToClient \cup {ack}
      BY InboundType, LargerSet
    <3>3. ASSUME Single(ack, repeated)
          PROVE  /\ \A i \in 1 .. Len(Inbound) : Single(Inbound[i], repeated) => Inbound[i].n < ack.n
                 /\ \E k \in 1 .. Len(pendingPubs) : pendingPubs[k].item.n = ack.n
      <4>1. pkt.n \notin repeated BY <1>3, <3>3 DEF Single
      <4>2. ~pkt.dup BY <1>2, <1>6, <4>1 DEF Marks
      <4>3. \E k \in 1 .. Len(pendingPubs) : pendingPubs[k].item.n = pkt.n
        BY <1>2, <2>2, <4>1, <4>2 DEF AckFlight, Carried
      <4> QED BY <1>3, <1>8, <1>9, <4>1, <4>3
    <3>4. /\ Rising(Append(Inbound, ack), repeated)
          /\ Owned(Append(Inbound, ack), pendingPubs, repeated)
          /\ \A n : Answered(Inbound, n) => Answered(Append(Inbound, ack), n)
          /\ ack.type = "Puback" => Answered(Append(Inbound, ack), ack.n)
      BY <3>2, <3>3, AcksAppend DEF AckFlight
    <3> QED BY <1>3, <3>1, <3>4
  <2> QED BY <2>1, <2>2
<1>11. Awaited(Inbound', pendingPubs, repeated, Received', left, link)
  <2> SUFFICES ASSUME NEW k \in 1 .. Len(pendingPubs), pendingPubs[k].item.n \notin repeated
               PROVE  \/ pendingPubs[k].item.n \in Received' /\ Answered(Inbound', pendingPubs[k].item.n)
                      \/ /\ \A x \in Received' : x < pendingPubs[k].item.n
                         /\ link = "up" => Travels(left, pendingPubs[k].item.n)
    BY DEF Awaited
  <2> DEFINE n == pendingPubs[k].item.n
  <2>1. \/ n \in Received /\ Answered(Inbound, n)
        \/ (\A x \in Received : x < n) /\ Travels(toBroker, n)
    BY <1>1 DEF AckFlight, Awaited
  <2>2. CASE n \in Received /\ Answered(Inbound, n)
    BY <1>7, <1>10, <2>2
  <2>3. CASE (\A x \in Received : x < n) /\ Travels(toBroker, n)
    <3>1. PICK i \in 1 .. Len(toBroker) :
             IsPublish(toBroker[i]) /\ toBroker[i].n = n /\ ~toBroker[i].dup
      BY <2>3 DEF Travels
    <3>2. CASE i = 1
      <4>1. pkt.n = n BY <1>2, <3>1, <3>2
      <4>2. pkt.type = "Publish1"
        <5>1. PICK item \in Out : pkt.type = item.type /\ pkt.n = item.n
          BY <1>1, <1>4, PublishOnWire
        <5>2. pendingPubs[k] \in Pending BY ElementOfSeq DEF Wire
        <5>3. pendingPubs[k].item \in Out /\ pendingPubs[k].item.type = "Publish1"
          BY <5>2 DEF Pending, Publishes
        <5>4. item = pendingPubs[k].item BY <4>1, <5>1, <5>3, RankIsUnique
        <5> QED BY <5>1, <5>3, <5>4
      <4> QED BY <1>7, <1>10, <4>1, <4>2
    <3>3. CASE i # 1
      <4>1. 1 < i BY <3>3
      <4>2. pkt.n < n BY <1>2, <1>6, <3>1, <4>1 DEF Flight, InOrder, Before
      <4>3. i - 1 \in 1 .. Len(left) /\ (i - 1) + 1 = i BY <1>2, <4>1
      <4>4. left[i - 1] = toBroker[i] BY <1>2, <4>3
      <4>5. Travels(left, n) BY <3>1, <4>3, <4>4 DEF Travels
      <4> QED BY <1>7, <2>3, <4>2, <4>5
    <3> QED BY <3>2, <3>3
  <2> QED BY <2>1, <2>2, <2>3
<1>12. Carried(left, pendingPubs, repeated)
  BY <1>2, <1>5 DEF AckFlight, Carried
<1> QED BY <1>1, <1>10, <1>11, <1>12 DEF AckFlight

\* So nothing is counted that has not been received.
LEMMA NextAcks ==
    TypeOK /\ Wire /\ Handshake /\ RanksGrow /\ Flight /\ AckInv /\ [Next]_vars => AckInv'
<1> SUFFICES ASSUME TypeOK, Wire, Handshake, RanksGrow, Flight, AckInv, [Next]_vars
             PROVE  AckInv'
  OBVIOUS
<1>1. CASE ClientSide
  <2>1. Marks' /\ Blank' BY <1>1, ClientMarks, ClientBlank DEF AckInv
  <2>2. ASSUME RepeatsUnshared' PROVE RepeatsUnshared
    <3>1. UNCHANGED sent \/ \E item \in TxItem : sent' = Append(sent, item)
      BY <1>1, SentGrows, CallsWire DEF ClientSide, ClientStep
    <3>2. repeated \subseteq repeated'
      <4>1. ResendDup => repeated \subseteq repeated' BY DEF ResendDup
      <4>2. ~ResendDup => repeated' = repeated BY <1>1, HistoryKept DEF ClientSide
      <4> QED BY <4>1, <4>2
    <3> QED BY <2>2, <3>1, <3>2, UnsharedBefore
  <2> QED BY <1>1, <2>1, <2>2, ClientAcks DEF AckInv
<1>2. CASE BrokerStep
  <2>1. Marks' /\ Blank' BY <1>2, BrokerMarks, BrokerBlank DEF AckInv
  <2>2. UNCHANGED <<sent, repeated, acked>>
    BY <1>2 DEF BrokerStep, BrokerReceives, BrokerConnect, BrokerSubscription, BrokerPublish,
         BrokerPuback, BrokerPushes, BrokerMisbehaves, LinkBreaks, clientOnly
  <2>3. RepeatsUnshared' => RepeatsUnshared BY <2>2 DEF RepeatsUnshared
  <2>4. Received \subseteq Received'
    <3>1. CASE BrokerPublish BY <3>1, Acknowledges
    <3>2. CASE ~BrokerPublish
      <4>1. UNCHANGED got
        BY <1>2, <3>2 DEF BrokerStep, BrokerReceives, BrokerConnect, BrokerSubscription,
             BrokerPuback, BrokerPushes, BrokerMisbehaves, LinkBreaks, brokerVars
      <4> QED BY <4>1 DEF Received
    <3> QED BY <3>1, <3>2
  <2>5. AckFlight /\ Marks => AckFlight' BY <1>2, BrokerPublishAcks, BrokerOtherAcks
  <2> QED BY <2>1, <2>2, <2>3, <2>4, <2>5 DEF AckInv
<1>3. CASE UNCHANGED vars
  <2>1. UNCHANGED <<sent, got, acked, repeated, pendingPubs, toBroker, link, npc, rxBuf, toClient>>
    BY <1>3 DEF vars, clientVars, brokerVars
  <2>2. /\ RepeatsUnshared' = RepeatsUnshared /\ Received' = Received /\ Inbound' = Inbound
        /\ Marks' = Marks /\ Blank' = Blank
    BY <2>1 DEF RepeatsUnshared, Received, Inbound, Marks, Blank, SentSet, Out
  <2>3. AckFlight' = AckFlight BY <2>1, <2>2 DEF AckFlight
  <2> QED BY <2>1, <2>2, <2>3 DEF AckInv
<1> QED BY <1>1, <1>2, <1>3 DEF Next

\* A publish counted as acknowledged has reached the broker (handlePuback, the resend
\* loop of onlineLoop), whatever was requeued, resent, given up, acknowledged late or
\* lost, and also when the identifiers have wrapped around onto publishes that are
\* still pending; only a publish sent twice must not share its identifier.
THEOREM AcksAreGenuine == Spec => []AckedWasReceived
<1>1. AckInv => AckedWasReceived BY DEF AckInv, AckedWasReceived, AckIsGenuine, Received
<1> QED
  BY <1>1, InitAcks, NextAcks, TypeCorrect, HandshakeCorrect, RanksGrowCorrect, FlightCorrect, PTL
  DEF Spec

\* Both together: what the client reports to its user is so.
THEOREM ReportsAreHonest == Spec => []HonestReports
<1>1. ConnectedIsHonest /\ AckedWasReceived => HonestReports BY DEF HonestReports
<1> QED BY <1>1, FlagIsHonest, AcksAreGenuine, PTL
-----------------------------------------------------------------------------
(* Subscriptions.  With a clean session, and users who only subscribe, a   *)
(* topic of the table is with the broker or on its way there as long as    *)
(* the session lasts, unless a full queue has dropped a packet.            *)

Elements(s) == {s[i] : i \in DOMAIN s}

\* CONNECT is the first packet of a connection and comes once, before the session.
Greeting ==
    /\ link = "none" => toBroker = <<>> /\ ~session
    /\ link = "up" /\ npc = "hello" => toBroker = <<>> /\ ~session
    /\ link = "up" => \A i \in DOMAIN toBroker : toBroker[i] = ConnectPkt => i = 1 /\ ~session

\* Nobody unsubscribes.
NoRemoval ==
    /\ \A u \in Users : call[u].type # "Unsubscribe"
    /\ \A item \in Elements(Waiters) : item.type # "Unsubscribe"
    /\ \A pkt \in Elements(toBroker) : pkt.type # "Unsubscribe"

\* The session is on: the table has been announced, nothing has been dropped.
Serving == connected /\ link = "up" /\ npc # "resubscribe" /\ droppedTx = 0

\* A call, an item or a packet that makes the broker hold the topic.
Enters(pkt, t) ==
    \/ pkt.type = "Subscribe" /\ pkt.topic = t
    \/ pkt.type = "Resubscribe" /\ t \in pkt.topics

\* Such a packet is being prepared, waits (and will not be passed over), or is
\* on the wire, or the broker has had it.
Held(t) ==
    \/ t \in brokerSubs
    \/ \E u \in Users : upc[u] \in {"alloc", "enqueue"} /\ Enters(call[u], t)
    \/ \E item \in Elements(Waiters) : item.online /\ Enters(item, t)
    \/ \E pkt \in Elements(toBroker) : Enters(pkt, t)

HeldInv == Greeting /\ NoRemoval /\ (Serving => \A t \in subscriptions : Held(t))

\* The elements of a sequence: of the empty one, ...
LEMMA ElementsEmpty == Elements(<<>>) = {}
BY DEF Elements

\* ... of one with an element added, ...
LEMMA ElementsAppend ==
    ASSUME NEW S, NEW s \in Seq(S), NEW x \in S
    PROVE  Elements(Append(s, x)) = Elements(s) \cup {x}
<1>1. Len(s) \in Nat /\ DOMAIN s = 1 .. Len(s) BY LenProperties
<1>2. /\ DOMAIN Append(s, x) = 1 .. Len(s) + 1 /\ Append(s, x)[Len(s) + 1] = x
      /\ \A i \in 1 .. Len(s) : Append(s, x)[i] = s[i]
  BY <1>1, AppendProperties, LenProperties
<1> QED BY <1>1, <1>2 DEF Elements

\* ... and of one whose first is taken.
LEMMA ElementsTail ==
    ASSUME NEW S, NEW s \in Seq(S), s # <<>>
    PROVE  Elements(s) = {Head(s)} \cup Elements(Tail(s))
<1>1. Len(s) \in Nat \ {0} /\ DOMAIN s = 1 .. Len(s) BY EmptySeq, LenProperties
<1>2. Head(s) = s[1] OBVIOUS
<1>3. /\ Tail(s) \in Seq(S) /\ Len(Tail(s)) = Len(s) - 1
      /\ \A i \in 1 .. Len(s) - 1 : Tail(s)[i] = s[i + 1]
  BY HeadTailProperties
<1>4. DOMAIN Tail(s) = 1 .. Len(s) - 1 BY <1>3, LenProperties
<1>5. ASSUME NEW x \in Elements(s) PROVE x \in {Head(s)} \cup Elements(Tail(s))
  <2>1. PICK i \in 1 .. Len(s) : x = s[i] BY <1>1, <1>5 DEF Elements
  <2>2. CASE i = 1 BY <1>2, <2>1, <2>2
  <2>3. CASE i # 1
    <3>1. i - 1 \in 1 .. Len(s) - 1 /\ Tail(s)[i - 1] = s[(i - 1) + 1]
      BY <1>1, <1>3, <2>1, <2>3
    <3>2. (i - 1) + 1 = i BY <2>1
    <3> QED BY <1>4, <2>1, <3>1, <3>2 DEF Elements
  <2> QED BY <2>2, <2>3
<1>6. Head(s) \in Elements(s) BY <1>1, <1>2 DEF Elements
<1>7. ASSUME NEW x \in Elements(Tail(s)) PROVE x \in Elements(s)
  <2>1. PICK i \in 1 .. Len(s) - 1 : x = Tail(s)[i] BY <1>4, <1>7 DEF Elements
  <2>2. x = s[i + 1] /\ i + 1 \in 1 .. Len(s) BY <1>1, <1>3, <2>1
  <2> QED BY <1>1, <2>2 DEF Elements
<1> QED BY <1>5, <1>6, <1>7

\* The waiting items lose their first when the batch does.
LEMMA WaitersTail ==
    ASSUME TypeOK, batch # <<>>, batch' = Tail(batch), txQueue' = txQueue
    PROVE  Elements(Waiters) = {Head(batch)} \cup Elements(Waiters')
<1>1. /\ Waiters \in Seq(TxItem) /\ Waiters # <<>> /\ Head(Waiters) = Head(batch)
      /\ Tail(Waiters) = Tail(batch) \o txQueue
  BY WaitersType
<1>2. Waiters' = Tail(Waiters) BY <1>1 DEF Waiters
<1> QED
  <2> HIDE DEF Waiters
  <2> QED BY <1>1, <1>2, ElementsTail

\* The packets on the wire are known by their types.
LEMMA PacketTypes ==
    ASSUME TypeOK, Wire, NEW pkt \in ToBroker
    PROVE  /\ pkt.type = "Connect" => pkt = ConnectPkt
           /\ pkt.type \in {"Connect", "Puback", "Resubscribe"} \cup AllKinds
<1>1. CASE pkt = ConnectPkt BY <1>1 DEF ConnectPkt
<1>2. CASE pkt \in {AckPkt(id) : id \in PacketIds} BY <1>2 DEF AckPkt
<1>3. CASE pkt \in {ResubPkt(topics) : topics \in SUBSET Topics} BY <1>3 DEF ResubPkt
<1>4. CASE pkt \in Items(Out)
  <2>1. PICK item \in Out : \E dup \in BOOLEAN : pkt = ItemPkt(item, dup) BY <1>4 DEF Items
  <2>2. pkt.type = item.type BY <2>1 DEF ItemPkt
  <2>3. item.type \in AllKinds BY ItemsWire DEF TxItem
  <2> QED BY <2>2, <2>3 DEF AllKinds
<1> QED BY <1>1, <1>2, <1>3, <1>4 DEF ToBroker

\* A step that does not touch the waiting items, the wire, the calls or the
\* tables keeps the invariant, unless the session begins with it.
LEMMA HeldKept ==
    ASSUME HeldInv, UNCHANGED <<upc, call, link, toBroker, session, brokerSubs, subscriptions>>,
           batch' \o txQueue' = batch \o txQueue,
           npc' = "hello" => npc = "hello",
           Serving' => Serving
    PROVE  HeldInv'
<1>1. Waiters' = Waiters BY DEF Waiters
<1>2. Elements(Waiters') = Elements(Waiters) /\ Elements(toBroker') = Elements(toBroker)
  BY <1>1 DEF Elements
<1>3. Greeting' BY DEF HeldInv, Greeting
<1>4. NoRemoval' BY <1>2 DEF HeldInv, NoRemoval
<1>5. \A t : Held(t) => Held(t)'
  <2> HIDE DEF Enters
  <2> QED BY <1>2 DEF Held, Enters
<1> QED BY <1>3, <1>4, <1>5 DEF HeldInv

\* A packet other than CONNECT joins those on the wire, if the connection is
\* sound; nothing else happens to them.
LEMMA HeldSends ==
    ASSUME Wire, HeldInv, NEW pkt, pkt.type \notin {"Connect", "Unsubscribe"},
           Sends(pkt), UNCHANGED <<link, session>>, npc' # "hello"
    PROVE  /\ Greeting'
           /\ \A p \in Elements(toBroker') : p.type # "Unsubscribe"
           /\ Elements(toBroker) \subseteq Elements(toBroker')
           /\ link = "up" => pkt \in Elements(toBroker')
<1> DEFINE S == ToBroker \cup {pkt}
<1>1. toBroker \in Seq(S) /\ pkt \in S
  <2>1. ToBroker \subseteq S OBVIOUS
  <2> HIDE DEF S
  <2>2. toBroker \in Seq(S) BY <2>1, LargerSet DEF Wire
  <2> QED BY <2>2 DEF S
<1> HIDE DEF S
<1>2. \A p \in Elements(toBroker) : p.type # "Unsubscribe" BY DEF HeldInv, NoRemoval
<1>3. CASE link # "up"
  <2>1. toBroker' = toBroker BY <1>3 DEF Sends
  <2> QED BY <1>2, <1>3, <2>1 DEF HeldInv, Greeting
<1>4. CASE link = "up"
  <2>1. toBroker' = Append(toBroker, pkt) BY <1>4 DEF Sends
  <2>2. Elements(toBroker') = Elements(toBroker) \cup {pkt} BY <1>1, <2>1, ElementsAppend
  <2>3. pkt # ConnectPkt BY DEF ConnectPkt
  <2>4. /\ Len(toBroker) \in Nat /\ DOMAIN toBroker = 1 .. Len(toBroker)
        /\ DOMAIN toBroker' = 1 .. Len(toBroker) + 1
        /\ toBroker'[Len(toBroker) + 1] = pkt
        /\ \A i \in 1 .. Len(toBroker) : toBroker'[i] = toBroker[i]
    BY <1>1, <2>1, AppendProperties, LenProperties
  <2>5. \A i \in DOMAIN toBroker' : toBroker'[i] = ConnectPkt => i = 1 /\ ~session
    BY <1>4, <2>3, <2>4 DEF HeldInv, Greeting
  <2>6. Greeting' BY <1>4, <2>5 DEF Greeting
  <2> QED BY <1>2, <2>2, <2>6
<1> QED BY <1>3, <1>4

\* Users: a topic enters the table together with the call that will carry it.
LEMMA UserHeld ==
    ASSUME "Unsubscribe" \notin Kinds, TypeOK, Wire, HeldInv, NEW u \in Users, UserStep(u),
           UNCHANGED <<session, brokerSubs>>
    PROVE  HeldInv'
<1> USE DEF queueVars, linkVars, wakeVars, pubVars, lifeVars
<1>1. UNCHANGED <<link, toBroker, connected, npc, batch>>
  BY DEF UserStep, Publish, ChangeTable, TakePacketId, EnqueuePacket, WakeAfterEnqueue
<1>2. Greeting' BY <1>1 DEF HeldInv, Greeting
<1>3. Elements(toBroker') = Elements(toBroker) BY <1>1
<1>4. ASSUME NEW kind \in AllKinds, Publish(u, kind) PROVE HeldInv'
  <2>1. Elements(Waiters') = Elements(Waiters) BY <1>1, <1>4 DEF Publish, Waiters
  <2>2. /\ upc[u] = "idle" /\ call'[u].type # "Unsubscribe"
        /\ \A v \in Users \ {u} : upc'[v] = upc[v] /\ call'[v] = call[v]
        /\ UNCHANGED <<subscriptions, droppedTx>>
    BY <1>4 DEF Publish, BeginCall, TypeOK
  <2>3. NoRemoval' BY <1>3, <2>1, <2>2 DEF HeldInv, NoRemoval
  <2>4. ASSUME NEW t, Held(t) PROVE Held(t)'
    <3> HIDE DEF Enters
    <3> QED BY <1>3, <2>1, <2>2, <2>4 DEF Held
  <2> QED BY <1>1, <1>2, <2>2, <2>3, <2>4 DEF HeldInv, Serving
<1>5. ASSUME NEW kind \in AllKinds, NEW topic \in Topics, ChangeTable(u, kind, topic) PROVE HeldInv'
  <2>1. Elements(Waiters') = Elements(Waiters) BY <1>1, <1>5 DEF ChangeTable, Waiters
  <2>2. kind = "Subscribe" BY <1>5 DEF ChangeTable, BeginCall
  <2>3. /\ upc[u] = "idle" /\ upc'[u] = "alloc"
        /\ call'[u].type = "Subscribe" /\ call'[u].topic = topic
        /\ \A v \in Users \ {u} : upc'[v] = upc[v] /\ call'[v] = call[v]
        /\ subscriptions' = subscriptions \cup {topic} /\ UNCHANGED droppedTx
    BY <1>5, <2>2 DEF ChangeTable, BeginCall, TypeOK
  <2>4. NoRemoval' BY <1>3, <2>1, <2>3 DEF HeldInv, NoRemoval
  <2>5. ASSUME NEW t, Held(t) PROVE Held(t)'
    <3> HIDE DEF Enters
    <3> QED BY <1>3, <2>1, <2>3, <2>5 DEF Held
  <2>6. Held(topic)' BY <2>3 DEF Held, Enters
  <2> QED BY <1>1, <1>2, <2>3, <2>4, <2>5, <2>6 DEF HeldInv, Serving
<1>6. CASE TakePacketId(u)
  <2>1. Elements(Waiters') = Elements(Waiters) BY <1>1, <1>6 DEF TakePacketId, Waiters
  <2>2. /\ upc[u] = "alloc" /\ upc'[u] = "enqueue"
        /\ \A v \in Users \ {u} : upc'[v] = upc[v] /\ call'[v] = call[v]
        /\ call' = [call EXCEPT ![u].id = nextPacketId]
        /\ UNCHANGED <<subscriptions, droppedTx>>
    BY <1>6 DEF TakePacketId, TypeOK
  <2>3. call'[u].type = call[u].type /\ call'[u].topic = call[u].topic
    BY <2>2 DEF TypeOK, Call
  <2>4. call[u].type \in AllKinds BY DEF TypeOK, Call
  <2>5. NoRemoval' BY <1>3, <2>1, <2>2, <2>3 DEF HeldInv, NoRemoval
  <2>6. \A t : Enters(call[u], t) => Enters(call'[u], t) BY <2>3, <2>4 DEF Enters, AllKinds
  <2>7. ASSUME NEW t, Held(t) PROVE Held(t)'
    <3> HIDE DEF Enters
    <3> QED BY <1>3, <2>1, <2>2, <2>6, <2>7 DEF Held
  <2> QED BY <1>1, <1>2, <2>2, <2>5, <2>7 DEF HeldInv, Serving
<1>7. CASE EnqueuePacket(u)
  <2>1. /\ upc[u] = "enqueue" /\ call'[u] = NoCall
        /\ \A v \in Users \ {u} : upc'[v] = upc[v] /\ call'[v] = call[v]
        /\ UNCHANGED subscriptions
    BY <1>7 DEF EnqueuePacket, TypeOK
  <2>2. NoCall.type # "Unsubscribe" BY DEF NoCall
  <2>3. CASE Len(txQueue) >= kMaxTxQueue
    <3>1. UNCHANGED txQueue /\ droppedTx' = droppedTx + 1 BY <1>7, <2>3 DEF EnqueuePacket
    <3>2. ~Serving' BY <3>1 DEF TypeOK, Serving
    <3>3. Elements(Waiters') = Elements(Waiters) BY <1>1, <3>1 DEF Waiters
    <3>4. NoRemoval' BY <1>3, <2>1, <2>2, <3>3 DEF HeldInv, NoRemoval
    <3> QED BY <1>2, <3>2, <3>4 DEF HeldInv
  <2>4. CASE ~(Len(txQueue) >= kMaxTxQueue)
    <3> DEFINE item == [type |-> call[u].type, topic |-> call[u].topic,
                        id |-> call[u].id, online |-> connected, n |-> accepted + 1]
    <3>1. txQueue' = Append(txQueue, item) /\ UNCHANGED droppedTx BY <1>7, <2>4 DEF EnqueuePacket
    <3>2. item \in TxItem
      <4>1. call[u] \in Call /\ connected \in BOOLEAN /\ accepted + 1 \in Nat BY DEF TypeOK
      <4> QED BY <4>1 DEF Call, TxItem
    <3>3. item.type = call[u].type /\ item.topic = call[u].topic /\ item.online = connected
      OBVIOUS
    <3> HIDE DEF item
    <3>4. Waiters' = Append(Waiters, item) BY <1>1, <3>1, <3>2, WaitersType DEF Waiters
    <3>5. Elements(Waiters') = Elements(Waiters) \cup {item}
      <4> HIDE DEF Waiters
      <4> QED BY <3>2, <3>4, WaitersType, ElementsAppend
    <3>6. item.type # "Unsubscribe" BY <3>3 DEF HeldInv, NoRemoval
    <3>7. NoRemoval' BY <1>3, <2>1, <2>2, <3>5, <3>6 DEF HeldInv, NoRemoval
    <3>8. item.type \in AllKinds BY <3>2 DEF TxItem
    <3>9. \A t : Enters(call[u], t) => Enters(item, t) BY <3>3, <3>8 DEF Enters, AllKinds
    <3>10. ASSUME NEW t, Held(t), connected PROVE Held(t)'
      <4> HIDE DEF Enters
      <4>1. item.online BY <3>3, <3>10
      <4> QED BY <1>3, <2>1, <3>5, <3>9, <3>10, <4>1, SMTT(30) DEF Held
    <3> QED BY <1>1, <1>2, <2>1, <3>1, <3>7, <3>10 DEF HeldInv, Serving
  <2> QED BY <2>3, <2>4
<1>8. CASE WakeAfterEnqueue(u)
  <2>1. Elements(Waiters') = Elements(Waiters) BY <1>1, <1>8 DEF WakeAfterEnqueue, Waiters
  <2>2. /\ upc[u] = "wake" /\ \A v \in Users \ {u} : upc'[v] = upc[v]
        /\ UNCHANGED <<call, subscriptions, droppedTx>>
    BY <1>8 DEF WakeAfterEnqueue, TypeOK
  <2>3. NoRemoval' BY <1>3, <2>1, <2>2 DEF HeldInv, NoRemoval
  <2>4. ASSUME NEW t, Held(t) PROVE Held(t)'
    <3> HIDE DEF Enters
    <3> QED BY <1>3, <2>1, <2>2, <2>4 DEF Held
  <2> QED BY <1>1, <1>2, <2>2, <2>3, <2>4 DEF HeldInv, Serving
<1> QED BY <1>4, <1>5, <1>6, <1>7, <1>8 DEF UserStep

\* start() and stop(): the session does not outlive the thread.
LEMMA LifeHeld ==
    ASSUME TypeOK, BatchInv, Handshake, HeldInv, LifeStep,
           session' = (session /\ link' # "none"), UNCHANGED brokerSubs
    PROVE  HeldInv'
<1> USE DEF queueVars, linkVars, wakeVars, pubVars, lifeVars, userVars
<1>1. session' = session
  <2>1. UNCHANGED link BY DEF LifeStep, Start, StopRequest, StopWake, StopJoin
  <2> QED BY <2>1 DEF Handshake
<1>2. CASE Start
  <2>1. /\ npc = "none" /\ npc' = "top" /\ connected' = FALSE /\ txQueue' = <<>>
        /\ UNCHANGED <<call, link, toBroker, batch>>
    BY <1>2 DEF Start
  <2>2. batch' = <<>> BY <2>1 DEF BatchInv
  <2>3. Waiters' = <<>>
    <3>1. <<>> \o <<>> = <<>> OBVIOUS
    <3> QED BY <2>1, <2>2, <3>1 DEF Waiters
  <2>4. Elements(Waiters') = {} /\ Elements(toBroker') = Elements(toBroker)
    BY <2>1, <2>3, ElementsEmpty
  <2>5. Greeting' BY <1>1, <2>1 DEF HeldInv, Greeting
  <2>6. NoRemoval' BY <2>1, <2>4 DEF HeldInv, NoRemoval
  <2> QED BY <2>1, <2>5, <2>6 DEF HeldInv, Serving
<1>3. CASE StopRequest \/ StopWake \/ StopJoin
  <2>1. /\ UNCHANGED <<upc, call, link, toBroker, subscriptions, batch, txQueue, droppedTx>>
        /\ \/ npc' = npc /\ connected' = connected
           \/ npc' = "none" /\ connected' = FALSE
    BY <1>3 DEF StopRequest, StopWake, StopJoin
  <2>2. Serving' => Serving BY <2>1 DEF Serving
  <2> QED BY <1>1, <2>1, <2>2, HeldKept
<1> QED BY <1>2, <1>3 DEF LifeStep

\* The steps of the network thread that neither send nor connect.
LEMMA SilentHeld ==
    ASSUME TypeOK, BatchInv, Handshake, HeldInv,
           LoopTop \/ BackoffWait \/ ConnectAbandoned \/ ConnectFails \/ AwaitConnack \/ TakeBatch
             \/ Requeue \/ BatchSent \/ NotExpired \/ GiveUp \/ TimersDone \/ Poll
             \/ HandlePuback \/ HandleOther \/ HandledAll \/ LossReported \/ EndReported
             \/ ClosePipe,
           session' = (session /\ link' # "none"), UNCHANGED brokerSubs
    PROVE  HeldInv'
<1> USE DEF queueVars, linkVars, wakeVars, pubVars, lifeVars, userVars
<1>1. /\ UNCHANGED <<upc, call, link, toBroker, subscriptions, droppedTx>>
      /\ connected' => connected
      /\ npc # "resubscribe" /\ npc' # "hello"
  <2>1. CASE LoopTop \/ BackoffWait \/ ConnectAbandoned \/ ConnectFails
    BY <2>1 DEF LoopTop, LoopBranch, BackoffWait, ConnectAbandoned, ConnectFails
  <2>2. CASE AwaitConnack
    BY <2>2 DEF AwaitConnack
  <2>3. CASE TakeBatch \/ Requeue \/ BatchSent \/ NotExpired \/ GiveUp \/ TimersDone
    BY <2>3 DEF TakeBatch, Requeue, BatchSent, NotExpired, GiveUp, TimersDone, SendFails
  <2>4. CASE Poll
    BY <2>4 DEF Poll
  <2>5. CASE HandlePuback \/ HandleOther \/ HandledAll
    BY <2>5 DEF HandlePuback, HandleOther, HandledAll, HandlingPacket
  <2>6. CASE LossReported \/ EndReported \/ ClosePipe
    BY <2>6 DEF LossReported, EndReported, ClosePipe, NotConnected, ContinueLoop
  <2> QED BY <2>1, <2>2, <2>3, <2>4, <2>5, <2>6
<1>2. batch' \o txQueue' = batch \o txQueue
  <2>1. batch \in Seq(TxItem) /\ txQueue \in Seq(TxItem) BY DEF TypeOK
  <2>2. CASE TakeBatch
    <3>1. batch = <<>> /\ batch' = txQueue /\ txQueue' = <<>>
      BY <2>2 DEF TakeBatch, BatchInv
    <3> QED BY <2>1, <3>1, ConcatEmptySeq
  <2>3. CASE Requeue
    <3>1. batch' = <<>> /\ txQueue' = batch \o txQueue BY <2>3 DEF Requeue, Requeued
    <3> QED BY <2>1, <3>1, ConcatEmptySeq
  <2>4. CASE ~TakeBatch /\ ~Requeue
    BY <2>4 DEF LoopTop, BackoffWait, ConnectAbandoned, ConnectFails, AwaitConnack, BatchSent,
           NotExpired, GiveUp, TimersDone, Poll, HandlePuback, HandleOther, HandledAll,
           LossReported, EndReported, ClosePipe
  <2> QED BY <2>2, <2>3, <2>4
<1>3. session' = session BY <1>1 DEF Handshake
<1>4. Serving' => Serving BY <1>1 DEF Serving
<1> QED BY <1>1, <1>2, <1>3, <1>4, HeldKept

\* Connecting: there is no session yet, and at the end of it the table has to be
\* announced first.
LEMMA ConnectHeld ==
    ASSUME CleanSession, TypeOK, Wire, Handshake, HeldInv,
           ConnectSucceeds \/ SendConnect \/ Announce,
           session' = (session /\ link' # "none"), UNCHANGED brokerSubs
    PROVE  HeldInv'
<1> USE DEF queueVars, linkVars, wakeVars, pubVars, lifeVars, userVars
<1>1. UNCHANGED <<call, batch, txQueue>>
  BY DEF ConnectSucceeds, SendConnect, Announce
<1>2. Elements(Waiters') = Elements(Waiters) BY <1>1 DEF Waiters
<1>3. CASE ConnectSucceeds
  <2>1. link = "none" /\ toBroker = <<>> /\ ~session /\ ~connected
    BY <1>3 DEF ConnectSucceeds, Handshake, Detached, ConnectedIsHonest, HeldInv, Greeting
  <2>2. link' = "up" /\ npc' = "hello" /\ toBroker' = <<>> /\ ~session' /\ ~connected'
    BY <1>3, <2>1 DEF ConnectSucceeds
  <2>3. Greeting' BY <2>2 DEF Greeting
  <2>4. NoRemoval' BY <1>1, <1>2, <2>1, <2>2 DEF HeldInv, NoRemoval
  <2> QED BY <2>2, <2>3, <2>4 DEF HeldInv, Serving
<1>4. CASE SendConnect
  <2>1. /\ npc = "hello" /\ npc' # "hello" /\ UNCHANGED <<link, connected>>
        /\ Sends(ConnectPkt) \/ SendFails
    BY <1>4 DEF SendConnect
  <2>2. CASE link = "up"
    <3>1. toBroker = <<>> /\ ~session BY <2>1, <2>2 DEF HeldInv, Greeting
    <3>2. toBroker' = <<ConnectPkt>> /\ ~session'
      <4>1. toBroker' = Append(toBroker, ConnectPkt) BY <2>1, <2>2 DEF Sends, SendFails
      <4> HIDE DEF ConnectPkt
      <4>2. Append(<<>>, ConnectPkt) = <<ConnectPkt>> OBVIOUS
      <4> QED BY <3>1, <4>1, <4>2
    <3>3. DOMAIN <<ConnectPkt>> = {1} /\ <<ConnectPkt>>[1] = ConnectPkt OBVIOUS
    <3>4. Elements(toBroker') = {ConnectPkt} BY <3>2, <3>3 DEF Elements
    <3>5. Greeting' BY <2>1, <2>2, <3>2, <3>3 DEF Greeting
    <3>6. ConnectPkt.type # "Unsubscribe" BY DEF ConnectPkt
    <3>7. NoRemoval' BY <1>1, <1>2, <3>4, <3>6 DEF HeldInv, NoRemoval
    <3>8. ~connected' BY <2>1, <2>2, <3>1 DEF Handshake, ConnectedIsHonest
    <3> QED BY <3>5, <3>7, <3>8 DEF HeldInv, Serving
  <2>3. CASE link # "up"
    <3>1. link' = link /\ toBroker' = toBroker BY <2>1, <2>3 DEF Sends, SendFails
    <3>2. link # "none" BY <2>1 DEF Handshake, Attached
    <3>3. Greeting' BY <2>3, <3>1, <3>2 DEF Greeting
    <3>4. NoRemoval' BY <1>1, <1>2, <3>1 DEF HeldInv, NoRemoval
    <3> QED BY <2>3, <3>1, <3>3, <3>4 DEF HeldInv, Serving
  <2> QED BY <2>2, <2>3
<1>5. CASE Announce
  <2>1. npc' = "resubscribe" /\ UNCHANGED <<link, toBroker>> BY <1>5 DEF Announce
  <2>2. session' = session BY <2>1 DEF Handshake
  <2>3. Greeting' BY <2>1, <2>2 DEF HeldInv, Greeting
  <2>4. NoRemoval' BY <1>1, <1>2, <2>1 DEF HeldInv, NoRemoval
  <2> QED BY <2>1, <2>3, <2>4 DEF HeldInv, Serving
<1> QED BY <1>3, <1>4, <1>5

\* The table is announced as a whole.
LEMMA ResubscribeHeld ==
    ASSUME TypeOK, Wire, Handshake, HeldInv, ResubscribeAll,
           session' = (session /\ link' # "none"), UNCHANGED brokerSubs
    PROVE  HeldInv'
<1> USE DEF queueVars, linkVars, wakeVars, pubVars, lifeVars, userVars
<1>1. /\ npc' = "top"
      /\ UNCHANGED <<call, upc, batch, txQueue, link, subscriptions>>
  BY DEF ResubscribeAll
<1>2. session' = session BY <1>1 DEF Handshake
<1>3. Elements(Waiters') = Elements(Waiters) BY <1>1 DEF Waiters
<1>4. CASE subscriptions = {}
  <2>1. UNCHANGED toBroker BY <1>4 DEF ResubscribeAll
  <2>2. Greeting' BY <1>1, <1>2, <2>1 DEF HeldInv, Greeting
  <2>3. NoRemoval' BY <1>1, <1>3, <2>1 DEF HeldInv, NoRemoval
  <2> QED BY <1>1, <1>4, <2>2, <2>3 DEF HeldInv
<1>5. CASE subscriptions # {}
  <2> DEFINE pkt == ResubPkt(subscriptions)
  <2>2. pkt.type = "Resubscribe" /\ pkt.topics = subscriptions BY DEF ResubPkt
  <2>3. Sends(pkt) \/ SendFails BY <1>5 DEF ResubscribeAll
  <2> HIDE DEF pkt
  <2>4. CASE Sends(pkt)
    <3>1. /\ Greeting' /\ \A p \in Elements(toBroker') : p.type # "Unsubscribe"
          /\ link = "up" => pkt \in Elements(toBroker')
      BY <1>1, <1>2, <2>2, <2>4, HeldSends
    <3>2. NoRemoval' BY <1>1, <1>3, <3>1 DEF HeldInv, NoRemoval
    <3>3. \A t \in subscriptions : Enters(pkt, t) BY <2>2 DEF Enters
    <3>4. link = "up" => \A t \in subscriptions : Held(t)'
      <4> HIDE DEF Enters
      <4> QED BY <3>1, <3>3 DEF Held
    <3> QED BY <1>1, <3>1, <3>2, <3>4 DEF HeldInv, Serving
  <2>5. CASE SendFails
    <3>1. link = "broken" /\ UNCHANGED toBroker BY <2>5 DEF SendFails
    <3>2. Greeting' BY <1>1, <3>1 DEF Greeting
    <3>3. NoRemoval' BY <1>1, <1>3, <3>1 DEF HeldInv, NoRemoval
    <3> QED BY <1>1, <3>1, <3>2, <3>3 DEF HeldInv, Serving
  <2> QED BY <2>3, <2>4, <2>5
<1> QED BY <1>4, <1>5

\* A subscription of the batch is sent; one that is passed over was queued while
\* there was no session, so the table has been announced since.
LEMMA BatchHeld ==
    ASSUME TypeOK, Wire, Handshake, HeldInv, SkipItem \/ SendItem,
           session' = (session /\ link' # "none"), UNCHANGED brokerSubs
    PROVE  HeldInv'
<1> USE DEF queueVars, linkVars, wakeVars, pubVars, lifeVars, userVars
<1> DEFINE item == Head(batch)
<1>1. /\ npc = "send" /\ npc' = "send" /\ batch # <<>> /\ batch' = Tail(batch)
      /\ UNCHANGED <<call, upc, txQueue, link, subscriptions, connected, droppedTx>>
  BY DEF SkipItem, SendItem
<1>2. session' = session BY <1>1 DEF Handshake
<1>3. item \in TxItem BY <1>1, ItemsWire
<1>4. Elements(Waiters) = {item} \cup Elements(Waiters') BY <1>1, WaitersTail
<1>5. item.type # "Unsubscribe" BY <1>4 DEF HeldInv, NoRemoval
<1>6. Serving' => Serving BY <1>1 DEF Serving
<1>7. CASE SkipItem
  <2>1. ~item.online /\ UNCHANGED toBroker BY <1>7 DEF SkipItem, Superseded
  <2> HIDE DEF item
  <2>2. Elements(toBroker') = Elements(toBroker) BY <2>1
  <2>3. Greeting' BY <1>1, <1>2, <2>1 DEF HeldInv, Greeting
  <2>4. NoRemoval' BY <1>1, <1>4, <2>2 DEF HeldInv, NoRemoval
  <2>5. ASSUME NEW t, Held(t) PROVE Held(t)'
    <3> HIDE DEF Enters
    <3> QED BY <1>1, <1>4, <2>1, <2>2, <2>5 DEF Held
  <2> QED BY <1>1, <1>6, <2>3, <2>4, <2>5 DEF HeldInv
<1>8. CASE SendItem
  <2> DEFINE pkt == ItemPkt(item, FALSE)
  <2>1. Sends(pkt) BY <1>8 DEF SendItem
  <2> HIDE DEF item
  <2>2. pkt.type = item.type /\ pkt.topic = item.topic BY DEF ItemPkt
  <2> HIDE DEF pkt
  <2>3. pkt.type \in AllKinds BY <1>3, <2>2 DEF TxItem
  <2>4. /\ Greeting' /\ \A p \in Elements(toBroker') : p.type # "Unsubscribe"
        /\ Elements(toBroker) \subseteq Elements(toBroker')
        /\ link = "up" => pkt \in Elements(toBroker')
    <3>1. pkt.type \notin {"Connect", "Unsubscribe"} BY <1>5, <2>2, <2>3 DEF AllKinds
    <3> QED BY <1>1, <1>2, <2>1, <3>1, HeldSends
  <2>5. NoRemoval' BY <1>1, <1>4, <2>4 DEF HeldInv, NoRemoval
  <2>6. \A t : Enters(item, t) => Enters(pkt, t) BY <2>2, <2>3 DEF Enters, AllKinds
  <2>7. ASSUME NEW t, Held(t), link = "up" PROVE Held(t)'
    <3> HIDE DEF Enters
    <3> QED BY <1>1, <1>4, <2>4, <2>6, <2>7 DEF Held
  <2> QED BY <1>1, <1>6, <2>4, <2>5, <2>7 DEF HeldInv, Serving
<1> QED BY <1>7, <1>8

\* What is sent once more, and acknowledgements, enter no topic.
LEMMA ReplyHeld ==
    ASSUME TypeOK, Wire, Handshake, HeldInv, ResendDup \/ HandlePublish,
           session' = (session /\ link' # "none"), UNCHANGED brokerSubs
    PROVE  HeldInv'
<1> USE DEF queueVars, linkVars, wakeVars, pubVars, lifeVars, userVars
<1>1. /\ npc \in {"timers", "handle"} /\ npc' \in {npc, "disconnect"}
      /\ UNCHANGED <<call, upc, batch, txQueue, link, subscriptions, connected, droppedTx>>
  <2>1. CASE ResendDup BY <2>1 DEF ResendDup
  <2>2. CASE HandlePublish BY <2>2 DEF HandlePublish, HandlingPacket
  <2> QED BY <2>1, <2>2
<1>2. session' = session BY <1>1 DEF Handshake
<1>3. Serving' => Serving BY <1>1 DEF Serving
<1>4. UNCHANGED toBroker \/ \E pkt : pkt.type \in {"Publish1", "Puback"} /\ Sends(pkt)
  <2>1. CASE ResendDup
    <3>1. cursor \in 1 .. Len(pendingPubs) BY <2>1 DEF ResendDup, TypeOK
    <3> DEFINE pub == pendingPubs[cursor]
               pkt == ItemPkt(pub.item, TRUE)
    <3>2. pub \in Pending BY <3>1 DEF Wire
    <3>3. pub.item.type = "Publish1" BY <3>2 DEF Pending, Publishes
    <3>4. pkt.type = "Publish1" BY <3>3 DEF ItemPkt
    <3>5. Sends(pkt) \/ UNCHANGED toBroker BY <2>1 DEF ResendDup, SendFails
    <3> HIDE DEF pkt
    <3> QED BY <3>4, <3>5
  <2>2. CASE HandlePublish
    <3>1. AckPkt(0).type = "Puback" BY DEF AckPkt
    <3>2. Sends(AckPkt(0)) \/ UNCHANGED toBroker BY <2>2 DEF HandlePublish, SendFails
    <3> QED BY <3>1, <3>2
  <2> QED BY <2>1, <2>2
<1>5. CASE UNCHANGED toBroker BY <1>1, <1>2, <1>3, <1>5, HeldKept
<1>6. ASSUME NEW pkt, pkt.type \in {"Publish1", "Puback"}, Sends(pkt) PROVE HeldInv'
  <2>1. /\ Greeting' /\ \A p \in Elements(toBroker') : p.type # "Unsubscribe"
        /\ Elements(toBroker) \subseteq Elements(toBroker')
    BY <1>1, <1>2, <1>6, HeldSends
  <2>2. Elements(Waiters') = Elements(Waiters) BY <1>1 DEF Waiters
  <2>3. NoRemoval' BY <1>1, <2>1, <2>2 DEF HeldInv, NoRemoval
  <2>4. ASSUME NEW t, Held(t) PROVE Held(t)'
    <3> HIDE DEF Enters
    <3> QED BY <1>1, <2>1, <2>2, <2>4 DEF Held
  <2> QED BY <1>1, <1>3, <2>1, <2>3, <2>4 DEF HeldInv
<1> QED BY <1>4, <1>5, <1>6

\* With the socket everything under way goes.
LEMMA CloseHeld ==
    ASSUME HeldInv, OnDisconnect \/ Cleanup,
           session' = (session /\ link' # "none"), UNCHANGED brokerSubs
    PROVE  HeldInv'
<1> USE DEF queueVars, wakeVars, lifeVars, userVars
<1>1. /\ link' = "none" /\ toBroker' = <<>> /\ ~session'
      /\ UNCHANGED <<call, batch, txQueue>>
  BY DEF OnDisconnect, Cleanup, CloseSocket
<1>2. Elements(Waiters') = Elements(Waiters) BY <1>1 DEF Waiters
<1>3. Greeting' BY <1>1 DEF Greeting
<1>4. NoRemoval' BY <1>1, <1>2, ElementsEmpty DEF HeldInv, NoRemoval
<1> QED BY <1>1, <1>3, <1>4 DEF HeldInv, Serving

\* Every step of the client keeps the topics of the table on their way.
LEMMA ClientHeld ==
    ASSUME CleanSession, "Unsubscribe" \notin Kinds,
           TypeOK, BatchInv, Wire, Handshake, HeldInv, ClientSide
    PROVE  HeldInv'
<1>1. session' = (session /\ link' # "none") /\ UNCHANGED brokerSubs BY DEF ClientSide
<1>2. ASSUME NEW u \in Users, UserStep(u) PROVE HeldInv'
  <2>1. link' = link
    BY <1>2 DEF UserStep, Publish, ChangeTable, TakePacketId, EnqueuePacket, WakeAfterEnqueue,
                linkVars
  <2>2. session' = session BY <1>1, <2>1 DEF Handshake
  <2> QED BY <1>1, <1>2, <2>2, UserHeld
<1>3. CASE LifeStep BY <1>1, <1>3, LifeHeld
<1>4. CASE NetworkStep
  BY <1>1, <1>4, SilentHeld, ConnectHeld, ResubscribeHeld, BatchHeld, ReplyHeld, CloseHeld
  DEF NetworkStep
<1> QED BY <1>2, <1>3, <1>4 DEF ClientSide, ClientStep

\* The broker takes the first packet: nothing of it is lost but a CONNECT, which
\* comes before the session.
LEMMA TakenHeld ==
    ASSUME Wire, HeldInv, toBroker # <<>>, toBroker' = Tail(toBroker),
           UNCHANGED <<call, batch, txQueue, link, npc>>,
           session' = session \/ Head(toBroker) = ConnectPkt
    PROVE  /\ Elements(toBroker) = {Head(toBroker)} \cup Elements(toBroker')
           /\ Elements(Waiters') = Elements(Waiters)
           /\ link = "up" => Greeting'
           /\ NoRemoval'
           /\ link = "up" /\ Head(toBroker) = ConnectPkt => ~session
<1>1. /\ toBroker \in Seq(ToBroker)
      /\ Len(toBroker) \in Nat \ {0} /\ DOMAIN toBroker = 1 .. Len(toBroker)
  BY EmptySeq, LenProperties DEF Wire
<1>2. Elements(toBroker) = {Head(toBroker)} \cup Elements(toBroker')
  BY <1>1, ElementsTail
<1>3. Elements(Waiters') = Elements(Waiters) BY DEF Waiters
<1>4. NoRemoval' BY <1>2, <1>3 DEF HeldInv, NoRemoval
<1>5. Head(toBroker) = toBroker[1] BY <1>1
<1>6. /\ DOMAIN toBroker' = 1 .. Len(toBroker) - 1
      /\ \A i \in 1 .. Len(toBroker) - 1 : toBroker'[i] = toBroker[i + 1]
  <2>1. /\ Tail(toBroker) \in Seq(ToBroker) /\ Len(Tail(toBroker)) = Len(toBroker) - 1
        /\ \A i \in 1 .. Len(toBroker) - 1 : Tail(toBroker)[i] = toBroker[i + 1]
    BY <1>1, HeadTailProperties
  <2>2. DOMAIN Tail(toBroker) = 1 .. Len(toBroker) - 1 BY <2>1, LenProperties
  <2> QED BY <2>1, <2>2
<1>7. CASE link = "up"
  <2>1. \A i \in DOMAIN toBroker' : toBroker'[i] # ConnectPkt
    <3>1. \A i \in 1 .. Len(toBroker) : toBroker[i] = ConnectPkt => i = 1
      BY <1>1, <1>7 DEF HeldInv, Greeting
    <3>2. ASSUME NEW i \in 1 .. Len(toBroker) - 1 PROVE toBroker'[i] # ConnectPkt
      <4>1. i + 1 \in 1 .. Len(toBroker) /\ i + 1 # 1 BY <1>1
      <4> QED BY <1>6, <3>1, <4>1
    <3> QED BY <1>6, <3>2
  <2>2. npc # "hello" BY <1>7 DEF HeldInv, Greeting
  <2>3. Greeting' BY <1>7, <2>1, <2>2 DEF Greeting
  <2>4. Head(toBroker) = ConnectPkt => ~session BY <1>1, <1>5, <1>7 DEF HeldInv, Greeting
  <2> QED BY <1>2, <1>3, <1>4, <2>3, <2>4
<1> QED BY <1>2, <1>3, <1>4, <1>7

\* The broker enters the topics of what it takes, and removes none while the
\* session lasts.
LEMMA BrokerHeld ==
    ASSUME TypeOK, Wire, Handshake, HeldInv, BrokerStep
    PROVE  HeldInv'
<1> USE DEF clientOnly
<1>1. UNCHANGED <<upc, call, batch, txQueue, npc, connected, droppedTx, subscriptions>>
  BY DEF BrokerStep, BrokerReceives, BrokerConnect, BrokerSubscription, BrokerPublish,
         BrokerPuback, BrokerPushes, BrokerMisbehaves, LinkBreaks
<1>2. CASE BrokerPushes \/ BrokerMisbehaves
  <2>1. UNCHANGED <<link, toBroker, session, brokerSubs>>
    BY <1>2 DEF BrokerPushes, BrokerMisbehaves, brokerVars
  <2>2. Serving' => Serving BY <1>1, <2>1 DEF Serving
  <2> QED BY <1>1, <2>1, <2>2, HeldKept
<1>3. CASE LinkBreaks
  <2>1. link' = "broken" /\ toBroker' = <<>> BY <1>3 DEF LinkBreaks
  <2>2. Elements(Waiters') = Elements(Waiters) BY <1>1 DEF Waiters
  <2>3. Greeting' BY <2>1 DEF Greeting
  <2>4. NoRemoval' BY <1>1, <2>1, <2>2, ElementsEmpty DEF HeldInv, NoRemoval
  <2> QED BY <2>1, <2>3, <2>4 DEF HeldInv, Serving
<1>4. CASE BrokerReceives
  <2> DEFINE pkt == Head(toBroker)
  <2>1. /\ link = "up" /\ link' = "up" /\ toBroker # <<>> /\ toBroker' = Tail(toBroker)
    BY <1>4 DEF BrokerReceives, BrokerConnect, BrokerSubscription, BrokerPublish, BrokerPuback,
                Incoming
  <2>2. pkt \in Elements(toBroker)
    <3>1. toBroker \in Seq(ToBroker) BY DEF Wire
    <3> QED BY <2>1, <3>1, ElementsTail
  <2>3. /\ pkt.type = "Connect" => pkt = ConnectPkt
        /\ pkt.type # "Unsubscribe"
    <3>1. pkt \in ToBroker BY <2>1 DEF Wire
    <3> HIDE DEF pkt
    <3> QED BY <2>2, <3>1, PacketTypes DEF HeldInv, NoRemoval
  <2> HIDE DEF pkt
  <2>4. session' = session \/ pkt = ConnectPkt
    <3>1. CASE BrokerConnect BY <2>3, <3>1 DEF BrokerConnect, Incoming, pkt
    <3>2. CASE BrokerSubscription \/ BrokerPublish \/ BrokerPuback
      BY <3>2 DEF BrokerSubscription, BrokerPublish, BrokerPuback, brokerVars
    <3> QED BY <1>4, <3>1, <3>2 DEF BrokerReceives
  <2>5. /\ Elements(toBroker) = {pkt} \cup Elements(toBroker')
        /\ Elements(Waiters') = Elements(Waiters)
        /\ Greeting' /\ NoRemoval'
        /\ pkt = ConnectPkt => ~session
    BY <1>1, <2>1, <2>4, TakenHeld DEF pkt
  <2>6. CASE BrokerConnect
    <3>1. pkt.type = "Connect" BY <2>6 DEF BrokerConnect, Incoming, pkt
    <3>2. ~connected BY <1>1, <2>1, <2>3, <2>5, <3>1 DEF Handshake, ConnectedIsHonest, Detached
    <3> QED BY <1>1, <2>5, <3>2 DEF HeldInv, Serving
  <2>7. CASE BrokerSubscription \/ BrokerPublish \/ BrokerPuback
    <3>1. brokerSubs \subseteq brokerSubs' /\ \A t : Enters(pkt, t) => t \in brokerSubs'
      <4>1. CASE BrokerSubscription
        <5>1. pkt.type \in {"Subscribe", "Resubscribe"}
          BY <2>3, <4>1 DEF BrokerSubscription, Incoming, pkt
        <5>2. CASE pkt.type = "Subscribe"
          <6>1. brokerSubs' = brokerSubs \cup {pkt.topic}
            BY <4>1, <5>2 DEF BrokerSubscription, pkt
          <6> QED BY <5>2, <6>1 DEF Enters
        <5>3. CASE pkt.type = "Resubscribe"
          <6>1. brokerSubs' = brokerSubs \cup pkt.topics
            BY <4>1, <5>3 DEF BrokerSubscription, pkt
          <6> QED BY <5>3, <6>1 DEF Enters
        <5> QED BY <5>1, <5>2, <5>3
      <4>2. CASE BrokerPublish \/ BrokerPuback
        <5>1. pkt.type \in {"Publish0", "Publish1", "Puback"} /\ brokerSubs' = brokerSubs
          BY <4>2 DEF BrokerPublish, BrokerPuback, Incoming, brokerVars, pkt
        <5> QED BY <5>1 DEF Enters
      <4> QED BY <2>7, <4>1, <4>2
    <3>2. ASSUME NEW t, Held(t) PROVE Held(t)'
      <4> HIDE DEF Enters
      <4> QED BY <1>1, <2>5, <3>1, <3>2 DEF Held
    <3>3. Serving' => Serving BY <1>1, <2>1 DEF Serving
    <3> QED BY <1>1, <2>5, <3>2, <3>3 DEF HeldInv
  <2> QED BY <1>4, <2>6, <2>7 DEF BrokerReceives
<1> QED BY <1>2, <1>3, <1>4 DEF BrokerStep

\* So it is from the start.
LEMMA HeldCorrect ==
    ASSUME CleanSession, "Unsubscribe" \notin Kinds PROVE Spec => []HeldInv
<1>1. Init => HeldInv
  <2> SUFFICES ASSUME Init PROVE HeldInv
    OBVIOUS
  <2>1. /\ link = "none" /\ toBroker = <<>> /\ ~session /\ ~connected
        /\ \A u \in Users : call[u].type = "Publish0"
    BY DEF Init, ClientInit, NoCall
  <2>2. Waiters = <<>>
    <3>1. <<>> \o <<>> = <<>> OBVIOUS
    <3> QED BY <3>1 DEF Init, ClientInit, Waiters
  <2> QED BY <2>1, <2>2, ElementsEmpty DEF HeldInv, Greeting, NoRemoval, Serving
<1>2. HeldInv /\ UNCHANGED vars => HeldInv'
  <2> SUFFICES ASSUME HeldInv, UNCHANGED vars PROVE HeldInv'
    OBVIOUS
  <2>1. /\ UNCHANGED <<upc, call, link, toBroker, session, brokerSubs, subscriptions>>
        /\ UNCHANGED <<batch, txQueue, npc, connected, droppedTx>>
    BY DEF vars, clientVars, brokerVars
  <2>2. Serving' => Serving BY <2>1 DEF Serving
  <2> QED BY <2>1, <2>2, HeldKept
<1>3. TypeOK /\ BatchInv /\ Wire /\ Handshake /\ HeldInv /\ [Next]_vars => HeldInv'
  BY <1>2, ClientHeld, BrokerHeld DEF Next
<1> QED BY <1>1, <1>3, TypeCorrect, RanksGrowCorrect, HandshakeCorrect, PTL DEF Spec

\* With a clean session, and users who subscribe and publish only, no
\* subscription falls between the queue and resubscribeAll (SubscriptionsHeld):
\* whatever order the table, the queue and the network thread are touched in,
\* once things settle the broker holds every topic of the table.
THEOREM SubscriptionsAreHeld ==
    ASSUME CleanSession, "Unsubscribe" \notin Kinds PROVE Spec => []SubscriptionsHeld
<1>1. TypeOK /\ BatchInv /\ HeldInv => SubscriptionsHeld
  <2> SUFFICES ASSUME BatchInv, HeldInv, Settled, droppedTx = 0
               PROVE  subscriptions \subseteq brokerSubs
    BY DEF SubscriptionsHeld
  <2>1. Serving BY DEF Settled, Serving
  <2>2. batch = <<>> /\ txQueue = <<>> /\ toBroker = <<>> BY DEF Settled, BatchInv
  <2>3. Waiters = <<>>
    <3>1. <<>> \o <<>> = <<>> OBVIOUS
    <3> QED BY <2>2, <3>1 DEF Waiters
  <2>4. Elements(Waiters) = {} /\ Elements(toBroker) = {} BY <2>2, <2>3, ElementsEmpty
  <2>5. \A u \in Users : upc[u] = "idle" BY DEF Settled
  <2>6. \A t : Held(t) => t \in brokerSubs BY <2>4, <2>5 DEF Held
  <2> QED BY <2>1, <2>6 DEF HeldInv
<1> QED BY <1>1, HeldCorrect, TypeCorrect, RanksGrowCorrect, PTL
=============================================================================
