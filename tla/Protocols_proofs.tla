-------------------------- MODULE Protocols_proofs --------------------------
(***************************************************************************)
(* Proofs about what talks to the outside under a clock or a deadline.     *)
(*                                                                         *)
(* The MQTT client's clock: the keepalive is kept, the back-off is bounded *)
(* and no live broker is given up, for every choice of intervals that      *)
(* TimeAssumption allows.  The serial line: no residue of an earlier       *)
(* transaction is taken for an answer, and with its faults and late        *)
(* answers it is a register service, for any number of threads, addresses  *)
(* and values.                                                             *)
(***************************************************************************)
EXTENDS MqttKeepalive, ModbusLink, SequenceTheorems, TLAPS

-----------------------------------------------------------------------------
(* The clock of the MQTT client.                                          *)

Waiting == {"connect", "backoff"}
Top == Most(ReconnectBase, ReconnectMax)

\* The deadline of the running poll() is that of the next PINGREQ at the latest,
\* and the back-off has not passed its maximum.
Timers ==
    /\ ClockTypeOK
    /\ idle + pollLeft <= Threshold
    /\ backoff <= Top
    /\ BackoffBounded

\* A PINGREQ that is waited for is the one the live broker is about to answer.
Answering ==
    /\ npc \in Waiting => ping = NoPing
    /\ alive /\ ping # NoPing => answer = ping
-----------------------------------------------------------------------------
(* Minima, maxima and ages.                                                *)

\* The smaller of two numbers.
LEMMA LeastOfTwo ==
    ASSUME NEW a \in Int, NEW b \in Int
    PROVE  Least({a, b}) \in {a, b} /\ Least({a, b}) <= a /\ Least({a, b}) <= b
<1>1. \E x \in {a, b} : \A y \in {a, b} : x <= y
  <2>1. CASE a <= b BY <2>1
  <2>2. CASE ~(a <= b) BY <2>2
  <2> QED BY <2>1, <2>2
<1> QED BY <1>1 DEF Least

\* The smallest of three numbers.
LEMMA LeastOfThree ==
    ASSUME NEW a \in Int, NEW b \in Int, NEW c \in Int
    PROVE  LET m == Least({a, b} \cup {c}) IN
           m \in {a, b, c} /\ m <= a /\ m <= b /\ m <= c
<1> DEFINE S == {a, b} \cup {c}
<1>1. \E x \in S : \A y \in S : x <= y
  <2>1. CASE a <= b /\ a <= c BY <2>1
  <2>2. CASE b <= a /\ b <= c BY <2>2
  <2>3. CASE c <= a /\ c <= b BY <2>3
  <2> QED BY <2>1, <2>2, <2>3
<1>2. Least(S) \in S /\ \A y \in S : Least(S) <= y
  BY <1>1 DEF Least
<1> QED BY <1>2

\* An age grows up to its cap and no further.
LEMMA OlderType ==
    ASSUME NEW cap \in Nat, NEW age \in -1 .. cap
    PROVE  Older(age, cap) \in -1 .. cap
<1>1. CASE age = NoPing BY <1>1 DEF Older, NoPing
<1>2. CASE age # NoPing
  BY <1>2, LeastOfTwo, age + 1 \in Int DEF Older, NoPing
<1> QED BY <1>1, <1>2

\* poll() waits for one tick at least, never longer than its cap, and not past the
\* time of the next PINGREQ.
LEMMA PollTimeoutType ==
    ASSUME TimeAssumption, NEW i \in 0 .. Threshold - 1, NEW p \in -1 .. Watchdog + 1
    PROVE  PollTimeout(i, p) \in 1 .. PollCap /\ i + PollTimeout(i, p) <= Threshold
<1> USE DEF TimeAssumption
<1>1. CASE p = NoPing
  <2>1. {PollCap, Threshold - i} \cup {} = {PollCap, Threshold - i} OBVIOUS
  <2>2. PollTimeout(i, p) = Most(1, Least({PollCap, Threshold - i}))
    BY <1>1, <2>1 DEF PollTimeout
  <2> DEFINE m == Least({PollCap, Threshold - i})
  <2>3. m \in {PollCap, Threshold - i} /\ m <= PollCap /\ m <= Threshold - i
    BY LeastOfTwo, PollCap \in Int, Threshold - i \in Int
  <2> HIDE DEF m
  <2>4. PollTimeout(i, p) = Most(1, m) BY <2>2 DEF m
  <2> QED BY <2>3, <2>4 DEF Most
<1>2. CASE p # NoPing
  <2>2. PollTimeout(i, p) = Most(1, Least({PollCap, Threshold - i} \cup {Watchdog - p}))
    BY <1>2 DEF PollTimeout
  <2> DEFINE m == Least({PollCap, Threshold - i} \cup {Watchdog - p})
  <2>3. m \in {PollCap, Threshold - i, Watchdog - p} /\ m <= PollCap /\ m <= Threshold - i
    BY LeastOfThree, PollCap \in Int, Threshold - i \in Int, Watchdog - p \in Int
  <2> HIDE DEF m
  <2>4. PollTimeout(i, p) = Most(1, m) BY <2>2 DEF m
  <2> QED BY <2>3, <2>4 DEF Most
<1> QED BY <1>1, <1>2

\* The wait and the next value of the back-off, whatever the jitter.
LEMMA DelayType ==
    ASSUME TimeAssumption, NEW current \in Nat \ {0}, current <= Top, NEW jitter \in Jitters
    PROVE  /\ Most(1, current + (current * jitter) \div 100) \in Nat
           /\ 10 * Most(1, current + (current * jitter) \div 100) <= 13 * Top
           /\ NextBackoff(current) \in Nat \ {0} /\ NextBackoff(current) <= Top
<1> USE DEF TimeAssumption
<1>1. Top \in Nat \ {0} /\ ReconnectMax <= Top BY DEF Top, Most
<1>2. jitter \in 0 .. 30 OBVIOUS
<1> DEFINE product == current * jitter
           part == product \div 100
<1>3. product \in Nat /\ product <= 30 * current BY <1>2
<1>4. part \in Nat /\ 100 * part <= product
  <2> HIDE DEF product
  <2> QED BY <1>3
<1>5. 10 * (current + part) <= 13 * current
  <2> HIDE DEF product, part
  <2> QED BY <1>3, <1>4
<1>6. /\ Most(1, current + part) \in Nat
      /\ 10 * Most(1, current + part) <= 13 * Top
  <2> HIDE DEF product, part, Top
  <2> QED BY <1>1, <1>4, <1>5 DEF Most
<1>7. NextBackoff(current) \in Nat \ {0} /\ NextBackoff(current) <= Top
  <2> DEFINE m == Least({2 * current, ReconnectMax})
  <2>1. m \in {2 * current, ReconnectMax} /\ m <= ReconnectMax
    BY LeastOfTwo, 2 * current \in Int, ReconnectMax \in Int
  <2>2. NextBackoff(current) = m BY DEF NextBackoff
  <2> HIDE DEF Top, m
  <2> QED BY <1>1, <2>1, <2>2
<1> QED BY <1>6, <1>7
-----------------------------------------------------------------------------
(* The clocks.                                                             *)

\* All clocks are at rest to begin with.
LEMMA InitTimers == ASSUME TimeAssumption PROVE ClockInit => Timers
<1>1. Top \in Nat \ {0} BY DEF TimeAssumption, Top, Most
<1> QED
  BY <1>1 DEF TimeAssumption, ClockInit, Timers, ClockTypeOK, BackoffBounded, NoPing, DetectionTime, Top

\* Giving a connection up asks for a wait within the bounds.
LEMMA DisconnectTimers ==
    ASSUME TimeAssumption, Timers, Disconnect, alive' = alive
    PROVE  Timers'
<1> DEFINE current == IF backoff = 0 THEN ReconnectBase ELSE backoff
<1>1. current \in Nat \ {0} /\ current <= Top
  BY DEF TimeAssumption, Timers, ClockTypeOK, Top, Most
<1>2. PICK jitter \in Jitters :
         /\ delay' = Most(1, current + (current * jitter) \div 100)
         /\ backoff' = NextBackoff(current)
  BY DEF Disconnect
<1> HIDE DEF current
<1>3. /\ delay' \in Nat /\ 10 * delay' <= 13 * Top
      /\ backoff' \in Nat /\ backoff' <= Top
  BY <1>1, <1>2, DelayType
<1>4. BackoffBounded' BY <1>3 DEF BackoffBounded, Top
<1>5. /\ npc' = "backoff" /\ idle' = 0 /\ pollLeft' = 0 /\ waited' = 0
      /\ ping' = -1 /\ answer' = -1 /\ unheard' = -1
  BY DEF Disconnect, WatchdogReset, NoPing
<1>6. ClockTypeOK'
  BY <1>3, <1>5 DEF TimeAssumption, Timers, ClockTypeOK, DetectionTime
<1> QED BY <1>3, <1>4, <1>5, <1>6 DEF Timers, TimeAssumption

\* A round sends PINGREQ in time and does not sleep past the next.
LEMMA RoundTimers == ASSUME TimeAssumption, Timers, Round PROVE Timers'
<1>1. idle' \in 0 .. Threshold - 1 /\ ping' \in -1 .. Watchdog + 1
  BY DEF TimeAssumption, Timers, ClockTypeOK, Round, PingDue
<1>2. pollLeft' \in 1 .. PollCap /\ idle' + pollLeft' <= Threshold
  BY <1>1, PollTimeoutType DEF Round
<1>3. answer' \in -1 .. MaxRtt /\ unheard' \in -1 .. DetectionTime + 1
  BY DEF TimeAssumption, Timers, ClockTypeOK, Round, PingDue, DetectionTime
<1>4. npc' = "poll" /\ UNCHANGED <<backoff, delay, waited, alive>>
  BY DEF Round, waitVars
<1>5. ClockTypeOK' BY <1>1, <1>2, <1>3, <1>4 DEF Timers, ClockTypeOK
<1> QED BY <1>2, <1>4, <1>5 DEF Timers, BackoffBounded, Most

\* Time goes on no further than a poll(), a wait and the live broker allow.
LEMMA TickTimers == ASSUME TimeAssumption, Timers, Tick PROVE Timers'
<1>1. ping' \in -1 .. Watchdog + 1
  BY OlderType, Watchdog + 1 \in Nat DEF TimeAssumption, Timers, ClockTypeOK, Tick
<1>2. unheard' \in -1 .. DetectionTime + 1
  BY OlderType, DetectionTime + 1 \in Nat
  DEF TimeAssumption, Timers, ClockTypeOK, Tick, DetectionTime
<1>3. answer' \in -1 .. MaxRtt
  BY DEF TimeAssumption, Timers, ClockTypeOK, Tick, NoPing
<1>4. UNCHANGED <<npc, backoff, delay, alive>> BY DEF Tick
<1>5. /\ idle' \in Nat /\ pollLeft' \in 0 .. PollCap
      /\ waited' \in 0 .. delay /\ idle' + pollLeft' <= Threshold
  BY DEF Timers, ClockTypeOK, Tick, TimeAssumption
<1>6. ClockTypeOK' BY <1>1, <1>2, <1>3, <1>4, <1>5 DEF Timers, ClockTypeOK
<1> QED BY <1>4, <1>5, <1>6 DEF Timers, BackoffBounded, Most

\* No step spoils the clocks.
LEMMA NextTimers == ASSUME TimeAssumption, Timers, [ClockNext]_clockVars PROVE Timers'
<1> USE DEF Timers, ClockTypeOK, BackoffBounded, NoPing, connVars, waitVars, brokerVars
<1>1. CASE Connected
  BY <1>1 DEF Connected, TimeAssumption, Top, Most
<1>2. CASE ConnectFails BY <1>2, DisconnectTimers DEF ConnectFails
<1>3. CASE BackoffElapsed \/ BackoffInterrupted
  <2>1. BackoffBounded'
    <3>1. delay' = 0 BY <1>3 DEF BackoffElapsed, BackoffInterrupted
    <3> QED BY <3>1 DEF TimeAssumption, Most
  <2>2. ClockTypeOK' BY <1>3 DEF BackoffElapsed, BackoffInterrupted
  <2> QED BY <1>3, <2>1, <2>2 DEF BackoffElapsed, BackoffInterrupted
<1>4. CASE Round BY <1>4, RoundTimers
<1>5. CASE PacketArrives
  BY <1>5 DEF PacketArrives, TimeAssumption, DetectionTime
<1>6. CASE UserSends BY <1>6 DEF UserSends, TimeAssumption
<1>7. CASE PollTimesOut \/ WatchdogQuiet BY <1>7 DEF PollTimesOut, WatchdogQuiet
<1>8. CASE WatchdogFires \/ ConnectionLost
  BY <1>8, DisconnectTimers DEF WatchdogFires, ConnectionLost
<1>9. CASE BrokerFallsSilent \/ BrokerRecovers
  <2>1. CASE BrokerFallsSilent
    <3>1. /\ alive' \in BOOLEAN /\ answer' = -1
          /\ UNCHANGED <<npc, idle, ping, pollLeft, backoff, delay, waited, unheard>>
      BY <2>1 DEF BrokerFallsSilent
    <3>2. ClockTypeOK' BY <3>1 DEF TimeAssumption
    <3> QED BY <3>1, <3>2
  <2>2. CASE BrokerRecovers BY <2>2 DEF BrokerRecovers
  <2> QED BY <1>9, <2>1, <2>2
<1>10. CASE Tick BY <1>10, TickTimers
<1>11. CASE UNCHANGED clockVars BY <1>11 DEF clockVars
<1> QED
  BY <1>1, <1>2, <1>3, <1>4, <1>5, <1>6, <1>7, <1>8, <1>9, <1>10, <1>11 DEF ClockNext

\* The client is never silent for a whole keepalive interval, and the wait before
\* an attempt never exceeds the maximum by more than the jitter (onlineLoop and
\* nextBackoffDelay).
THEOREM TimersAreKept == ASSUME TimeAssumption PROVE ClockSpec => []TimersKept
<1>1. ClockInit => Timers BY InitTimers
<1>2. Timers /\ [ClockNext]_clockVars => Timers' BY NextTimers
<1>3. Timers => TimersKept
  BY DEF Timers, TimersKept, KeepaliveKept, ClockTypeOK, TimeAssumption
<1> QED BY <1>1, <1>2, <1>3, PTL DEF ClockSpec
-----------------------------------------------------------------------------
(* The watchdog.                                                           *)

\* Whatever a step does, an armed watchdog waits for an answer that is on its way.
LEMMA NextAnswering ==
    ASSUME TimeAssumption, Timers, Answering, [ClockNext]_clockVars PROVE Answering'
<1> USE DEF Answering, Waiting, NoPing, connVars, waitVars, brokerVars
<1>1. CASE Connected \/ BackoffElapsed \/ BackoffInterrupted
  BY <1>1 DEF Connected, BackoffElapsed, BackoffInterrupted
<1>2. CASE ConnectFails \/ WatchdogFires \/ ConnectionLost
  BY <1>2 DEF ConnectFails, WatchdogFires, ConnectionLost, Disconnect, WatchdogReset
<1>3. CASE Round BY <1>3 DEF Round
<1>4. CASE PacketArrives BY <1>4 DEF PacketArrives
<1>5. CASE UserSends \/ PollTimesOut \/ WatchdogQuiet
  BY <1>5 DEF UserSends, PollTimesOut, WatchdogQuiet
<1>6. CASE BrokerFallsSilent \/ BrokerRecovers
  BY <1>6 DEF BrokerFallsSilent, BrokerRecovers
<1>7. CASE Tick
  <2>1. alive /\ ping # NoPing => ping + 1 <= Watchdog + 1 /\ ping \in Int
    BY <1>7 DEF Tick, Timers, ClockTypeOK, TimeAssumption
  <2>2. ping # NoPing /\ ping + 1 <= Watchdog + 1 /\ ping \in Int => ping' = ping + 1
    <3> SUFFICES ASSUME ping # NoPing, ping + 1 <= Watchdog + 1, ping \in Int
                 PROVE  ping' = ping + 1
      OBVIOUS
    <3>1. ping' = Least({ping + 1, Watchdog + 1}) BY <1>7 DEF Tick, Older
    <3>2. /\ Least({ping + 1, Watchdog + 1}) \in {ping + 1, Watchdog + 1}
          /\ Least({ping + 1, Watchdog + 1}) <= ping + 1
      BY LeastOfTwo, ping + 1 \in Int, Watchdog + 1 \in Int DEF TimeAssumption
    <3> QED BY <3>1, <3>2 DEF TimeAssumption
  <2>3. ping = NoPing => ping' = NoPing BY <1>7 DEF Tick, Older
  <2>4. UNCHANGED <<npc, alive>> /\ answer' = IF answer = NoPing THEN NoPing ELSE answer + 1
    BY <1>7 DEF Tick
  <2> QED BY <2>1, <2>2, <2>3, <2>4
<1>8. CASE UNCHANGED clockVars BY <1>8 DEF clockVars
<1> QED BY <1>1, <1>2, <1>3, <1>4, <1>5, <1>6, <1>7, <1>8 DEF ClockNext

\* A broker that answers PINGREQ within MaxRtt is never given up by the watchdog,
\* whatever happened on this connection or the one before.
THEOREM LiveBrokerIsKept == ASSUME TimeAssumption PROVE ClockSpec => NoFalseAlarm
<1>1. ClockInit => Timers /\ Answering BY InitTimers DEF ClockInit, Answering, NoPing
<1>2. Timers /\ Answering /\ [ClockNext]_clockVars => (Timers /\ Answering)'
  BY NextTimers, NextAnswering
<1>3. Timers /\ Answering /\ WatchdogFires => ~alive
  BY DEF Timers, ClockTypeOK, Answering, WatchdogFires, WatchdogExpired, TimeAssumption
<1>4. Timers /\ Answering /\ [ClockNext]_clockVars => [WatchdogFires => ~alive]_clockVars
  BY <1>3
<1> QED BY <1>1, <1>2, <1>4, PTL DEF ClockSpec, NoFalseAlarm

-----------------------------------------------------------------------------
(* The serial line.                                                        *)

USE LinkAssumption DEF LinkAssumption
-----------------------------------------------------------------------------
(* Facts about sequences and frames.                                       *)

\* What is left when the first k elements are taken.
LEMMA SplitType ==
    ASSUME NEW S, NEW s \in Seq(S), NEW k \in 1 .. Len(s)
    PROVE  SubSeq(s, 1, k) \in Seq(S) /\ SubSeq(s, k + 1, Len(s)) \in Seq(S)
<1>1. SubSeq(s, 1, k) \in Seq(S)
  OBVIOUS
<1>2. SubSeq(s, k + 1, Len(s)) \in Seq(S)
  OBVIOUS
<1> QED
  BY <1>1, <1>2

\* The first element and the others.
LEMMA HeadTailType ==
    ASSUME NEW S, NEW s \in Seq(S), s # <<>>
    PROVE  Head(s) \in S /\ Tail(s) \in Seq(S)
OBVIOUS

\* The pieces of a frame are units of the line.
LEMMA PiecesType ==
    ASSUME NEW frame \in Frames, NEW bad \in BOOLEAN
    PROVE  Pieces(frame, bad) \in Seq(Units)
<1> DEFINE n == IF frame.exc THEN 1 ELSE 2
           piece(i) == [frame |-> frame, part |-> i, bad |-> bad]
<1>1. n \in {1, 2}
  OBVIOUS
<1>2. \A i \in 1 .. n : piece(i) \in Units
  BY <1>1 DEF Units
<1>3. [i \in 1 .. n |-> piece(i)] \in Seq(Units)
  <2> HIDE DEF n, piece
  <2> QED
    BY <1>1, <1>2
<1> QED
  BY <1>3 DEF Pieces
-----------------------------------------------------------------------------
(* The invariant.                                                          *)

\* A thread that is in a call has an operation and a number.
CallsHaveOps ==
    \A t \in Threads : tpc[t] # "idle" => job[t] \in Ops /\ txn[t] \in 1 .. MaxCalls

BudgetsKept == calls \in 0 .. MaxCalls

LinkInv == TypeOK /\ CallsHaveOps /\ BudgetsKept

\* Nothing has been called and nothing is on the line.
LEMMA InitInv == Init => LinkInv
<1> SUFFICES ASSUME Init PROVE LinkInv
  OBVIOUS
<1> USE DEF Init
<1>1. job \in [Threads -> Ops \cup {NoOp}] /\ result \in [Threads -> Values \cup {"none", "error"}]
  OBVIOUS
<1>2. buf \in Seq(Units) /\ rx \in Seq(Units) /\ wire \in Seq(Units)
  OBVIOUS
<1>3. requests \in Seq([n : 1 .. MaxCalls, thread : Threads, op : Ops])
  OBVIOUS
<1>4. /\ reg \in [Addrs -> Values] /\ mode \in FaultTypes
      /\ txn \in [Threads -> 0 .. MaxCalls] /\ effect \in [Threads -> Values \cup {"none"}]
      /\ stale \subseteq 1 .. MaxCalls
  BY DEF FaultTypes
<1>5. tpc \in [Threads -> {"idle", "lock", "send", "receive"}]
  OBVIOUS
<1>6. CallsHaveOps /\ BudgetsKept
  BY DEF CallsHaveOps, BudgetsKept
<1> QED
  BY <1>1, <1>2, <1>3, <1>4, <1>5, <1>6 DEF LinkInv, TypeOK

\* The calls of the threads.
LEMMA InvokeInv ==
    ASSUME LinkInv, NEW t \in Threads, NEW o \in Ops, Invoke(t, o)
    PROVE  LinkInv'
<1> USE DEF LinkInv, TypeOK
<1>1. tpc' \in [Threads -> {"idle", "lock", "send", "receive"}]
  BY DEF Invoke
<1>2. job' \in [Threads -> Ops \cup {NoOp}]
  BY DEF Invoke
<1>3. calls + 1 \in 1 .. MaxCalls
  BY DEF Invoke, BudgetsKept
<1>4. txn' \in [Threads -> 0 .. MaxCalls]
  BY <1>3 DEF Invoke
<1>5. \A a, b \in Threads :
        tpc'[a] \in {"send", "receive"} /\ tpc'[b] \in {"send", "receive"} => a = b
  BY DEF Invoke
<1>6. CallsHaveOps' /\ BudgetsKept'
  BY <1>3 DEF Invoke, CallsHaveOps, BudgetsKept
<1> QED
  BY <1>1, <1>2, <1>4, <1>5, <1>6 DEF Invoke, lineVars, slaveVars

\* A thread begins only when no other is in a transaction (m_mutex).
LEMMA BeginInv ==
    ASSUME LinkInv, NEW t \in Threads, Begin(t)
    PROVE  LinkInv'
<1> USE DEF LinkInv, TypeOK
<1>1. tpc' \in [Threads -> {"idle", "lock", "send", "receive"}]
  BY DEF Begin
<1>2. \A a, b \in Threads :
        tpc'[a] \in {"send", "receive"} /\ tpc'[b] \in {"send", "receive"} => a = b
  BY DEF Begin, BusFree
<1>3. buf' \in Seq(Units) /\ rx' \in Seq(Units)
  BY DEF Begin, Flush
<1>4. stale' \subseteq 1 .. MaxCalls
  <2>1. \A i \in DOMAIN rx : rx[i] \in Units
    OBVIOUS
  <2> QED
    BY <2>1 DEF Begin, Units, Frames
<1>5. CallsHaveOps' /\ BudgetsKept'
  BY DEF Begin, CallsHaveOps, BudgetsKept, budgetVars
<1> QED
  BY <1>1, <1>2, <1>3, <1>4, <1>5 DEF Begin, slaveVars

\* The end of a call gives the line back.
LEMMA FinishInv ==
    ASSUME LinkInv, NEW t \in Threads, NEW res \in Values \cup {"error"}, Finish(t, res),
           UNCHANGED <<buf, rx>>
    PROVE  LinkInv'
<1> USE DEF LinkInv, TypeOK
<1>1. tpc' \in [Threads -> {"idle", "lock", "send", "receive"}]
  BY DEF Finish
<1>2. \A a, b \in Threads :
        tpc'[a] \in {"send", "receive"} /\ tpc'[b] \in {"send", "receive"} => a = b
  BY DEF Finish
<1>3. job' \in [Threads -> Ops \cup {NoOp}]
  BY DEF Finish
<1>4. result' \in [Threads -> Values \cup {"none", "error"}]
  BY DEF Finish
<1>5. effect' \in [Threads -> Values \cup {"none"}]
  BY DEF Finish
<1>6. CallsHaveOps' /\ BudgetsKept'
  BY DEF Finish, CallsHaveOps, BudgetsKept
<1> QED
  BY <1>1, <1>2, <1>3, <1>4, <1>5, <1>6 DEF Finish

\* The request of a thread that is in a transaction goes out.
LEMMA SendInv ==
    ASSUME LinkInv, NEW t \in Threads, SendRequest(t)
    PROVE  LinkInv'
<1> USE DEF LinkInv, TypeOK
<1>1. tpc' \in [Threads -> {"idle", "lock", "send", "receive"}]
  BY DEF SendRequest
<1>2. \A a, b \in Threads :
        tpc'[a] \in {"send", "receive"} /\ tpc'[b] \in {"send", "receive"} => a = b
  BY DEF SendRequest
<1>3. [n |-> txn[t], thread |-> t, op |-> job[t]] \in [n : 1 .. MaxCalls, thread : Threads, op : Ops]
  BY DEF SendRequest, CallsHaveOps
<1>4. requests' \in Seq([n : 1 .. MaxCalls, thread : Threads, op : Ops])
  BY <1>3 DEF SendRequest
<1>5. CallsHaveOps' /\ BudgetsKept'
  BY DEF SendRequest, CallsHaveOps, BudgetsKept, budgetVars
<1> QED
  BY <1>1, <1>2, <1>4, <1>5 DEF SendRequest, slaveVars

\* Bytes are taken from the receive buffer.
LEMMA ReceiveInv ==
    ASSUME LinkInv, NEW t \in Threads, ReceiveSome(t)
    PROVE  LinkInv'
<1> USE DEF LinkInv, TypeOK
<1>1. PICK k \in 1 .. Len(rx) :
        buf' = buf \o SubSeq(rx, 1, k) /\ rx' = SubSeq(rx, k + 1, Len(rx))
  BY DEF ReceiveSome
<1>2. SubSeq(rx, 1, k) \in Seq(Units) /\ rx' \in Seq(Units)
  BY <1>1, SplitType
<1>3. buf' \in Seq(Units)
  BY <1>1, <1>2
<1> QED
  BY <1>2, <1>3 DEF ReceiveSome, threadVars, slaveVars, budgetVars, CallsHaveOps, BudgetsKept

\* What a thread does keeps the invariant.
LEMMA MasterInv ==
    ASSUME LinkInv, NEW t \in Threads, MasterStep(t)
    PROVE  LinkInv'
<1>1. CASE Begin(t)
  BY <1>1, BeginInv
<1>2. CASE SendRequest(t)
  BY <1>2, SendInv
<1>3. CASE SendFails(t)
  <2>1. Finish(t, "error") /\ UNCHANGED <<buf, rx>>
    BY <1>3 DEF SendFails
  <2> QED
    BY <2>1, FinishInv
<1>4. CASE ReceiveSome(t)
  BY <1>4, ReceiveInv
<1>5. CASE TimesOut(t)
  <2>1. Finish(t, "error") /\ UNCHANGED <<buf, rx>>
    BY <1>5 DEF TimesOut
  <2> QED
    BY <2>1, FinishInv
<1>6. CASE Verdict(t)
  <2> DEFINE res == IF Answers(t) THEN buf[1].frame.val ELSE "error"
  <2>1. Complete => buf[1] \in Units
    BY DEF LinkInv, TypeOK, Complete
  <2>2. res \in Values \cup {"error"}
    BY <1>6, <2>1 DEF Verdict, Units, Frames
  <2>3. Finish(t, res) /\ UNCHANGED <<buf, rx>>
    BY <1>6 DEF Verdict
  <2> HIDE DEF res
  <2> QED
    BY <2>2, <2>3, FinishInv
<1> QED
  BY <1>1, <1>2, <1>3, <1>4, <1>5, <1>6 DEF MasterStep

\* The slave answers with frames of the line and registers of their kind.
LEMMA SlaveInv ==
    ASSUME LinkInv, SlaveStep
    PROVE  LinkInv'
<1> USE DEF LinkInv, TypeOK
<1> DEFINE r == Head(requests)
<1>1. r \in [n : 1 .. MaxCalls, thread : Threads, op : Ops]
  BY HeadTailType DEF SlaveStep
<1>2. requests' \in Seq([n : 1 .. MaxCalls, thread : Threads, op : Ops])
  <2>1. Tail(requests) \in Seq([n : 1 .. MaxCalls, thread : Threads, op : Ops])
    BY HeadTailType DEF SlaveStep
  <2>2. <<>> \in Seq([n : 1 .. MaxCalls, thread : Threads, op : Ops])
    BY EmptySeq
  <2>3. requests' = Tail(requests) \/ requests' = <<>>
    BY DEF SlaveStep
  <2> QED
    BY <2>1, <2>2, <2>3 DEF SlaveStep
<1>3. CallsHaveOps' /\ BudgetsKept'
  BY DEF SlaveStep, CallsHaveOps, BudgetsKept, threadVars, budgetVars
<1> HIDE DEF r
<1>4. ASSUME HandleFrame(r)
      PROVE  /\ reg' \in [Addrs -> Values] /\ wire' \in Seq(Units)
             /\ effect' \in [Threads -> Values \cup {"none"}]
  <2>1. CASE mode = "no_response"
    BY <1>4, <2>1 DEF HandleFrame, slaveVars
  <2>2. CASE mode # "no_response"
    <3>1. r.op.addr \in Addrs /\ r.op.val \in Values /\ r.op.kind \in {"read", "write"}
      BY <1>1 DEF Ops
    <3>2. Execute(r)
      BY <1>4, <2>2 DEF HandleFrame
    <3>3. reg' \in [Addrs -> Values]
      BY <3>1, <3>2 DEF Execute
    <3>4. effect' \in [Threads -> Values \cup {"none"}]
      BY <1>1, <3>1, <3>2, <3>3 DEF Execute
    <3> DEFINE frame == Answer(r, IF mode = "wrong_slave" THEN "other" ELSE "asked",
                               mode = "exception", reg'[r.op.addr])
    <3>5. frame \in Frames
      BY <1>1, <3>1, <3>3 DEF Answer, Frames
    <3>6. wire' = wire \o Pieces(frame, mode = "crc")
      BY <1>4, <2>2 DEF HandleFrame
    <3> HIDE DEF frame
    <3>7. Pieces(frame, mode = "crc") \in Seq(Units)
      BY <3>5, PiecesType
    <3>8. wire' \in Seq(Units)
      BY <3>6, <3>7
    <3> QED
      BY <3>3, <3>4, <3>8
  <2> QED
    BY <2>1, <2>2
<1>5. /\ reg' \in [Addrs -> Values] /\ wire' \in Seq(Units)
      /\ effect' \in [Threads -> Values \cup {"none"}]
  BY <1>4 DEF SlaveStep, slaveVars, r
<1> QED
  BY <1>2, <1>3, <1>5 DEF SlaveStep, threadVars, budgetVars

\* The line loses and damages units, and never makes others.
LEMMA LineInv ==
    ASSUME LinkInv, Arrives \/ IsLost \/ IsDamaged
    PROVE  LinkInv'
<1> USE DEF LinkInv, TypeOK
<1>1. CASE Arrives
  <2>1. Head(wire) \in Units /\ Tail(wire) \in Seq(Units)
    BY <1>1, HeadTailType DEF Arrives
  <2>2. rx' \in Seq(Units) /\ wire' \in Seq(Units)
    BY <1>1, <2>1 DEF Arrives
  <2> QED
    BY <1>1, <2>2 DEF Arrives, threadVars, slaveVars, budgetVars, CallsHaveOps, BudgetsKept
<1>2. CASE IsLost
  <2>1. wire' \in Seq(Units)
    <3>1. wire # <<>> => Tail(wire) \in Seq(Units)
      BY HeadTailType
    <3>2. (wire # <<>> /\ wire' = Tail(wire)) \/ wire' = wire
      BY <1>2 DEF IsLost
    <3> QED
      BY <3>1, <3>2
  <2> DEFINE Requests == [n : 1 .. MaxCalls, thread : Threads, op : Ops]
  <2>2. requests' \in Seq(Requests)
    <3>1. (requests # <<>> /\ requests' = Tail(requests)) \/ requests' = requests
      BY <1>2 DEF IsLost
    <3>2. requests \in Seq(Requests)
      OBVIOUS
    <3> HIDE DEF Requests
    <3>3. requests # <<>> => Tail(requests) \in Seq(Requests)
      BY <3>2, HeadTailType
    <3> QED
      BY <3>1, <3>2, <3>3
  <2> QED
    BY <1>2, <2>1, <2>2 DEF IsLost, threadVars, slaveVars, CallsHaveOps, BudgetsKept
<1>3. CASE IsDamaged
  <2>1. wire[1] \in Units
    BY <1>3 DEF IsDamaged
  <2>2. [wire[1] EXCEPT !.bad = TRUE] \in Units
    BY <2>1 DEF Units
  <2>3. wire' \in Seq(Units)
    BY <1>3, <2>2 DEF IsDamaged
  <2> QED
    BY <1>3, <2>3 DEF IsDamaged, threadVars, slaveVars, CallsHaveOps, BudgetsKept
<1> QED
  BY <1>1, <1>2, <1>3
\* Every step keeps it.
LEMMA StepInv ==
    ASSUME LinkInv, [Next]_vars
    PROVE  LinkInv'
<1>1. ASSUME NEW t \in Threads, MasterStep(t) PROVE LinkInv'
  BY <1>1, MasterInv
<1>2. ASSUME NEW t \in Threads, NEW o \in Ops, Invoke(t, o) PROVE LinkInv'
  BY <1>2, InvokeInv
<1>3. CASE SlaveStep
  BY <1>3, SlaveInv
<1>4. ASSUME NEW m \in FaultTypes, InjectFault(m) PROVE LinkInv'
  BY <1>4 DEF InjectFault, LinkInv, TypeOK, CallsHaveOps, BudgetsKept,
              threadVars, lineVars, slaveVars
<1>5. CASE Arrives \/ IsLost \/ IsDamaged
  BY <1>5, LineInv
<1>6. CASE UNCHANGED vars
  BY <1>6 DEF vars, LinkInv, TypeOK, CallsHaveOps, BudgetsKept,
              threadVars, lineVars, slaveVars, budgetVars
<1> QED
  BY <1>1, <1>2, <1>3, <1>4, <1>5, <1>6 DEF Next

\* For any number of threads, at most one is between sending its request and
\* the end of its transaction, and the line carries only units of frames: the
\* mutex of doTransaction.
THEOREM LinkTypeCorrect == Spec => []TypeOK
<1>1. LinkInv /\ [Next]_vars => LinkInv'
  BY StepInv
<1>2. LinkInv => TypeOK
  BY DEF LinkInv
<1> QED
  BY InitInv, <1>1, <1>2, PTL DEF Spec
-----------------------------------------------------------------------------
(* Whose answer is accepted.  A whole answer begins with a first piece, and *)

(* a transaction sends one request, which is answered with one first piece, *)
(* ahead of the second.  So a transaction that has left a piece in the      *)
(* receive buffer, which Begin empties, has no first piece left anywhere.   *)

Elems(s) == {s[i] : i \in 1 .. Len(s)}
Numbers(s) == {p.frame.n : p \in Elems(s)}

\* The transactions of the pieces that are about, or were flushed last.
Used == stale \cup Numbers(rx) \cup Numbers(wire)
InHand(t) == tpc[t] \in {"lock", "send"}

\* What has not been answered: the requests on their way, and those to come.
OneRequest ==
    /\ \A i \in 1 .. Len(requests) : requests[i].n \notin Used
    /\ \A i, j \in 1 .. Len(requests) : requests[i].n = requests[j].n => i = j
    /\ \A t \in Threads : InHand(t) =>
          txn[t] \notin Used /\ \A i \in 1 .. Len(requests) : requests[i].n # txn[t]
    /\ \A t, u \in Threads : InHand(t) /\ InHand(u) /\ txn[t] = txn[u] => t = u

\* All numbers have been given out.
NumbersCalled ==
    /\ Used \subseteq 1 .. calls
    /\ \A t \in Threads : txn[t] <= calls
    /\ \A i \in 1 .. Len(requests) : requests[i].n <= calls

\* No piece of a transaction is ahead of its first piece.
FirstPiecesFirst ==
    /\ \A i, j \in 1 .. Len(wire) :
          i < j /\ wire[j].part = 1 => wire[i].frame.n # wire[j].frame.n
    /\ \A j \in 1 .. Len(wire) : wire[j].part = 1 => wire[j].frame.n \notin Numbers(rx)

\* Of a transaction that has left something in the receive buffer, no first
\* piece is to come.
StaleBegun ==
    \A p \in Elems(buf) \cup Elems(rx) \cup Elems(wire) : p.part = 1 => p.frame.n \notin stale

ResidueInv == OneRequest /\ NumbersCalled /\ FirstPiecesFirst /\ StaleBegun

\* The elements of a sequence that has been taken apart or put together.
LEMMA ElemsOf ==
    ASSUME NEW S, NEW s \in Seq(S)
    PROVE  /\ \A x \in S : Elems(Append(s, x)) = Elems(s) \cup {x}
           /\ s # <<>> => /\ Elems(s) = Elems(Tail(s)) \cup {Head(s)}
                          /\ Head(s) = s[1] /\ Head(s) \in Elems(s)
           /\ \A t \in Seq(S) : Elems(s \o t) = Elems(s) \cup Elems(t)
           /\ Elems(s) \subseteq S
           /\ Elems(<<>>) = {}
<1> USE DEF Elems
<1>1. ASSUME NEW x \in S PROVE Elems(Append(s, x)) = Elems(s) \cup {x}
  <2>1. Len(Append(s, x)) = Len(s) + 1 /\ Append(s, x)[Len(s) + 1] = x
    OBVIOUS
  <2>2. \A i \in 1 .. Len(s) : Append(s, x)[i] = s[i]
    OBVIOUS
  <2>3. 1 .. Len(s) + 1 = 1 .. Len(s) \cup {Len(s) + 1}
    OBVIOUS
  <2> HIDE DEF Elems
  <2>4. Elems(Append(s, x)) = {Append(s, x)[i] : i \in 1 .. Len(s) + 1}
    BY <2>1 DEF Elems
  <2> QED
    BY <2>1, <2>2, <2>3, <2>4 DEF Elems
<1>2. ASSUME s # <<>>
      PROVE  Elems(s) = Elems(Tail(s)) \cup {Head(s)} /\ Head(s) = s[1] /\ Head(s) \in Elems(s)
  <2>1. Len(s) \in Nat /\ Len(s) > 0 /\ Head(s) = s[1] /\ Len(Tail(s)) = Len(s) - 1
    BY <1>2
  <2>2. \A i \in 1 .. Len(s) - 1 : Tail(s)[i] = s[i + 1]
    BY <1>2
  <2>3. \A i \in 1 .. Len(s) : i = 1 \/ (i - 1 \in 1 .. Len(s) - 1 /\ Tail(s)[i - 1] = s[i])
    BY <2>1, <2>2
  <2>4. \A i \in 1 .. Len(s) : s[i] \in Elems(Tail(s)) \cup {Head(s)}
    BY <2>1, <2>3
  <2>5. \A i \in 1 .. Len(Tail(s)) : Tail(s)[i] \in Elems(s)
    BY <2>1, <2>2
  <2>6. s[1] \in Elems(s)
    BY <2>1
  <2> QED
    BY <2>1, <2>4, <2>5, <2>6
<1>3. ASSUME NEW t \in Seq(S) PROVE Elems(s \o t) = Elems(s) \cup Elems(t)
  <2>1. Len(s \o t) = Len(s) + Len(t) /\ Len(s) \in Nat /\ Len(t) \in Nat
    OBVIOUS
  <2>2. \A i \in 1 .. Len(s) : (s \o t)[i] = s[i] /\ i \in 1 .. Len(s \o t)
    OBVIOUS
  <2>3. \A i \in 1 .. Len(t) : (s \o t)[Len(s) + i] = t[i] /\ Len(s) + i \in 1 .. Len(s \o t)
    OBVIOUS
  <2>4. \A i \in 1 .. Len(s \o t) : i \in 1 .. Len(s) \/ i - Len(s) \in 1 .. Len(t)
    BY <2>1
  <2>5. \A i \in 1 .. Len(s \o t) : (s \o t)[i] \in Elems(s) \cup Elems(t)
    <3> TAKE i \in 1 .. Len(s \o t)
    <3>1. CASE i \in 1 .. Len(s)
      BY <2>2, <3>1
    <3>2. CASE i - Len(s) \in 1 .. Len(t)
      <4>1. (s \o t)[Len(s) + (i - Len(s))] = t[i - Len(s)]
        BY <2>3, <3>2
      <4>2. Len(s) + (i - Len(s)) = i
        BY <2>1
      <4> QED
        BY <3>2, <4>1, <4>2
    <3> QED
      BY <2>4, <3>1, <3>2
  <2>6. Elems(s) \cup Elems(t) \subseteq Elems(s \o t)
    BY <2>2, <2>3
  <2> QED
    BY <2>5, <2>6
<1>4. Elems(s) \subseteq S /\ Elems(<<>>) = {}
  OBVIOUS
<1> QED
  BY <1>1, <1>2, <1>3, <1>4

\* The elements of what is left when the first k are taken.
LEMMA ElemsSplit ==
    ASSUME NEW S, NEW s \in Seq(S), NEW k \in 1 .. Len(s)
    PROVE  Elems(SubSeq(s, 1, k)) \subseteq Elems(s) /\ Elems(SubSeq(s, k + 1, Len(s))) \subseteq Elems(s)
<1>1. Len(SubSeq(s, 1, k)) = k /\ \A i \in 1 .. k : SubSeq(s, 1, k)[i] = s[i] /\ i \in 1 .. Len(s)
  OBVIOUS
<1>2. /\ Len(SubSeq(s, k + 1, Len(s))) = Len(s) - k
      /\ \A i \in 1 .. Len(s) - k :
            SubSeq(s, k + 1, Len(s))[i] = s[k + i] /\ k + i \in 1 .. Len(s)
  OBVIOUS
<1> QED
  BY <1>1, <1>2 DEF Elems

Requests == [n : 1 .. MaxCalls, thread : Threads, op : Ops]

\* Numbers of a part are numbers of the whole.
LEMMA NumbersMonotonic ==
    ASSUME NEW s, NEW t, Elems(s) \subseteq Elems(t)
    PROVE  Numbers(s) \subseteq Numbers(t)
BY DEF Numbers

\* The requests that are left are some of those that were there, once each.
LEMMA FewerRequests ==
    ASSUME NEW s \in Seq(Requests), NEW t, t = s \/ t = <<>> \/ (s # <<>> /\ t = Tail(s))
    PROVE  /\ \A j \in 1 .. Len(t) : \E i \in 1 .. Len(s) : t[j] = s[i]
           /\ (\A i, j \in 1 .. Len(s) : s[i].n = s[j].n => i = j)
              => \A i, j \in 1 .. Len(t) : t[i].n = t[j].n => i = j
<1>1. CASE t = s
  BY <1>1
<1>2. CASE t = <<>>
  BY <1>2
<1>3. CASE s # <<>> /\ t = Tail(s)
  <2>1. \A j \in 1 .. Len(t) : j + 1 \in 1 .. Len(s) /\ t[j] = s[j + 1]
    BY <1>3
  <2>2. \A i, j \in 1 .. Len(t) : i + 1 = j + 1 => i = j
    BY <1>3
  <2> QED
    BY <2>1, <2>2
<1> QED
  BY <1>1, <1>2, <1>3

\* A step that leaves the answers alone and takes up no number.
LEMMA AnswersLeft ==
    ASSUME LinkInv, ResidueInv, UNCHANGED <<buf, rx, wire, stale, calls, txn>>,
           \A t \in Threads : InHand(t)' => InHand(t),
           \/ requests' = requests \/ requests' = <<>>
           \/ requests # <<>> /\ requests' = Tail(requests)
    PROVE  ResidueInv'
<1> USE DEF ResidueInv
<1>1. requests \in Seq(Requests)
  BY DEF LinkInv, TypeOK, Requests
<1>2. /\ \A j \in 1 .. Len(requests') : \E i \in 1 .. Len(requests) : requests'[j] = requests[i]
      /\ \A i, j \in 1 .. Len(requests') : requests'[i].n = requests'[j].n => i = j
  BY <1>1, FewerRequests DEF OneRequest
<1>3. OneRequest'
  <2>1. Used' = Used
    BY DEF Used
  <2>2. \A j \in 1 .. Len(requests') : requests'[j].n \notin Used'
    BY <1>2, <2>1 DEF OneRequest
  <2>3. ASSUME NEW t \in Threads, InHand(t)'
        PROVE  txn'[t] \notin Used' /\ \A j \in 1 .. Len(requests') : requests'[j].n # txn'[t]
    BY <1>2, <2>1, <2>3 DEF OneRequest
  <2>4. \A t, u \in Threads : InHand(t)' /\ InHand(u)' /\ txn'[t] = txn'[u] => t = u
    BY DEF OneRequest
  <2> QED
    BY <1>2, <2>2, <2>3, <2>4 DEF OneRequest
<1>4. NumbersCalled'
  <2>1. Used' = Used
    BY DEF Used
  <2> QED
    BY <1>2, <2>1 DEF NumbersCalled
<1>5. FirstPiecesFirst' /\ StaleBegun'
  BY DEF FirstPiecesFirst, StaleBegun
<1> QED
  BY <1>3, <1>4, <1>5

\* A new call takes a number that nobody has seen.
LEMMA InvokeResidue ==
    ASSUME LinkInv, ResidueInv, NEW t \in Threads, NEW o \in Ops, Invoke(t, o)
    PROVE  ResidueInv'
<1> USE DEF ResidueInv
<1>1. /\ txn' = [txn EXCEPT ![t] = calls + 1] /\ calls' = calls + 1 /\ calls \in Nat
      /\ tpc' = [tpc EXCEPT ![t] = "lock"] /\ tpc[t] = "idle"
      /\ UNCHANGED <<buf, rx, wire, stale, requests>>
      /\ txn \in [Threads -> 0 .. MaxCalls]
      /\ tpc \in [Threads -> {"idle", "lock", "send", "receive"}]
  BY DEF Invoke, lineVars, LinkInv, TypeOK, BudgetsKept
<1>2. requests \in Seq(Requests)
  BY DEF LinkInv, TypeOK, Requests
<1>3. \A i \in 1 .. Len(requests) : requests[i].n \in Nat
  <2>1. \A r \in Requests : r.n \in Nat
    BY DEF Requests
  <2>2. \A i \in 1 .. Len(requests) : requests[i] \in Requests
    BY <1>2
  <2> QED
    BY <2>1, <2>2
<1>4. \A u \in Threads : u # t => (InHand(u)' <=> InHand(u)) /\ txn'[u] = txn[u]
  BY <1>1 DEF InHand
<1>5. Used' = Used
  BY <1>1 DEF Used
<1>6. calls + 1 \notin Used /\ \A i \in 1 .. Len(requests) : requests[i].n # calls + 1
  BY <1>1, <1>3 DEF NumbersCalled, Used
<1>7. \A u \in Threads : txn[u] # calls + 1
  BY <1>1 DEF NumbersCalled
<1>8. OneRequest'
  <2>1. /\ \A i \in 1 .. Len(requests') : requests'[i].n \notin Used'
        /\ \A i, j \in 1 .. Len(requests') : requests'[i].n = requests'[j].n => i = j
    BY <1>1, <1>5 DEF OneRequest
  <2>2. ASSUME NEW u \in Threads, InHand(u)'
        PROVE  txn'[u] \notin Used' /\ \A i \in 1 .. Len(requests') : requests'[i].n # txn'[u]
    <3>1. CASE u = t
      BY <1>1, <1>5, <1>6, <3>1
    <3>2. CASE u # t
      BY <1>1, <1>4, <1>5, <2>2, <3>2 DEF OneRequest
    <3> QED
      BY <3>1, <3>2
  <2>3. ASSUME NEW u \in Threads, NEW v \in Threads, InHand(u)', InHand(v)', txn'[u] = txn'[v]
        PROVE  u = v
    <3>1. CASE u = t /\ v # t
      BY <1>1, <1>4, <1>7, <2>3, <3>1
    <3>2. CASE u # t /\ v = t
      BY <1>1, <1>4, <1>7, <2>3, <3>2
    <3>3. CASE u # t /\ v # t
      BY <1>4, <2>3, <3>3 DEF OneRequest
    <3> QED
      BY <3>1, <3>2, <3>3
  <2> QED
    BY <2>1, <2>2, <2>3 DEF OneRequest
<1>9. NumbersCalled'
  <2>1. 1 .. calls \subseteq 1 .. calls + 1
    BY <1>1
  <2>2. \A u \in Threads : txn'[u] <= calls + 1
    BY <1>1 DEF NumbersCalled
  <2>3. \A i \in 1 .. Len(requests) : requests[i].n <= calls + 1
    BY <1>1, <1>3 DEF NumbersCalled
  <2> QED
    BY <1>1, <2>1, <2>2, <2>3 DEF NumbersCalled, Used
<1>10. FirstPiecesFirst' /\ StaleBegun'
  BY <1>1 DEF FirstPiecesFirst, StaleBegun
<1> QED
  BY <1>8, <1>9, <1>10

\* The flush: what was in the receive buffer is stale now.
LEMMA BeginResidue ==
    ASSUME LinkInv, ResidueInv, NEW t \in Threads, Begin(t)
    PROVE  ResidueInv'
<1> USE DEF ResidueInv
<1>1. /\ rx' = <<>> /\ buf' = <<>> /\ UNCHANGED <<wire, requests, txn, calls>>
      /\ tpc' = [tpc EXCEPT ![t] = "send"] /\ tpc[t] = "lock"
      /\ tpc \in [Threads -> {"idle", "lock", "send", "receive"}]
  BY DEF Begin, Flush, budgetVars, LinkInv, TypeOK
<1>2. stale' = Numbers(rx)
  <2>1. rx \in Seq(Units)
    BY DEF LinkInv, TypeOK
  <2> QED
    BY <2>1 DEF Begin, Numbers, Elems
<1>3. Numbers(rx') = {} /\ Elems(rx') = {} /\ Elems(buf') = {}
  BY <1>1 DEF Numbers, Elems
<1>4. \A u \in Threads : InHand(u)' <=> InHand(u)
  BY <1>1 DEF InHand
<1>5. Used' \subseteq Used
  BY <1>1, <1>2, <1>3 DEF Used
<1>6. OneRequest'
  BY <1>1, <1>4, <1>5 DEF OneRequest
<1>7. NumbersCalled'
  BY <1>1, <1>2, <1>3 DEF NumbersCalled, Used
<1>8. FirstPiecesFirst'
  BY <1>1, <1>3 DEF FirstPiecesFirst
<1>9. StaleBegun'
  <2>1. \A p \in Elems(wire) : p.part = 1 => p.frame.n \notin Numbers(rx)
    BY DEF FirstPiecesFirst, Elems
  <2> QED
    BY <1>1, <1>2, <1>3, <2>1 DEF StaleBegun
<1> QED
  BY <1>6, <1>7, <1>8, <1>9

\* The one request of a transaction.
LEMMA SendResidue ==
    ASSUME LinkInv, ResidueInv, NEW t \in Threads, SendRequest(t)
    PROVE  ResidueInv'
<1> USE DEF ResidueInv
<1> DEFINE r == [n |-> txn[t], thread |-> t, op |-> job[t]]
<1>1. /\ requests' = Append(requests, r) /\ tpc[t] = "send"
      /\ tpc' = [tpc EXCEPT ![t] = "receive"]
      /\ UNCHANGED <<buf, rx, wire, stale, calls, txn>>
      /\ tpc \in [Threads -> {"idle", "lock", "send", "receive"}]
  BY DEF SendRequest, budgetVars, LinkInv, TypeOK
<1>2. requests \in Seq(Requests) /\ r \in Requests
  BY DEF LinkInv, TypeOK, Requests, SendRequest, CallsHaveOps
<1>3. r.n = txn[t]
  OBVIOUS
<1> HIDE DEF r
<1>4. \A i \in 1 .. Len(requests') :
        (i \in 1 .. Len(requests) /\ requests'[i] = requests[i])
        \/ (i = Len(requests) + 1 /\ requests'[i] = r)
  BY <1>1, <1>2
<1>5. \A u \in Threads : InHand(u)' => InHand(u) /\ u # t
  BY <1>1 DEF InHand
<1>6. InHand(t)
  BY <1>1 DEF InHand
<1>7. Used' = Used
  BY <1>1 DEF Used
<1>8. OneRequest'
  <2>1. ASSUME NEW i \in 1 .. Len(requests') PROVE requests'[i].n \notin Used'
    BY <1>3, <1>4, <1>6, <1>7 DEF OneRequest
  <2>2. ASSUME NEW i \in 1 .. Len(requests'), NEW j \in 1 .. Len(requests'),
               requests'[i].n = requests'[j].n
        PROVE  i = j
    <3>1. CASE i \in 1 .. Len(requests) /\ j \in 1 .. Len(requests)
      <4>1. requests'[i] = requests[i] /\ requests'[j] = requests[j]
        BY <1>1, <1>2, <3>1
      <4> QED
        BY <2>2, <3>1, <4>1 DEF OneRequest
    <3>2. CASE i \in 1 .. Len(requests) /\ j = Len(requests) + 1
      <4>1. requests'[i] = requests[i] /\ requests'[j] = r
        BY <1>1, <1>2, <3>2
      <4> QED
        BY <1>3, <1>6, <2>2, <3>2, <4>1 DEF OneRequest
    <3>3. CASE i = Len(requests) + 1 /\ j \in 1 .. Len(requests)
      <4>1. requests'[j] = requests[j] /\ requests'[i] = r
        BY <1>1, <1>2, <3>3
      <4> QED
        BY <1>3, <1>6, <2>2, <3>3, <4>1 DEF OneRequest
    <3> QED
      BY <1>4, <3>1, <3>2, <3>3
  <2>3. ASSUME NEW u \in Threads, InHand(u)'
        PROVE  txn'[u] \notin Used' /\ \A i \in 1 .. Len(requests') : requests'[i].n # txn'[u]
    <3>1. InHand(u) /\ txn[u] # txn[t]
      BY <1>5, <1>6, <2>3 DEF OneRequest
    <3> QED
      BY <1>1, <1>3, <1>4, <1>7, <3>1 DEF OneRequest
  <2>4. \A u, v \in Threads : InHand(u)' /\ InHand(v)' /\ txn'[u] = txn'[v] => u = v
    BY <1>1, <1>5 DEF OneRequest
  <2> QED
    BY <2>1, <2>2, <2>3, <2>4 DEF OneRequest
<1>9. NumbersCalled'
  BY <1>1, <1>3, <1>4 DEF NumbersCalled, Used
<1>10. FirstPiecesFirst' /\ StaleBegun'
  BY <1>1 DEF FirstPiecesFirst, StaleBegun
<1> QED
  BY <1>8, <1>9, <1>10

\* Pieces move from the receive buffer to the answer.
LEMMA ReceiveResidue ==
    ASSUME LinkInv, ResidueInv, NEW t \in Threads, ReceiveSome(t)
    PROVE  ResidueInv'
<1> USE DEF ResidueInv
<1>1. PICK k \in 1 .. Len(rx) :
        buf' = buf \o SubSeq(rx, 1, k) /\ rx' = SubSeq(rx, k + 1, Len(rx))
  BY DEF ReceiveSome
<1>2. /\ UNCHANGED <<wire, requests, stale, calls, txn, tpc>>
      /\ rx \in Seq(Units) /\ buf \in Seq(Units)
  BY DEF ReceiveSome, threadVars, budgetVars, LinkInv, TypeOK
<1>3. Elems(rx') \subseteq Elems(rx) /\ Elems(buf') \subseteq Elems(buf) \cup Elems(rx)
  <2>1. SubSeq(rx, 1, k) \in Seq(Units)
    BY <1>2, SplitType
  <2>2. \A u \in Seq(Units) : Elems(buf \o u) = Elems(buf) \cup Elems(u)
    BY <1>2, ElemsOf
  <2>3. Elems(buf \o SubSeq(rx, 1, k)) = Elems(buf) \cup Elems(SubSeq(rx, 1, k))
    BY <2>1, <2>2
  <2>4. Elems(buf') = Elems(buf) \cup Elems(SubSeq(rx, 1, k))
    BY <1>1, <2>3
  <2> QED
    BY <1>1, <1>2, <2>4, ElemsSplit
<1>4. Numbers(rx') \subseteq Numbers(rx) /\ Used' \subseteq Used
  BY <1>2, <1>3, NumbersMonotonic DEF Used
<1>5. OneRequest'
  BY <1>2, <1>4 DEF OneRequest, InHand
<1>6. NumbersCalled'
  BY <1>2, <1>4 DEF NumbersCalled
<1>7. FirstPiecesFirst'
  BY <1>2, <1>4 DEF FirstPiecesFirst
<1>8. StaleBegun'
  BY <1>2, <1>3 DEF StaleBegun
<1> QED
  BY <1>5, <1>6, <1>7, <1>8

\* What the pieces of a frame are.
LEMMA PiecesAre ==
    ASSUME NEW frame \in Frames, NEW bad \in BOOLEAN
    PROVE  /\ \A i \in 1 .. Len(Pieces(frame, bad)) :
                 /\ Pieces(frame, bad)[i].frame = frame /\ Pieces(frame, bad)[i].part = i
           /\ Elems(Pieces(frame, bad)) \subseteq [frame : {frame}, part : {1, 2}, bad : {bad}]
           /\ Numbers(Pieces(frame, bad)) \subseteq {frame.n}
<1> DEFINE n == IF frame.exc THEN 1 ELSE 2
           p == Pieces(frame, bad)
<1>1. n \in {1, 2} /\ p = [i \in 1 .. n |-> [frame |-> frame, part |-> i, bad |-> bad]]
  BY DEF Pieces
<1> HIDE DEF n, p
<1>2. Len(p) = n /\ \A i \in 1 .. n : p[i] = [frame |-> frame, part |-> i, bad |-> bad]
  BY <1>1
<1>3. \A i \in 1 .. Len(p) : p[i].frame = frame /\ p[i].part = i
  BY <1>2
<1>4. Elems(p) \subseteq [frame : {frame}, part : {1, 2}, bad : {bad}]
  BY <1>1, <1>2 DEF Elems
<1>5. Numbers(p) \subseteq {frame.n}
  BY <1>4 DEF Numbers
<1> QED
  BY <1>3, <1>4, <1>5 DEF p

\* The answer to a request: its pieces are the only ones of its transaction.
LEMMA AnswerResidue ==
    ASSUME LinkInv, LinkInv', ResidueInv, requests # <<>>, requests' = Tail(requests),
           UNCHANGED <<buf, rx, stale, calls, txn, tpc>>,
           NEW frame \in Frames, frame.n = Head(requests).n, NEW bad \in BOOLEAN,
           wire' = wire \o Pieces(frame, bad)
    PROVE  ResidueInv'
<1> USE DEF ResidueInv
<1> DEFINE r == Head(requests)
           p == Pieces(frame, bad)
<1>1. requests \in Seq(Requests) /\ wire \in Seq(Units) /\ rx \in Seq(Units) /\ buf \in Seq(Units)
  BY DEF LinkInv, TypeOK, Requests
<1>2. p \in Seq(Units)
  BY PiecesType
<1>3. /\ \A i \in 1 .. Len(p) : p[i].frame = frame /\ p[i].part = i
      /\ Elems(p) \subseteq [frame : {frame}, part : {1, 2}, bad : {bad}]
      /\ Numbers(p) \subseteq {frame.n}
  BY PiecesAre
<1>4. r = requests[1] /\ r.n = frame.n
  BY <1>1
<1>5. 1 \in 1 .. Len(requests)
  BY <1>1
<1>6. r.n \notin Used /\ r.n <= calls /\ \A t \in Threads : InHand(t) => txn[t] # r.n
  BY <1>4, <1>5 DEF OneRequest, NumbersCalled
<1>7. \A j \in 1 .. Len(requests') : requests'[j] = requests[j + 1] /\ j + 1 \in 1 .. Len(requests) /\ j + 1 # 1
  BY <1>1
<1> HIDE DEF r, p
<1>8. Elems(wire') = Elems(wire) \cup Elems(p)
  BY <1>1, <1>2, ElemsOf DEF p
<1>9. Numbers(wire') \subseteq Numbers(wire) \cup {r.n} /\ Used' \subseteq Used \cup {r.n}
  <2>1. Numbers(wire') \subseteq Numbers(wire) \cup {r.n}
    BY <1>3, <1>4, <1>8 DEF Numbers
  <2> QED
    BY <2>1 DEF Used
<1>10. \A j \in 1 .. Len(requests') : requests'[j].n # r.n
  BY <1>4, <1>5, <1>7 DEF OneRequest
<1>11. OneRequest'
  <2>1. \A j \in 1 .. Len(requests') : requests'[j].n \notin Used'
    BY <1>7, <1>9, <1>10 DEF OneRequest
  <2>2. ASSUME NEW i \in 1 .. Len(requests'), NEW j \in 1 .. Len(requests'),
               requests'[i].n = requests'[j].n
        PROVE  i = j
    <3>1. i + 1 = j + 1
      <4>1. PICK k \in 1 .. Len(requests) : k = i + 1 /\ requests'[i] = requests[k]
        BY <1>7
      <4>2. PICK l \in 1 .. Len(requests) : l = j + 1 /\ requests'[j] = requests[l]
        BY <1>7
      <4>3. k = l
        BY <2>2, <4>1, <4>2 DEF OneRequest
      <4> QED
        BY <4>1, <4>2, <4>3
    <3>2. i \in Nat /\ j \in Nat
      OBVIOUS
    <3> QED
      BY <3>1, <3>2
  <2>3. ASSUME NEW u \in Threads, InHand(u)'
        PROVE  txn'[u] \notin Used' /\ \A j \in 1 .. Len(requests') : requests'[j].n # txn'[u]
    <3>1. InHand(u)
      BY <2>3 DEF InHand
    <3> QED
      BY <1>6, <1>7, <1>9, <3>1 DEF OneRequest
  <2>4. \A t, u \in Threads : InHand(t)' /\ InHand(u)' /\ txn'[t] = txn'[u] => t = u
    BY DEF OneRequest, InHand
  <2> QED
    BY <2>1, <2>2, <2>3, <2>4 DEF OneRequest
<1>12. NumbersCalled'
  <2>1. calls \in Nat /\ r.n \in 1 .. MaxCalls
    <3>1. requests[1] \in Requests
      BY <1>1, <1>5
    <3> QED
      BY <1>4, <3>1 DEF LinkInv, BudgetsKept, Requests
  <2>2. r.n \in 1 .. calls
    BY <1>6, <2>1
  <2> QED
    BY <1>7, <1>9, <2>2 DEF NumbersCalled
<1>13. FirstPiecesFirst'
  <2>1. \A i \in 1 .. Len(wire) : wire'[i] = wire[i] /\ wire[i].frame.n \in Numbers(wire)
    <3>1. \A i \in 1 .. Len(wire) : wire'[i] = wire[i]
      BY <1>1, <1>2 DEF p
    <3> QED
      BY <3>1 DEF Numbers, Elems
  <2>2. \A i \in 1 .. Len(p) : wire'[Len(wire) + i] = p[i]
    BY <1>1, <1>2 DEF p
  <2>3. Len(wire') = Len(wire) + Len(p) /\ Len(wire) \in Nat /\ Len(p) \in Nat
    BY <1>1, <1>2 DEF p
  <2>4. \A j \in 1 .. Len(wire') :
          j \in 1 .. Len(wire) \/ (j - Len(wire) \in 1 .. Len(p) /\ j = Len(wire) + (j - Len(wire)))
    BY <2>3
  <2>5. ASSUME NEW i \in 1 .. Len(wire'), NEW j \in 1 .. Len(wire'), i < j, wire'[j].part = 1
        PROVE  wire'[i].frame.n # wire'[j].frame.n
    <3>1. CASE j \in 1 .. Len(wire)
      <4>1. i \in 1 .. Len(wire)
        BY <2>5, <2>3, <3>1
      <4> QED
        BY <2>1, <2>5, <3>1, <4>1 DEF FirstPiecesFirst
    <3>2. CASE j - Len(wire) \in 1 .. Len(p) /\ j = Len(wire) + (j - Len(wire))
      <4>1. wire'[j] = p[j - Len(wire)]
        BY <2>2, <3>2
      <4>2. j - Len(wire) = 1 /\ wire'[j].frame = frame
        BY <1>3, <2>5, <3>2, <4>1
      <4>3. i \in 1 .. Len(wire)
        BY <2>3, <2>5, <4>2
      <4>4. wire'[i].frame.n \in Numbers(wire)
        BY <2>1, <4>3
      <4> QED
        BY <1>4, <1>6, <4>2, <4>4 DEF Used
    <3> QED
      BY <2>4, <3>1, <3>2
  <2>6. ASSUME NEW j \in 1 .. Len(wire'), wire'[j].part = 1
        PROVE  wire'[j].frame.n \notin Numbers(rx')
    <3>1. CASE j \in 1 .. Len(wire)
      BY <2>1, <2>6, <3>1 DEF FirstPiecesFirst
    <3>2. CASE j - Len(wire) \in 1 .. Len(p) /\ j = Len(wire) + (j - Len(wire))
      <4>1. wire'[j] = p[j - Len(wire)]
        BY <2>2, <3>2
      <4>2. wire'[j].frame = frame
        BY <1>3, <3>2, <4>1
      <4> QED
        BY <1>4, <1>6, <4>2 DEF Used
    <3> QED
      BY <2>4, <3>1, <3>2
  <2> QED
    BY <2>5, <2>6 DEF FirstPiecesFirst
<1>14. StaleBegun'
  <2>1. \A q \in Elems(p) : q.frame.n = r.n
    BY <1>3, <1>4
  <2>2. r.n \notin stale
    BY <1>6 DEF Used
  <2> QED
    BY <1>8, <2>1, <2>2 DEF StaleBegun
<1> QED
  BY <1>11, <1>12, <1>13, <1>14

\* The slave answers each request once at most.
LEMMA SlaveResidue ==
    ASSUME LinkInv, ResidueInv, SlaveStep
    PROVE  ResidueInv'
<1> DEFINE r == Head(requests)
<1>1. requests # <<>> /\ UNCHANGED <<tpc, txn, buf, rx, calls, stale>>
  BY DEF SlaveStep, threadVars, budgetVars
<1>2. requests \in Seq(Requests) /\ r \in Requests
  <2>1. requests \in Seq(Requests)
    BY DEF LinkInv, TypeOK, Requests
  <2> QED
    BY <1>1, <2>1, HeadTailType
<1>3. LinkInv'
  BY SlaveInv
<1>4. CASE UNCHANGED wire
  <2>1. requests' = <<>> \/ (requests # <<>> /\ requests' = Tail(requests))
    BY <1>1 DEF SlaveStep
  <2>2. \A t \in Threads : InHand(t)' => InHand(t)
    BY <1>1 DEF InHand
  <2> QED
    BY <1>1, <1>4, <2>1, <2>2, AnswersLeft
<1>5. CASE ~UNCHANGED wire
  <2>1. requests' = Tail(requests) /\ HandleFrame(r)
    BY <1>5 DEF SlaveStep
  <2> DEFINE frame == Answer(r, IF mode = "wrong_slave" THEN "other" ELSE "asked",
                             mode = "exception", reg'[r.op.addr])
  <2>2. wire' = wire \o Pieces(frame, mode = "crc")
    BY <1>5, <2>1 DEF HandleFrame
  <2>3. frame \in Frames /\ frame.n = r.n
    <3>1. r.op.addr \in Addrs /\ r.op.kind \in {"read", "write"} /\ r.n \in 1 .. MaxCalls
      BY <1>2 DEF Requests, Ops
    <3>2. reg'[r.op.addr] \in Values
      BY <1>3, <3>1 DEF LinkInv, TypeOK
    <3> QED
      BY <3>1, <3>2 DEF Answer, Frames
  <2>4. (mode = "crc") \in BOOLEAN
    OBVIOUS
  <2> HIDE DEF frame
  <2> QED
    BY <1>1, <1>3, <2>1, <2>2, <2>3, <2>4, AnswerResidue
<1> QED
  BY <1>4, <1>5

\* The line keeps the order of the pieces.
LEMMA ArrivesResidue ==
    ASSUME LinkInv, ResidueInv, Arrives
    PROVE  ResidueInv'
<1> USE DEF ResidueInv
<1>1. /\ wire # <<>> /\ rx' = Append(rx, Head(wire)) /\ wire' = Tail(wire)
      /\ UNCHANGED <<tpc, txn, buf, requests, calls, stale>>
      /\ wire \in Seq(Units) /\ rx \in Seq(Units)
  BY DEF Arrives, threadVars, budgetVars, LinkInv, TypeOK
<1>2. Head(wire) \in Units /\ Head(wire) = wire[1]
  BY <1>1, HeadTailType
<1>3. Elems(rx') = Elems(rx) \cup {wire[1]} /\ Elems(wire) = Elems(wire') \cup {wire[1]}
  BY <1>1, <1>2, ElemsOf
<1>4. /\ Numbers(rx') = Numbers(rx) \cup {wire[1].frame.n}
      /\ Numbers(wire) = Numbers(wire') \cup {wire[1].frame.n}
  BY <1>3 DEF Numbers
<1>5. Used' = Used
  BY <1>1, <1>4 DEF Used
<1>6. OneRequest' /\ NumbersCalled'
  BY <1>1, <1>5 DEF OneRequest, NumbersCalled, InHand
<1>7. FirstPiecesFirst'
  <2>1. \A j \in 1 .. Len(wire') :
          wire'[j] = wire[j + 1] /\ j + 1 \in 1 .. Len(wire) /\ 1 < j + 1 /\ j \in Nat
    BY <1>1
  <2>2. 1 \in 1 .. Len(wire)
    BY <1>1
  <2>3. ASSUME NEW i \in 1 .. Len(wire'), NEW j \in 1 .. Len(wire'), i < j, wire'[j].part = 1
        PROVE  wire'[i].frame.n # wire'[j].frame.n
    <3>1. i + 1 < j + 1
      BY <2>1, <2>3
    <3> QED
      BY <2>1, <2>3, <3>1 DEF FirstPiecesFirst
  <2>4. ASSUME NEW j \in 1 .. Len(wire'), wire'[j].part = 1
        PROVE  wire'[j].frame.n \notin Numbers(rx')
    BY <1>4, <2>1, <2>2, <2>4 DEF FirstPiecesFirst
  <2> QED
    BY <2>3, <2>4 DEF FirstPiecesFirst
<1>8. StaleBegun'
  BY <1>1, <1>3 DEF StaleBegun
<1> QED
  BY <1>6, <1>7, <1>8

\* A lost or damaged piece changes nothing about the others.
LEMMA LostResidue ==
    ASSUME LinkInv, ResidueInv, IsLost \/ IsDamaged
    PROVE  ResidueInv'
<1> USE DEF ResidueInv
<1>1. /\ UNCHANGED <<tpc, txn, buf, rx, calls, stale>>
      /\ wire \in Seq(Units) /\ rx \in Seq(Units)
  BY DEF IsLost, IsDamaged, threadVars, LinkInv, TypeOK
<1>2. \A t \in Threads : InHand(t)' <=> InHand(t)
  BY <1>1 DEF InHand
<1>3. CASE UNCHANGED wire
  <2>1. requests' = requests \/ (requests # <<>> /\ requests' = Tail(requests))
    BY <1>3 DEF IsLost, IsDamaged
  <2> QED
    BY <1>1, <1>2, <1>3, <2>1, AnswersLeft
<1>4. CASE /\ UNCHANGED requests /\ wire # <<>>
           /\ \/ wire' = Tail(wire)
              \/ wire' = [wire EXCEPT ![1].bad = TRUE]
  <2>1. PICK d \in {0, 1} : \A j \in 1 .. Len(wire') :
          /\ j + d \in 1 .. Len(wire) /\ j \in Nat
          /\ wire'[j].frame = wire[j + d].frame /\ wire'[j].part = wire[j + d].part
    <3>1. CASE wire' = Tail(wire)
      <4>1. \A j \in 1 .. Len(wire') : j + 1 \in 1 .. Len(wire) /\ j \in Nat /\ wire'[j] = wire[j + 1]
        BY <1>1, <1>4, <3>1
      <4> QED
        BY <4>1
    <3>2. CASE wire' = [wire EXCEPT ![1].bad = TRUE]
      <4>1. Len(wire') = Len(wire) /\ Len(wire) \in Nat
        BY <1>1, <3>2
      <4>2. \A j \in 1 .. Len(wire) : wire[j] \in Units
        BY <1>1
      <4>3. \A j \in 1 .. Len(wire) :
              wire'[j] = IF j = 1 THEN [wire[1] EXCEPT !.bad = TRUE] ELSE wire[j]
        BY <1>1, <3>2
      <4>4. \A j \in 1 .. Len(wire') : /\ j + 0 = j /\ j \in Nat
                                      /\ wire'[j].frame = wire[j].frame /\ wire'[j].part = wire[j].part
        BY <4>1, <4>2, <4>3 DEF Units
      <4> QED
        BY <4>1, <4>4
    <3> QED
      BY <1>4, <3>1, <3>2
  <2>2. \A q \in Elems(wire') : \E p \in Elems(wire) : q.frame = p.frame /\ q.part = p.part
    BY <2>1 DEF Elems
  <2>3. Numbers(wire') \subseteq Numbers(wire) /\ Used' \subseteq Used
    BY <1>1, <2>2 DEF Numbers, Used
  <2>4. OneRequest' /\ NumbersCalled'
    BY <1>1, <1>2, <1>4, <2>3 DEF OneRequest, NumbersCalled
  <2>5. FirstPiecesFirst'
    <3>1. ASSUME NEW i \in 1 .. Len(wire'), NEW j \in 1 .. Len(wire'), i < j, wire'[j].part = 1
          PROVE  wire'[i].frame.n # wire'[j].frame.n
      <4>1. i + d < j + d
        BY <2>1, <3>1
      <4> QED
        BY <2>1, <3>1, <4>1 DEF FirstPiecesFirst
    <3>2. ASSUME NEW j \in 1 .. Len(wire'), wire'[j].part = 1
          PROVE  wire'[j].frame.n \notin Numbers(rx')
      BY <1>1, <2>1, <3>2 DEF FirstPiecesFirst
    <3> QED
      BY <3>1, <3>2 DEF FirstPiecesFirst
  <2>6. StaleBegun'
    BY <1>1, <2>2 DEF StaleBegun
  <2> QED
    BY <2>4, <2>5, <2>6
<1> QED
  BY <1>3, <1>4 DEF IsLost, IsDamaged

\* The end of a transaction, and what a thread does in general.
LEMMA MasterResidue ==
    ASSUME LinkInv, ResidueInv, NEW t \in Threads, MasterStep(t)
    PROVE  ResidueInv'
<1>1. ASSUME NEW res, Finish(t, res), UNCHANGED <<buf, rx>> PROVE ResidueInv'
  <2>1. UNCHANGED <<buf, rx, wire, stale, calls, txn>> /\ requests' = requests
    BY <1>1 DEF Finish
  <2>2. tpc \in [Threads -> {"idle", "lock", "send", "receive"}] /\ tpc' = [tpc EXCEPT ![t] = "idle"]
    BY <1>1 DEF Finish, LinkInv, TypeOK
  <2>3. \A u \in Threads : InHand(u)' => InHand(u)
    BY <2>2 DEF InHand
  <2> QED
    BY <2>1, <2>3, AnswersLeft
<1>2. CASE Begin(t)
  BY <1>2, BeginResidue
<1>3. CASE SendRequest(t)
  BY <1>3, SendResidue
<1>4. CASE SendFails(t) \/ TimesOut(t)
  <2>1. Finish(t, "error") /\ UNCHANGED <<buf, rx>>
    BY <1>4 DEF SendFails, TimesOut
  <2> QED
    BY <1>1, <2>1
<1>5. CASE ReceiveSome(t)
  BY <1>5, ReceiveResidue
<1>6. CASE Verdict(t)
  <2> DEFINE res == IF Answers(t) THEN buf[1].frame.val ELSE "error"
  <2>1. Finish(t, res) /\ UNCHANGED <<buf, rx>>
    BY <1>6 DEF Verdict
  <2> HIDE DEF res
  <2> QED
    BY <1>1, <2>1
<1> QED
  BY <1>2, <1>3, <1>4, <1>5, <1>6 DEF MasterStep

\* The answer that is accepted begins with a first piece.
LEMMA ResidueRefused ==
    ASSUME LinkInv, ResidueInv
    PROVE  LinkSafe
<1>1. ASSUME NEW t \in Threads, Complete, Answers(t) PROVE buf[1].frame.n \notin stale
  <2>1. buf \in Seq(Units) /\ Len(buf) >= 1
    BY <1>1 DEF LinkInv, TypeOK, Complete
  <2>2. buf[1] \in Units /\ buf[1] \in Elems(buf) /\ 1 \in 1 .. Len(buf)
    BY <2>1 DEF Elems
  <2>3. buf[1].frame \in Frames /\ buf = Pieces(buf[1].frame, FALSE)
    BY <1>1, <2>2 DEF Answers, WholeFrame, Units
  <2>4. buf[1].part = 1
    BY <2>2, <2>3, PiecesAre
  <2> QED
    BY <2>2, <2>4 DEF ResidueInv, StaleBegun
<1> QED
  BY <1>1 DEF LinkSafe, ResidueIsNotAccepted, LinkInv

\* Nothing is on the line at first.
LEMMA InitResidue == Init => ResidueInv
<1> SUFFICES ASSUME Init PROVE ResidueInv
  OBVIOUS
<1>1. Elems(buf) = {} /\ Elems(rx) = {} /\ Elems(wire) = {}
  BY DEF Init, Elems
<1>2. Used = {} /\ Numbers(rx) = {}
  BY <1>1 DEF Init, Used, Numbers
<1>3. Len(wire) = 0 /\ Len(requests) = 0 /\ calls = 0 /\ \A t \in Threads : txn[t] = 0 /\ ~InHand(t)
  BY DEF Init, InHand
<1>4. OneRequest /\ NumbersCalled
  BY <1>2, <1>3 DEF OneRequest, NumbersCalled
<1>5. FirstPiecesFirst /\ StaleBegun
  BY <1>1, <1>3 DEF FirstPiecesFirst, StaleBegun
<1> QED
  BY <1>4, <1>5 DEF ResidueInv

\* Every step keeps the order and the numbers.
LEMMA StepResidue ==
    ASSUME LinkInv, ResidueInv, [Next]_vars
    PROVE  ResidueInv'
<1>1. ASSUME NEW t \in Threads, MasterStep(t) PROVE ResidueInv'
  BY <1>1, MasterResidue
<1>2. ASSUME NEW t \in Threads, NEW o \in Ops, Invoke(t, o) PROVE ResidueInv'
  BY <1>2, InvokeResidue
<1>3. CASE SlaveStep
  BY <1>3, SlaveResidue
<1>4. ASSUME UNCHANGED <<buf, rx, wire, stale, calls, txn, requests, tpc>> PROVE ResidueInv'
  <2>1. \A t \in Threads : InHand(t)' => InHand(t)
    BY <1>4 DEF InHand
  <2> QED
    BY <1>4, <2>1, AnswersLeft
<1>5. ASSUME NEW m \in FaultTypes, InjectFault(m) PROVE ResidueInv'
  BY <1>4, <1>5 DEF InjectFault, threadVars, lineVars
<1>6. CASE Arrives
  BY <1>6, ArrivesResidue
<1>7. CASE IsLost \/ IsDamaged
  BY <1>7, LostResidue
<1>8. CASE UNCHANGED vars
  BY <1>4, <1>8 DEF vars, threadVars, lineVars, budgetVars
<1> QED
  BY <1>1, <1>2, <1>3, <1>5, <1>6, <1>7, <1>8 DEF Next

\* The bus belongs to one transaction at a time, and an answer that lay in the
\* receive buffer before a transaction began is never taken for its own, for
\* any number of threads, calls and faults and however late answers are: the
\* mutex and the flush of doTransaction.
THEOREM LinkIsSafe == Spec => []LinkSafe
<1>1. Init => LinkInv /\ ResidueInv
  BY InitInv, InitResidue
<1>2. LinkInv /\ ResidueInv /\ [Next]_vars => (LinkInv /\ ResidueInv)'
  BY StepInv, StepResidue
<1>3. LinkInv /\ ResidueInv => LinkSafe
  BY ResidueRefused
<1> QED
  BY <1>1, <1>2, <1>3, PTL DEF Spec
-----------------------------------------------------------------------------
(* The calls are operations on atomic registers.  The effect of a call is   *)

(* the slave's work on its request.  As long as no deadline has passed with *)
(* something under way, a transaction ends with nothing left of it: what is *)
(* about belongs to the running one, a request, or pieces of one answer     *)
(* that carries the effect.                                                 *)

\* A request that its thread still waits for has not taken effect.
RequestsFit ==
    /\ \A i \in 1 .. Len(requests) :
          txn[requests[i].thread] = requests[i].n /\ job[requests[i].thread] # NoOp =>
             job[requests[i].thread] = requests[i].op /\ effect[requests[i].thread] = "none"
    /\ \A t \in Threads : tpc[t] # "receive" => effect[t] = "none"
    /\ \A t \in Threads : tpc[t] = "idle" <=> job[t] = NoOp
    /\ \A t \in Threads : tpc[t] = "send" => buf = <<>>

Receiving == \E t \in Threads : tpc[t] = "receive"
Coming == Elems(buf) \cup Elems(rx) \cup Elems(wire)
Load == Len(buf) + Len(rx) + Len(wire)
LineClear == rx = <<>> /\ wire = <<>>

OwnAnswer ==
    late = 0 =>
      /\ ~Receiving => requests = <<>> /\ LineClear
      /\ Len(requests) <= 1
      /\ requests # <<>> =>
            /\ tpc[requests[1].thread] = "receive" /\ txn[requests[1].thread] = requests[1].n
            /\ buf = <<>> /\ LineClear
      /\ \A t \in Threads : tpc[t] = "receive" =>
            /\ Load <= 2
            /\ \A p \in Coming : p.frame.val = effect[t] /\ (p.frame.exc => Load <= 1)

ServiceInv == RequestsFit /\ OwnAnswer /\ late \in Nat

\* Who has an operation is in a call.
LEMMA NoOpIsNone == NoOp \notin Ops
BY DEF NoOp, Ops

\* Lengths are numbers.
LEMMA LoadType ==
    ASSUME LinkInv
    PROVE  /\ Len(buf) \in Nat /\ Len(rx) \in Nat /\ Len(wire) \in Nat
           /\ Load \in Nat
BY DEF LinkInv, TypeOK, Load

\* Nothing is left of a single element.
LEMMA ShortTail ==
    ASSUME NEW S, NEW s \in Seq(S), Len(s) <= 1,
           NEW t, t = s \/ t = <<>> \/ (s # <<>> /\ t = Tail(s))
    PROVE  /\ t = s \/ t = <<>>
           /\ s # <<>> /\ t = Tail(s) => t = <<>>
<1>1. CASE s # <<>> /\ t = Tail(s)
  <2>1. Len(s) \in Nat /\ Len(s) # 0
    BY <1>1
  <2>2. t \in Seq(S) /\ Len(t) = 0
    BY <1>1, <2>1
  <2> QED
    BY <2>2
<1> QED
  BY <1>1

\* A step of the line: less is under way, and nothing new.
LEMMA LineService ==
    ASSUME LinkInv, LinkInv', ServiceInv,
           UNCHANGED <<tpc, job, txn, effect, late>>,
           \/ requests' = requests \/ requests' = <<>>
           \/ requests # <<>> /\ requests' = Tail(requests),
           \A q \in Coming' : \E p \in Coming : q.frame = p.frame,
           Load' <= Load,
           LineClear => LineClear' /\ UNCHANGED buf,
           (\E t \in Threads : tpc[t] = "send") => UNCHANGED buf
    PROVE  ServiceInv'
<1> USE DEF ServiceInv
<1>1. requests \in Seq(Requests)
  BY DEF LinkInv, TypeOK, Requests
<1>2. \A j \in 1 .. Len(requests') : \E i \in 1 .. Len(requests) : requests'[j] = requests[i]
  BY <1>1, FewerRequests
<1>3. RequestsFit'
  <2>1. \A j \in 1 .. Len(requests') :
          txn'[requests'[j].thread] = requests'[j].n /\ job'[requests'[j].thread] # NoOp =>
            job'[requests'[j].thread] = requests'[j].op /\ effect'[requests'[j].thread] = "none"
    <3>1. ASSUME NEW j \in 1 .. Len(requests'),
                 txn'[requests'[j].thread] = requests'[j].n, job'[requests'[j].thread] # NoOp
          PROVE  job'[requests'[j].thread] = requests'[j].op /\ effect'[requests'[j].thread] = "none"
      <4>1. PICK i \in 1 .. Len(requests) : requests'[j] = requests[i]
        BY <1>2
      <4>2. txn[requests[i].thread] = requests[i].n /\ job[requests[i].thread] # NoOp
        BY <3>1, <4>1
      <4>3. job[requests[i].thread] = requests[i].op /\ effect[requests[i].thread] = "none"
        BY <4>2 DEF RequestsFit
      <4> QED
        BY <4>1, <4>3
    <3> QED
      BY <3>1
  <2>2. /\ \A t \in Threads : tpc'[t] # "receive" => effect'[t] = "none"
        /\ \A t \in Threads : tpc'[t] = "idle" <=> job'[t] = NoOp
        /\ \A t \in Threads : tpc'[t] = "send" => buf' = <<>>
    BY DEF RequestsFit
  <2> QED
    BY <2>1, <2>2 DEF RequestsFit
<1>4. OwnAnswer'
  <2> SUFFICES ASSUME late' = 0 PROVE OwnAnswer'
    BY DEF OwnAnswer
  <2>1. late = 0
    OBVIOUS
  <2>2. requests' = requests \/ requests' = <<>>
    <3>1. Len(requests) <= 1
      BY <2>1 DEF OwnAnswer
    <3> QED
      BY <1>1, <3>1, ShortTail
  <2>3. ~Receiving' => requests' = <<>> /\ LineClear'
    BY <2>1, <2>2 DEF OwnAnswer, Receiving
  <2>4. Len(requests') <= 1
    BY <2>1, <2>2 DEF OwnAnswer
  <2>5. requests' # <<>> =>
          /\ tpc'[requests'[1].thread] = "receive" /\ txn'[requests'[1].thread] = requests'[1].n
          /\ buf' = <<>> /\ LineClear'
    BY <2>1, <2>2 DEF OwnAnswer
  <2>6. ASSUME NEW t \in Threads, tpc'[t] = "receive"
        PROVE  /\ Load' <= 2
               /\ \A p \in Coming' : p.frame.val = effect'[t] /\ (p.frame.exc => Load' <= 1)
    <3>1. Load \in Nat /\ Load' \in Nat
      <4>1. Load \in Nat
        BY LoadType
      <4>2. buf' \in Seq(Units) /\ rx' \in Seq(Units) /\ wire' \in Seq(Units)
        BY DEF LinkInv, TypeOK
      <4>3. Load' \in Nat
        BY <4>2 DEF Load
      <4> QED
        BY <4>1, <4>3
    <3>2. Load <= 2 /\ \A p \in Coming : p.frame.val = effect[t] /\ (p.frame.exc => Load <= 1)
      BY <2>1, <2>6 DEF OwnAnswer
    <3>3. Load' <= 2 /\ (Load <= 1 => Load' <= 1)
      BY <3>1, <3>2
    <3> QED
      BY <3>2, <3>3
  <2> QED
    BY <2>3, <2>4, <2>5, <2>6 DEF OwnAnswer
<1> QED
  BY <1>3, <1>4

\* The end of a call.
LEMMA FinishService ==
    ASSUME LinkInv, ServiceInv, NEW t \in Threads, tpc[t] \in {"send", "receive"},
           NEW res, Finish(t, res), UNCHANGED <<buf, rx>>,
           late' \in Nat, late' = 0 => late = 0 /\ requests = <<>> /\ LineClear
    PROVE  ServiceInv'
<1> USE DEF ServiceInv
<1>1. /\ tpc' = [tpc EXCEPT ![t] = "idle"] /\ job' = [job EXCEPT ![t] = NoOp]
      /\ effect' = [effect EXCEPT ![t] = "none"] /\ UNCHANGED <<txn, wire, requests, buf, rx>>
      /\ tpc \in [Threads -> {"idle", "lock", "send", "receive"}]
      /\ job \in [Threads -> Ops \cup {NoOp}] /\ effect \in [Threads -> Values \cup {"none"}]
  BY DEF Finish, LinkInv, TypeOK
<1>2. requests \in Seq(Requests) /\ \A i \in 1 .. Len(requests) : requests[i].thread \in Threads
  <2>1. requests \in Seq(Requests)
    BY DEF LinkInv, TypeOK, Requests
  <2>2. \A r \in Requests : r.thread \in Threads
    BY DEF Requests
  <2>3. \A i \in 1 .. Len(requests) : requests[i] \in Requests
    BY <2>1
  <2> QED
    BY <2>1, <2>2, <2>3
<1>3. \A u \in Threads : u # t => tpc'[u] = tpc[u] /\ tpc[u] \notin {"send", "receive"}
  BY <1>1 DEF LinkInv, TypeOK
<1>4. RequestsFit'
  <2>1. ASSUME NEW i \in 1 .. Len(requests),
               txn'[requests[i].thread] = requests[i].n, job'[requests[i].thread] # NoOp
        PROVE  job'[requests[i].thread] = requests[i].op /\ effect'[requests[i].thread] = "none"
    <3>1. requests[i].thread # t
      BY <1>1, <2>1
    <3>2. job'[requests[i].thread] = job[requests[i].thread]
          /\ effect'[requests[i].thread] = effect[requests[i].thread]
      BY <1>1, <1>2, <3>1
    <3> QED
      BY <1>1, <2>1, <3>2 DEF RequestsFit
  <2>2. /\ \A u \in Threads : tpc'[u] # "receive" => effect'[u] = "none"
        /\ \A u \in Threads : tpc'[u] = "idle" <=> job'[u] = NoOp
        /\ \A u \in Threads : tpc'[u] = "send" => buf' = <<>>
    BY <1>1 DEF RequestsFit
  <2> QED
    BY <1>1, <2>1, <2>2 DEF RequestsFit
<1>5. OwnAnswer'
  <2> SUFFICES ASSUME late' = 0 PROVE OwnAnswer'
    BY DEF OwnAnswer
  <2>1. requests' = <<>> /\ LineClear'
    BY <1>1 DEF LineClear
  <2>2. \A u \in Threads : tpc'[u] # "receive"
    BY <1>1, <1>3
  <2> QED
    BY <2>1, <2>2 DEF OwnAnswer
<1> QED
  BY <1>4, <1>5

\* A step of the implementation is a step of the service, or none.
ServiceStep == [Service!Next]_(Service!serviceVars)

\* A call.
LEMMA InvokeService ==
    ASSUME LinkInv, ResidueInv, ServiceInv, NEW t \in Threads, NEW o \in Ops, Invoke(t, o)
    PROVE  ServiceInv' /\ ServiceStep
<1> USE DEF ServiceInv
<1>1. /\ tpc[t] = "idle" /\ tpc' = [tpc EXCEPT ![t] = "lock"] /\ job' = [job EXCEPT ![t] = o]
      /\ txn' = [txn EXCEPT ![t] = calls + 1] /\ calls \in Nat
      /\ UNCHANGED <<result, buf, rx, wire, requests, reg, effect, late>>
      /\ tpc \in [Threads -> {"idle", "lock", "send", "receive"}]
      /\ job \in [Threads -> Ops \cup {NoOp}] /\ txn \in [Threads -> 0 .. MaxCalls]
  BY DEF Invoke, lineVars, slaveVars, LinkInv, TypeOK, BudgetsKept
<1>2. requests \in Seq(Requests) /\ \A r \in Requests : r.thread \in Threads /\ r.n \in Nat
  BY DEF LinkInv, TypeOK, Requests
<1>3. \A i \in 1 .. Len(requests) : requests[i] \in Requests
  BY <1>2
<1>4. \A i \in 1 .. Len(requests) : requests[i].n # calls + 1
  BY <1>1, <1>2, <1>3 DEF ResidueInv, NumbersCalled
<1>5. job[t] = NoOp /\ effect[t] = "none"
  BY <1>1 DEF RequestsFit
<1>6. RequestsFit'
  <2>1. ASSUME NEW i \in 1 .. Len(requests),
               txn'[requests[i].thread] = requests[i].n, job'[requests[i].thread] # NoOp
        PROVE  job'[requests[i].thread] = requests[i].op /\ effect'[requests[i].thread] = "none"
    <3>1. requests[i].thread # t
      BY <1>1, <1>4, <2>1
    <3>2. job'[requests[i].thread] = job[requests[i].thread]
          /\ txn'[requests[i].thread] = txn[requests[i].thread]
      BY <1>1, <1>2, <1>3, <3>1
    <3> QED
      BY <1>1, <2>1, <3>2 DEF RequestsFit
  <2>2. /\ \A u \in Threads : tpc'[u] # "receive" => effect'[u] = "none"
        /\ \A u \in Threads : tpc'[u] = "idle" <=> job'[u] = NoOp
        /\ \A u \in Threads : tpc'[u] = "send" => buf' = <<>>
    BY <1>1, NoOpIsNone DEF RequestsFit
  <2> QED
    BY <1>1, <2>1, <2>2 DEF RequestsFit
<1>7. \A u \in Threads : tpc'[u] = "receive" <=> tpc[u] = "receive"
  BY <1>1
<1>8. OwnAnswer'
  <2> SUFFICES ASSUME late' = 0 PROVE OwnAnswer'
    BY DEF OwnAnswer
  <2>1. Receiving' <=> Receiving
    BY <1>7 DEF Receiving
  <2>2. LineClear' = LineClear /\ Coming' = Coming /\ Load' = Load
    BY <1>1 DEF LineClear, Coming, Load
  <2>3. ASSUME requests # <<>>
        PROVE  tpc'[requests[1].thread] = "receive" /\ txn'[requests[1].thread] = requests[1].n
    <3>1. tpc[requests[1].thread] = "receive" /\ txn[requests[1].thread] = requests[1].n
      BY <1>1, <2>3 DEF OwnAnswer
    <3>2. requests[1].thread \in Threads /\ requests[1].thread # t
      <4>1. 1 \in 1 .. Len(requests)
        BY <1>2, <2>3
      <4> QED
        BY <1>1, <1>2, <1>3, <3>1, <4>1
    <3> QED
      BY <1>1, <3>1, <3>2
  <2> QED
    BY <1>1, <1>7, <2>1, <2>2, <2>3 DEF OwnAnswer
<1>9. Service!Invoke(t)
  <2>1. o \in Service!Ops /\ job[t] = Service!NoOp
    BY <1>5 DEF Service!Ops, Ops, Service!NoOp, NoOp
  <2> QED
    BY <1>1, <2>1 DEF Service!Invoke
<1> QED
  BY <1>1, <1>6, <1>8, <1>9 DEF ServiceStep, Service!Next

\* A transaction begins on a clear line.
LEMMA BeginService ==
    ASSUME LinkInv, ServiceInv, NEW t \in Threads, Begin(t)
    PROVE  ServiceInv' /\ ServiceStep
<1> USE DEF ServiceInv
<1>1. /\ tpc[t] = "lock" /\ tpc' = [tpc EXCEPT ![t] = "send"] /\ rx' = <<>> /\ buf' = <<>>
      /\ UNCHANGED <<job, result, txn, wire, requests, reg, effect, late>>
      /\ tpc \in [Threads -> {"idle", "lock", "send", "receive"}]
      /\ \A u \in Threads : tpc[u] \notin {"send", "receive"}
  BY DEF Begin, Flush, BusFree, slaveVars, budgetVars, LinkInv, TypeOK
<1>2. RequestsFit'
  BY <1>1 DEF RequestsFit
<1>3. OwnAnswer'
  <2>1. ~Receiving /\ \A u \in Threads : tpc'[u] # "receive"
    BY <1>1 DEF Receiving
  <2> QED
    BY <1>1, <2>1 DEF OwnAnswer, LineClear
<1>4. UNCHANGED Service!serviceVars
  BY <1>1 DEF Service!serviceVars
<1> QED
  BY <1>1, <1>2, <1>3, <1>4 DEF ServiceStep

\* The request of a transaction is the only thing under way.
LEMMA SendService ==
    ASSUME LinkInv, ResidueInv, ServiceInv, NEW t \in Threads, SendRequest(t)
    PROVE  ServiceInv' /\ ServiceStep
<1> USE DEF ServiceInv
<1> DEFINE req == [n |-> txn[t], thread |-> t, op |-> job[t]]
<1>1. /\ tpc[t] = "send" /\ tpc' = [tpc EXCEPT ![t] = "receive"] /\ requests' = Append(requests, req)
      /\ UNCHANGED <<job, result, txn, buf, rx, wire, reg, effect, late>>
      /\ tpc \in [Threads -> {"idle", "lock", "send", "receive"}]
      /\ \A u \in Threads : u # t => tpc[u] \notin {"send", "receive"}
  BY DEF SendRequest, slaveVars, budgetVars, LinkInv, TypeOK
<1>2. requests \in Seq(Requests) /\ req \in Requests
  BY DEF LinkInv, TypeOK, Requests, SendRequest, CallsHaveOps
<1>3. req.n = txn[t] /\ req.thread = t /\ req.op = job[t]
  OBVIOUS
<1> HIDE DEF req
<1>4. effect[t] = "none" /\ buf = <<>>
  BY <1>1 DEF RequestsFit
<1>5. RequestsFit'
  <2>1. \A i \in 1 .. Len(requests') :
          (i \in 1 .. Len(requests) /\ requests'[i] = requests[i]) \/ requests'[i] = req
    BY <1>1, <1>2
  <2>2. ASSUME NEW i \in 1 .. Len(requests'),
               txn'[requests'[i].thread] = requests'[i].n, job'[requests'[i].thread] # NoOp
        PROVE  job'[requests'[i].thread] = requests'[i].op /\ effect'[requests'[i].thread] = "none"
    <3>1. CASE requests'[i] = req
      BY <1>1, <1>3, <1>4, <3>1
    <3>2. CASE i \in 1 .. Len(requests) /\ requests'[i] = requests[i]
      BY <1>1, <2>2, <3>2 DEF RequestsFit
    <3> QED
      BY <2>1, <3>1, <3>2
  <2>3. /\ \A u \in Threads : tpc'[u] # "receive" => effect'[u] = "none"
        /\ \A u \in Threads : tpc'[u] = "idle" <=> job'[u] = NoOp
        /\ \A u \in Threads : tpc'[u] = "send" => buf' = <<>>
    BY <1>1 DEF RequestsFit
  <2> QED
    BY <2>2, <2>3 DEF RequestsFit
<1>6. OwnAnswer'
  <2> SUFFICES ASSUME late' = 0 PROVE OwnAnswer'
    BY DEF OwnAnswer
  <2>1. ~Receiving
    BY <1>1 DEF Receiving
  <2>2. requests = <<>> /\ rx = <<>> /\ wire = <<>>
    BY <1>1, <2>1 DEF OwnAnswer, LineClear
  <2>3. Len(requests') = 1 /\ requests'[1] = req
    BY <1>1, <1>2, <2>2
  <2>4. Receiving' /\ LineClear'
    BY <1>1, <2>2 DEF Receiving, LineClear
  <2>5. Load' = 0 /\ Coming' = {}
    BY <1>1, <1>4, <2>2 DEF Load, Coming, Elems
  <2>6. tpc'[req.thread] = "receive" /\ txn'[req.thread] = req.n /\ buf' = <<>>
    BY <1>1, <1>3, <1>4
  <2> QED
    BY <2>3, <2>4, <2>5, <2>6 DEF OwnAnswer
<1>7. UNCHANGED Service!serviceVars
  BY <1>1 DEF Service!serviceVars
<1> QED
  BY <1>1, <1>5, <1>6, <1>7 DEF ServiceStep

\* read() only moves what is under way.
LEMMA ReceiveService ==
    ASSUME LinkInv, LinkInv', ServiceInv, NEW t \in Threads, ReceiveSome(t)
    PROVE  ServiceInv' /\ ServiceStep
<1>1. PICK k \in 1 .. Len(rx) :
        buf' = buf \o SubSeq(rx, 1, k) /\ rx' = SubSeq(rx, k + 1, Len(rx))
  BY DEF ReceiveSome
<1>2. /\ UNCHANGED <<tpc, job, result, txn, wire, requests, reg, effect, late>>
      /\ tpc[t] = "receive" /\ rx \in Seq(Units) /\ buf \in Seq(Units) /\ wire \in Seq(Units)
      /\ \A u \in Threads : u # t => tpc[u] # "send"
  BY DEF ReceiveSome, threadVars, slaveVars, budgetVars, LinkInv, TypeOK
<1>3. Elems(rx') \subseteq Elems(rx) /\ Elems(buf') \subseteq Elems(buf) \cup Elems(rx)
  <2>1. SubSeq(rx, 1, k) \in Seq(Units)
    BY <1>2, SplitType
  <2>2. \A s \in Seq(Units) : Elems(buf \o s) = Elems(buf) \cup Elems(s)
    BY <1>2, ElemsOf
  <2>3. Elems(buf') = Elems(buf) \cup Elems(SubSeq(rx, 1, k))
    BY <1>1, <2>1, <2>2
  <2> QED
    BY <1>1, <1>2, <2>3, ElemsSplit
<1>4. Coming' \subseteq Coming
  BY <1>2, <1>3 DEF Coming
<1>5. Load' = Load
  <2>1. Len(SubSeq(rx, 1, k)) = k /\ Len(rx') = Len(rx) - k /\ SubSeq(rx, 1, k) \in Seq(Units)
    BY <1>1, <1>2
  <2>2. Len(buf') = Len(buf) + k
    BY <1>1, <1>2, <2>1
  <2>3. Len(buf) \in Nat /\ Len(rx) \in Nat /\ Len(wire) \in Nat /\ k \in Nat
    BY <1>2
  <2> QED
    BY <1>2, <2>1, <2>2, <2>3 DEF Load
<1>6. ~LineClear
  BY DEF LineClear
<1>7. ServiceInv'
  <2>1. \A q \in Coming' : \E p \in Coming : q.frame = p.frame
    BY <1>4
  <2>2. Load' <= Load
    BY <1>5, LoadType
  <2>3. ~\E u \in Threads : tpc[u] = "send"
    BY <1>2
  <2> QED
    BY <1>2, <1>6, <2>1, <2>2, <2>3, LineService
<1>8. UNCHANGED Service!serviceVars
  BY <1>2 DEF Service!serviceVars
<1> QED
  BY <1>7, <1>8 DEF ServiceStep

\* The other steps of the line, and of the slave when it gives no answer.
LEMMA QuietService ==
    ASSUME LinkInv, LinkInv', ServiceInv,
           UNCHANGED <<tpc, job, txn, result, reg, effect, late, buf>>,
           \/ requests' = requests \/ requests' = <<>>
           \/ requests # <<>> /\ requests' = Tail(requests),
           \A q \in Coming' : \E p \in Coming : q.frame = p.frame,
           Load' <= Load, LineClear => LineClear'
    PROVE  ServiceInv' /\ ServiceStep
<1>1. ServiceInv'
  BY LineService
<1>2. UNCHANGED Service!serviceVars
  BY DEF Service!serviceVars
<1> QED
  BY <1>1, <1>2 DEF ServiceStep

\* The order of arrival changes nothing about what is coming.
LEMMA ArrivesService ==
    ASSUME LinkInv, LinkInv', ServiceInv, Arrives
    PROVE  ServiceInv' /\ ServiceStep
<1>1. /\ wire # <<>> /\ rx' = Append(rx, Head(wire)) /\ wire' = Tail(wire)
      /\ UNCHANGED <<tpc, job, result, txn, buf, requests, reg, effect, late>>
      /\ wire \in Seq(Units) /\ rx \in Seq(Units) /\ buf \in Seq(Units)
  BY DEF Arrives, threadVars, slaveVars, budgetVars, LinkInv, TypeOK
<1>2. Head(wire) \in Units
  BY <1>1, HeadTailType
<1>3. Elems(rx') = Elems(rx) \cup {Head(wire)} /\ Elems(wire) = Elems(wire') \cup {Head(wire)}
  BY <1>1, <1>2, ElemsOf
<1>4. Coming' = Coming
  BY <1>1, <1>3 DEF Coming
<1>5. Load' = Load
  <2>1. Len(rx') = Len(rx) + 1 /\ Len(wire') = Len(wire) - 1
    BY <1>1, <1>2
  <2>2. Len(buf) \in Nat /\ Len(rx) \in Nat /\ Len(wire) \in Nat
    BY <1>1
  <2> QED
    BY <1>1, <2>1, <2>2 DEF Load
<1>6. Load' <= Load /\ \A q \in Coming' : \E p \in Coming : q.frame = p.frame
  BY <1>4, <1>5, LoadType
<1>7. ~LineClear
  BY <1>1 DEF LineClear
<1> QED
  BY <1>1, <1>6, <1>7, QuietService

\* Nor do losses and damage.
LEMMA LostService ==
    ASSUME LinkInv, LinkInv', ServiceInv, IsLost \/ IsDamaged
    PROVE  ServiceInv' /\ ServiceStep
<1>1. /\ UNCHANGED <<tpc, job, txn, result, reg, effect, late, buf, rx>>
      /\ wire \in Seq(Units) /\ rx \in Seq(Units) /\ buf \in Seq(Units)
  BY DEF IsLost, IsDamaged, threadVars, slaveVars, LinkInv, TypeOK
<1>2. Len(buf) \in Nat /\ Len(rx) \in Nat /\ Len(wire) \in Nat
  BY <1>1
<1>3. CASE UNCHANGED wire
  <2>1. requests' = requests \/ (requests # <<>> /\ requests' = Tail(requests))
    BY <1>3 DEF IsLost, IsDamaged
  <2>2. Coming' = Coming /\ Load' = Load /\ LineClear' = LineClear
    BY <1>1, <1>3 DEF Coming, Load, LineClear
  <2>3. Load' <= Load
    BY <2>2, LoadType
  <2>4. \A q \in Coming' : \E p \in Coming : q.frame = p.frame
    BY <2>2
  <2> QED
    BY <1>1, <2>1, <2>2, <2>3, <2>4, QuietService
<1>4. CASE UNCHANGED requests /\ wire # <<>> /\ wire' = Tail(wire)
  <2>1. Elems(wire') \subseteq Elems(wire) /\ Len(wire') = Len(wire) - 1
    <3>1. Elems(wire) = Elems(Tail(wire)) \cup {Head(wire)}
      BY <1>1, <1>4, ElemsOf
    <3> QED
      BY <1>1, <1>4, <3>1
  <2>2. Load' <= Load
    BY <1>1, <1>2, <2>1 DEF Load
  <2>3. \A q \in Coming' : \E p \in Coming : q.frame = p.frame
    BY <1>1, <2>1 DEF Coming
  <2>4. ~LineClear
    BY <1>4 DEF LineClear
  <2> QED
    BY <1>1, <1>4, <2>2, <2>3, <2>4, QuietService
<1>5. CASE UNCHANGED requests /\ wire # <<>> /\ wire' = [wire EXCEPT ![1].bad = TRUE]
  <2>1. Len(wire') = Len(wire)
    BY <1>1, <1>5
  <2>2. \A j \in 1 .. Len(wire) : wire[j] \in Units
    BY <1>1
  <2>3. \A j \in 1 .. Len(wire) :
          wire'[j] = IF j = 1 THEN [wire[1] EXCEPT !.bad = TRUE] ELSE wire[j]
    BY <1>1, <1>5
  <2>4. \A j \in 1 .. Len(wire) : wire'[j].frame = wire[j].frame
    BY <2>2, <2>3 DEF Units
  <2>5. \A q \in Elems(wire') : \E p \in Elems(wire) : q.frame = p.frame
    BY <2>1, <2>4 DEF Elems
  <2>6. \A q \in Coming' : \E p \in Coming : q.frame = p.frame
    BY <1>1, <2>5 DEF Coming
  <2>7. Load' <= Load
    BY <1>1, <1>2, <2>1 DEF Load
  <2>8. ~LineClear
    BY <1>5 DEF LineClear
  <2> QED
    BY <1>1, <1>5, <2>6, <2>7, <2>8, QuietService
<1> QED
  BY <1>3, <1>4, <1>5 DEF IsLost, IsDamaged

\* The end of a transaction.  While no deadline has passed too early, the
\* accepted answer carries the effect of the call.
LEMMA EndService ==
    ASSUME LinkInv, ServiceInv, NEW t \in Threads, SendFails(t) \/ TimesOut(t) \/ Verdict(t)
    PROVE  ServiceInv' /\ ServiceStep
<1> USE DEF ServiceInv
<1> DEFINE res == IF Verdict(t) /\ Answers(t) THEN buf[1].frame.val ELSE "error"
<1>1. /\ tpc[t] \in {"send", "receive"} /\ UNCHANGED <<buf, rx>>
      /\ tpc \in [Threads -> {"idle", "lock", "send", "receive"}]
      /\ buf \in Seq(Units) /\ rx \in Seq(Units) /\ wire \in Seq(Units)
      /\ \A u \in Threads : u # t => tpc[u] \notin {"send", "receive"}
  BY DEF SendFails, TimesOut, Verdict, LinkInv, TypeOK
<1>2. Finish(t, res)
  BY DEF SendFails, TimesOut, Verdict
<1>3. late' = late \/ (late' = late + 1 /\ TimesOut(t))
  BY DEF SendFails, TimesOut, Verdict
<1>4. late' \in Nat /\ (late' = 0 => late = 0)
  BY <1>3
<1> HIDE DEF res
<1>5. Verdict(t) /\ late = 0 =>
        requests = <<>> /\ LineClear /\ \A p \in Elems(buf) : p.frame.val = effect[t]
  <2> SUFFICES ASSUME Verdict(t), late = 0
               PROVE  requests = <<>> /\ LineClear /\ \A p \in Elems(buf) : p.frame.val = effect[t]
    OBVIOUS
  <2>1. tpc[t] = "receive" /\ Complete
    BY DEF Verdict
  <2>2. /\ Load <= 2
        /\ \A p \in Coming : p.frame.val = effect[t] /\ (p.frame.exc => Load <= 1)
        /\ requests # <<>> => buf = <<>>
    BY <2>1 DEF OwnAnswer
  <2>3. Len(buf) \in Nat /\ Len(rx) \in Nat /\ Len(wire) \in Nat
    BY <1>1
  <2>4. Len(buf) >= 1 /\ (Len(buf) >= 2 \/ buf[1].frame.exc)
    BY <2>1, <2>3 DEF Complete
  <2>5. buf[1] \in Coming
    BY <2>3, <2>4 DEF Coming, Elems
  <2>6. Len(rx) = 0 /\ Len(wire) = 0
    BY <2>2, <2>3, <2>4, <2>5 DEF Load
  <2>7. LineClear
    BY <1>1, <2>6, EmptySeq DEF LineClear
  <2>8. requests = <<>>
    BY <2>2, <2>4
  <2> QED
    BY <2>2, <2>7, <2>8 DEF Coming
<1>6. late' = 0 => requests = <<>> /\ LineClear
  <2> SUFFICES ASSUME late' = 0 PROVE requests = <<>> /\ LineClear
    OBVIOUS
  <2>1. late = 0
    BY <1>4
  <2>2. CASE SendFails(t)
    <3>1. ~Receiving
      BY <1>1, <2>2 DEF SendFails, Receiving
    <3> QED
      BY <2>1, <3>1 DEF OwnAnswer
  <2>3. CASE TimesOut(t)
    <3>1. late' # late + 1
      BY <2>1
    <3>2. ~OnTheWay /\ rx = <<>>
      BY <2>3, <3>1 DEF TimesOut
    <3> QED
      BY <3>2 DEF OnTheWay, LineClear
  <2>4. CASE Verdict(t)
    BY <1>5, <2>1, <2>4
  <2> QED
    BY <2>2, <2>3, <2>4
<1>7. ServiceInv'
  BY <1>1, <1>2, <1>4, <1>6, FinishService
<1>8. job[t] # NoOp
  BY <1>1 DEF RequestsFit
<1>9. /\ job' = [job EXCEPT ![t] = NoOp] /\ effect' = [effect EXCEPT ![t] = "none"]
      /\ result' = [result EXCEPT ![t] = res] /\ UNCHANGED reg
  BY <1>2 DEF Finish
<1>10. NoOp = Service!NoOp
  BY DEF NoOp, Service!NoOp
<1>11. ServiceStep
  <2>1. CASE late' = late + 1 /\ late = 0 /\ TimesOut(t)
    <3>1. res = "error"
      BY <2>1 DEF TimesOut, Verdict, res
    <3>2. (late' = 0) = FALSE
      BY <2>1
    <3>3. Service!MissDeadline(t)
      BY <1>8, <1>9, <1>10, <3>1, <3>2 DEF Service!MissDeadline
    <3> QED
      BY <3>3 DEF ServiceStep, Service!Next
  <2>2. CASE ~(late' = late + 1 /\ late = 0 /\ TimesOut(t))
    <3>1. (late' = 0) = (late = 0)
      BY <1>3, <2>2
    <3>2. \A v : res = v => Service!Return(t, v)
      BY <1>8, <1>9, <1>10, <3>1 DEF Service!Return
    <3>3. CASE res = "error"
      <4>1. Service!Fail(t)
        BY <3>2, <3>3 DEF Service!Fail
      <4> QED
        BY <4>1 DEF ServiceStep, Service!Next
    <3>4. CASE res # "error"
      <4>1. Verdict(t) /\ Answers(t) /\ res = buf[1].frame.val /\ Complete
        BY <3>4 DEF res, Verdict
      <4>2. Len(buf) \in Nat /\ Len(buf) >= 1
        BY <1>1, <4>1 DEF Complete
      <4>3. buf[1] \in Units /\ buf[1] \in Elems(buf)
        BY <1>1, <4>2 DEF Elems
      <4>4. res \in Values
        BY <4>1, <4>3 DEF Units, Frames
      <4>5. CASE late = 0
        <5>1. res = effect[t]
          BY <1>5, <4>1, <4>3, <4>5
        <5>2. effect[t] # "none"
          BY <4>4, <5>1
        <5>3. Service!Succeed(t)
          BY <3>2, <5>1, <5>2 DEF Service!Succeed
        <5> QED
          BY <5>3 DEF ServiceStep, Service!Next
      <4>6. CASE late # 0
        <5>1. Service!SucceedWrongly(t)
          BY <3>2, <4>4, <4>6 DEF Service!SucceedWrongly
        <5> QED
          BY <5>1 DEF ServiceStep, Service!Next
      <4> QED
        BY <4>5, <4>6
    <3> QED
      BY <3>3, <3>4
  <2> QED
    BY <2>1, <2>2
<1> QED
  BY <1>7, <1>11

\* How much an answer adds to what is under way.
LEMMA PiecesLoad ==
    ASSUME NEW frame \in Frames, NEW bad \in BOOLEAN
    PROVE  /\ Len(Pieces(frame, bad)) <= 2
           /\ frame.exc => Len(Pieces(frame, bad)) <= 1
<1> DEFINE n == IF frame.exc THEN 1 ELSE 2
           p == Pieces(frame, bad)
<1>1. n \in {1, 2} /\ p = [i \in 1 .. n |-> [frame |-> frame, part |-> i, bad |-> bad]]
  BY DEF Pieces
<1>2. n <= 2 /\ (frame.exc => n <= 1)
  OBVIOUS
<1> HIDE DEF n, p
<1>3. Len(p) = n
  BY <1>1
<1> QED
  BY <1>2, <1>3 DEF p

\* The slave carries out a request: the call takes effect, if its thread still
\* waits, and otherwise a deadline has passed too early.
LEMMA AnswerService ==
    ASSUME LinkInv, LinkInv', ResidueInv, ServiceInv, requests # <<>>, requests' = Tail(requests),
           mode # "no_response", HandleFrame(Head(requests)),
           UNCHANGED <<tpc, job, txn, result, late, buf, rx>>
    PROVE  ServiceInv' /\ ServiceStep
<1> USE DEF ServiceInv
<1> DEFINE req == Head(requests)
           u == req.thread
           frame == Answer(req, IF mode = "wrong_slave" THEN "other" ELSE "asked",
                           mode = "exception", reg'[req.op.addr])
           pieces == Pieces(frame, mode = "crc")
<1>1. /\ requests \in Seq(Requests) /\ wire \in Seq(Units) /\ buf \in Seq(Units) /\ rx \in Seq(Units)
      /\ tpc \in [Threads -> {"idle", "lock", "send", "receive"}]
      /\ job \in [Threads -> Ops \cup {NoOp}]
      /\ effect \in [Threads -> Values \cup {"none"}]
      /\ reg \in [Addrs -> Values] /\ reg' \in [Addrs -> Values]
      /\ \A a, b \in Threads : tpc[a] = "receive" /\ tpc[b] = "receive" => a = b
  BY DEF LinkInv, TypeOK, Requests
<1>2. req \in Requests /\ req = requests[1] /\ 1 \in 1 .. Len(requests)
  <2>1. req \in Requests
    BY <1>1, HeadTailType
  <2> QED
    BY <1>1, <2>1
<1>3. \A j \in 1 .. Len(requests') :
        requests'[j] = requests[j + 1] /\ j + 1 \in 1 .. Len(requests) /\ j + 1 # 1
  BY <1>1
<1>4. /\ u \in Threads /\ req.n \in 1 .. MaxCalls /\ req.op \in Ops
      /\ req.op.addr \in Addrs /\ req.op.val \in Values /\ req.op.kind \in {"read", "write"}
  BY <1>2 DEF Requests, Ops
<1>5. /\ reg' = IF req.op.kind = "write" THEN [reg EXCEPT ![req.op.addr] = req.op.val] ELSE reg
      /\ effect' = IF txn[u] = req.n /\ job[u] # NoOp
                   THEN [effect EXCEPT ![u] = reg'[req.op.addr]] ELSE effect
      /\ wire' = wire \o pieces
  BY DEF HandleFrame, Execute
<1>6. frame \in Frames /\ frame.val = reg'[req.op.addr]
  BY <1>1, <1>4 DEF Answer, Frames
<1>7. txn[u] = req.n /\ job[u] # NoOp => job[u] = req.op /\ effect[u] = "none"
  BY <1>2 DEF RequestsFit
<1> HIDE DEF req, u, frame
<1>8. u = requests[1].thread
  BY <1>2 DEF u
<1>9. RequestsFit'
  <2>1. ASSUME NEW j \in 1 .. Len(requests'),
               txn'[requests'[j].thread] = requests'[j].n, job'[requests'[j].thread] # NoOp
        PROVE  job'[requests'[j].thread] = requests'[j].op /\ effect'[requests'[j].thread] = "none"
    <3>1. requests'[j] = requests[j + 1] /\ j + 1 \in 1 .. Len(requests) /\ j + 1 # 1
      BY <1>3
    <3>2. /\ job[requests[j + 1].thread] = requests[j + 1].op
          /\ effect[requests[j + 1].thread] = "none"
      BY <2>1, <3>1 DEF RequestsFit
    <3>3. requests[j + 1].n # req.n
      BY <1>2, <3>1 DEF ResidueInv, OneRequest
    <3>4. txn[u] = req.n => requests[j + 1].thread # u
      BY <2>1, <3>1, <3>3
    <3>5. requests[j + 1].thread \in Threads
      <4>1. requests[j + 1] \in Requests
        BY <1>1, <3>1
      <4> QED
        BY <4>1 DEF Requests
    <3>6. effect'[requests[j + 1].thread] = effect[requests[j + 1].thread]
      BY <1>1, <1>5, <3>4, <3>5
    <3> QED
      BY <3>1, <3>2, <3>6
  <2>2. ASSUME NEW t \in Threads, tpc'[t] # "receive" PROVE effect'[t] = "none"
    <3>1. effect[t] = "none"
      BY <2>2 DEF RequestsFit
    <3>2. t = u => ~(txn[u] = req.n /\ job[u] # NoOp)
      <4> SUFFICES ASSUME t = u, txn[u] = req.n, job[u] # NoOp PROVE FALSE
        OBVIOUS
      <4>1. tpc[u] \in {"lock", "send"}
        BY <1>1, <1>4, <2>2 DEF RequestsFit
      <4> QED
        BY <1>2, <1>4, <4>1 DEF ResidueInv, OneRequest, InHand
    <3> QED
      BY <1>1, <1>4, <1>5, <3>1, <3>2
  <2>3. /\ \A t \in Threads : tpc'[t] = "idle" <=> job'[t] = NoOp
        /\ \A t \in Threads : tpc'[t] = "send" => buf' = <<>>
    BY DEF RequestsFit
  <2> QED
    BY <2>1, <2>2, <2>3 DEF RequestsFit
<1>10. late = 0 => /\ requests' = <<>> /\ buf = <<>> /\ LineClear
                   /\ tpc[u] = "receive" /\ txn[u] = req.n /\ job[u] # NoOp
  <2> SUFFICES ASSUME late = 0
               PROVE  /\ requests' = <<>> /\ buf = <<>> /\ LineClear
                      /\ tpc[u] = "receive" /\ txn[u] = req.n /\ job[u] # NoOp
    OBVIOUS
  <2>1. Len(requests) <= 1
    BY DEF OwnAnswer
  <2>2. requests' = <<>>
    BY <1>1, <2>1, ShortTail
  <2>3. buf = <<>> /\ LineClear /\ tpc[u] = "receive" /\ txn[u] = req.n
    BY <1>2, <1>8 DEF OwnAnswer
  <2>4. job[u] # NoOp
    BY <1>4, <2>3 DEF RequestsFit
  <2> QED
    BY <2>2, <2>3, <2>4
<1>11. OwnAnswer'
  <2> SUFFICES ASSUME late' = 0 PROVE OwnAnswer'
    BY DEF OwnAnswer
  <2>1. /\ requests' = <<>> /\ buf = <<>> /\ rx = <<>> /\ wire = <<>>
        /\ tpc[u] = "receive" /\ txn[u] = req.n /\ job[u] # NoOp
    BY <1>10 DEF LineClear
  <2>2. pieces \in Seq(Units) /\ (mode = "crc") \in BOOLEAN
    BY <1>6, PiecesType
  <2> HIDE DEF pieces
  <2>3. wire' = pieces
    BY <1>5, <2>1, <2>2
  <2>4. Len(pieces) <= 2 /\ (frame.exc => Len(pieces) <= 1) /\ Len(pieces) \in Nat
    <3>1. Len(pieces) \in Nat
      BY <2>2
    <3>2. Len(pieces) <= 2 /\ (frame.exc => Len(pieces) <= 1)
      BY <1>6, <2>2, PiecesLoad DEF pieces
    <3> QED
      BY <3>1, <3>2
  <2>5. Load' = Len(pieces)
    <3>1. Len(buf') = 0 /\ Len(rx') = 0
      BY <2>1
    <3> QED
      BY <2>3, <2>4, <3>1 DEF Load
  <2>6. \A p \in Coming' : p.frame = frame
    <3>1. Coming' = Elems(pieces)
      BY <2>1, <2>3 DEF Coming, Elems
    <3>2. Elems(pieces) \subseteq [frame : {frame}, part : {1, 2}, bad : {mode = "crc"}]
      BY <1>6, <2>2, PiecesAre DEF pieces
    <3> QED
      BY <3>1, <3>2
  <2>7. effect'[u] = frame.val
    BY <1>1, <1>4, <1>5, <1>6, <2>1
  <2>8. Receiving' /\ \A t \in Threads : tpc'[t] = "receive" => t = u
    BY <1>1, <1>4, <2>1 DEF Receiving
  <2>9. Len(requests') = 0
    BY <2>1
  <2>10. ASSUME NEW t \in Threads, tpc'[t] = "receive"
         PROVE  /\ Load' <= 2
                /\ \A p \in Coming' : p.frame.val = effect'[t] /\ (p.frame.exc => Load' <= 1)
    BY <2>4, <2>5, <2>6, <2>7, <2>8, <2>10
  <2> QED
    BY <2>1, <2>8, <2>9, <2>10 DEF OwnAnswer
<1>12. ServiceStep
  <2>1. CASE txn[u] = req.n /\ job[u] # NoOp
    <3>1. job[u] = req.op /\ effect[u] = "none"
      BY <1>7, <2>1
    <3>2. NoOp = Service!NoOp
      BY DEF NoOp, Service!NoOp
    <3>3. Service!TakeEffect(u)
      BY <1>5, <2>1, <3>1, <3>2 DEF Service!TakeEffect
    <3> QED
      BY <1>4, <3>3 DEF ServiceStep, Service!Next
  <2>2. CASE ~(txn[u] = req.n /\ job[u] # NoOp)
    <3>1. late # 0 /\ effect' = effect
      BY <1>5, <1>10, <2>2
    <3>2. CASE req.op.kind = "write"
      <4>1. Service!LateWrite
        BY <1>4, <1>5, <3>1, <3>2 DEF Service!LateWrite
      <4> QED
        BY <4>1 DEF ServiceStep, Service!Next
    <3>3. CASE req.op.kind # "write"
      <4>1. UNCHANGED Service!serviceVars
        BY <1>5, <3>1, <3>3 DEF Service!serviceVars
      <4> QED
        BY <4>1 DEF ServiceStep
    <3> QED
      BY <3>2, <3>3
  <2> QED
    BY <2>1, <2>2
<1> QED
  BY <1>9, <1>11, <1>12

\* What the slave does.
LEMMA SlaveService ==
    ASSUME LinkInv, LinkInv', ResidueInv, ServiceInv, SlaveStep
    PROVE  ServiceInv' /\ ServiceStep
<1>1. requests # <<>> /\ UNCHANGED <<tpc, job, txn, result, late, buf, rx>>
  BY DEF SlaveStep, threadVars, budgetVars
<1>2. CASE requests' = Tail(requests) /\ mode # "no_response" /\ HandleFrame(Head(requests))
  BY <1>1, <1>2, AnswerService
<1>3. CASE UNCHANGED <<reg, effect, wire>> /\ (requests' = <<>> \/ requests' = Tail(requests))
  <2>1. Coming' = Coming /\ Load' = Load /\ LineClear' = LineClear
    BY <1>1, <1>3 DEF Coming, Load, LineClear
  <2>2. Load' <= Load
    BY <2>1, LoadType
  <2>3. \A q \in Coming' : \E p \in Coming : q.frame = p.frame
    BY <2>1
  <2> QED
    BY <1>1, <1>3, <2>1, <2>2, <2>3, QuietService
<1> QED
  BY <1>2, <1>3 DEF SlaveStep, HandleFrame, slaveVars

\* readPoint and writeRegister behave as operations on atomic registers, until
\* an answer comes too late, whatever the line loses or damages and whatever
\* fault the slave injects, for any number of threads and registers.
THEOREM LinkIsRegisterService == Spec => ServiceSpec
<1>1. Init => LinkInv /\ ResidueInv /\ ServiceInv /\ Service!Init
  <2> SUFFICES ASSUME Init PROVE ServiceInv /\ Service!Init
    BY InitInv, InitResidue
  <2>1. RequestsFit
    BY DEF Init, RequestsFit
  <2>2. OwnAnswer
    <3>1. ~Receiving
      BY DEF Init, Receiving
    <3> QED
      BY <3>1 DEF Init, OwnAnswer, LineClear, Receiving
  <2>3. Service!Init
    BY DEF Init, Service!Init, NoOp, Service!NoOp
  <2> QED
    BY <2>1, <2>2, <2>3 DEF ServiceInv, Init
<1>2. LinkInv /\ ResidueInv /\ ServiceInv /\ [Next]_vars
      => (LinkInv /\ ResidueInv /\ ServiceInv)' /\ ServiceStep
  <2> SUFFICES ASSUME LinkInv, ResidueInv, ServiceInv, [Next]_vars PROVE ServiceInv' /\ ServiceStep
    BY StepInv, StepResidue
  <2>1. LinkInv'
    BY StepInv
  <2>2. ASSUME NEW t \in Threads, MasterStep(t) PROVE ServiceInv' /\ ServiceStep
    BY <2>1, <2>2, BeginService, SendService, ReceiveService, EndService DEF MasterStep
  <2>3. ASSUME NEW t \in Threads, NEW o \in Ops, Invoke(t, o) PROVE ServiceInv' /\ ServiceStep
    BY <2>3, InvokeService
  <2>4. CASE SlaveStep
    BY <2>1, <2>4, SlaveService
  <2>5. ASSUME UNCHANGED <<tpc, job, txn, result, reg, effect, late, buf, rx, wire, requests>>
        PROVE  ServiceInv' /\ ServiceStep
    <3>1. Coming' = Coming /\ Load' = Load /\ LineClear' = LineClear
      BY <2>5 DEF Coming, Load, LineClear
    <3>2. Load' <= Load /\ \A q \in Coming' : \E p \in Coming : q.frame = p.frame
      BY <3>1, LoadType
    <3> QED
      BY <2>1, <2>5, <3>1, <3>2, QuietService
  <2>6. ASSUME NEW m \in FaultTypes, InjectFault(m) PROVE ServiceInv' /\ ServiceStep
    BY <2>5, <2>6 DEF InjectFault, threadVars, lineVars, slaveVars
  <2>7. CASE Arrives
    BY <2>1, <2>7, ArrivesService
  <2>8. CASE IsLost \/ IsDamaged
    BY <2>1, <2>8, LostService
  <2>9. CASE UNCHANGED vars
    BY <2>5, <2>9 DEF vars, threadVars, lineVars, slaveVars, budgetVars
  <2> QED
    BY <2>2, <2>3, <2>4, <2>6, <2>7, <2>8, <2>9 DEF Next
<1> QED
  BY <1>1, <1>2, PTL DEF Spec, ServiceSpec, Service!Spec, ServiceStep
=============================================================================
