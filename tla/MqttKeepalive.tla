---------------------------- MODULE MqttKeepalive ----------------------------
(***************************************************************************)
(* The clock of the MQTT client (src/net/mqtt_client.cpp): when PINGREQ is *)
(* sent, when the PINGRESP watchdog declares the broker dead, how long the *)
(* network thread waits before it connects again.  MqttSession has the     *)
(* packets, the queue and the threads; here a round of onlineLoop() is     *)
(* reduced to what it does with m_idleSinceMs and m_pingSentAtMs.          *)
(*                                                                         *)
(* Time advances in ticks.  The code's time stamps appear as ages, counted *)
(* up by Tick.  A round takes at least one tick.                           *)
(***************************************************************************)
EXTENDS Integers

CONSTANTS
    Threshold,      \* idle time after which PINGREQ is sent: 0.7 keepalive
    Keepalive,      \* the interval the client has promised to the broker
    Watchdog,       \* 1.5 keepalive
    PollCap,        \* longest wait in one poll(): kPollCapMs
    MaxRtt,         \* a live broker answers PINGREQ within this time
    ReconnectBase,  \* MqttConfig::reconnectBaseMs
    ReconnectMax,   \* MqttConfig::reconnectMaxMs
    Jitters         \* the percentages the random jitter is taken from

TimeAssumption ==
    /\ Threshold \in Nat \ {0} /\ Keepalive \in Nat /\ Watchdog \in Nat
    /\ Threshold < Keepalive /\ Keepalive < Watchdog
    /\ PollCap \in Nat \ {0} /\ MaxRtt \in Nat /\ MaxRtt < Threshold
    /\ ReconnectBase \in Nat \ {0} /\ ReconnectMax \in Nat \ {0}
    /\ Jitters \subseteq 0 .. 30 /\ Jitters # {}

VARIABLES
    npc,       \* "connect", "backoff", or a point of the online round
    idle,      \* age of the last packet sent (m_idleSinceMs)
    ping,      \* age of the last PINGREQ, or NoPing (m_pingSentAtMs)
    pollLeft,  \* ticks until the running poll() times out
    backoff,   \* m_backoffMs
    delay,     \* the back-off wait that was asked for
    waited,    \* how much of it has passed
    alive,     \* the broker answers
    answer,    \* age of the PINGREQ the broker has still to answer, or NoPing
    unheard    \* history: age of the first PINGREQ since a packet last came, or NoPing

clockVars == <<npc, idle, ping, pollLeft, backoff, delay, waited, alive, answer, unheard>>
connVars == <<idle, ping, pollLeft>>
waitVars == <<backoff, delay, waited>>
brokerVars == <<alive, answer, unheard>>

NoPing == -1
Least(S) == CHOOSE x \in S : \A y \in S : x <= y
Most(x, y) == IF x >= y THEN x ELSE y

\* When the watchdog has to have acted: its interval, and the cap of a poll().
DetectionTime == Watchdog + PollCap
Older(age, cap) == IF age = NoPing THEN NoPing ELSE Least({age + 1, cap})

ClockInit ==
    /\ npc = "connect"
    /\ idle = 0 /\ ping = NoPing /\ pollLeft = 0
    /\ backoff = 0 /\ delay = 0 /\ waited = 0
    /\ alive = TRUE /\ answer = NoPing /\ unheard = NoPing
-----------------------------------------------------------------------------
(* Connecting, and the wait between two attempts.                          *)

\* CONNACK received: the back-off is cleared and the idle clock set.
Connected ==
    /\ npc = "connect" /\ alive
    /\ npc' = "round"
    /\ backoff' = 0
    /\ idle' = 0
    /\ UNCHANGED <<ping, pollLeft, delay, waited, brokerVars>>

NextBackoff(current) == Least({2 * current, ReconnectMax})

\* Mutant: the watchdog goes on counting on the next connection.
WatchdogKept == UNCHANGED ping
WatchdogReset == ping' = NoPing

\* onDisconnect() closes the socket, which resets the watchdog, and the loop
\* asks nextBackoffDelay() for the next wait: the current value plus jitter,
\* after which the value doubles up to the maximum.
Disconnect ==
    /\ WatchdogReset
    /\ answer' = NoPing
    /\ idle' = 0 /\ pollLeft' = 0 /\ unheard' = NoPing
    /\ npc' = "backoff"
    /\ LET current == IF backoff = 0 THEN ReconnectBase ELSE backoff IN
       /\ \E jitter \in Jitters : delay' = Most(1, current + (current * jitter) \div 100)
       /\ backoff' = NextBackoff(current)
    /\ waited' = 0

ConnectFails == npc = "connect" /\ Disconnect /\ UNCHANGED alive

\* waitWake() returns when the time is up ...
BackoffElapsed ==
    /\ npc = "backoff" /\ waited >= delay
    /\ npc' = "connect"
    /\ delay' = 0 /\ waited' = 0
    /\ UNCHANGED <<connVars, backoff, brokerVars>>

\* ... or as soon as a user thread queues a packet and writes to the pipe.
BackoffInterrupted ==
    /\ npc = "backoff"
    /\ npc' = "connect"
    /\ delay' = 0 /\ waited' = 0
    /\ UNCHANGED <<connVars, backoff, brokerVars>>
-----------------------------------------------------------------------------
(* A round of onlineLoop().                                                *)

\* Mutant: PINGREQ is due when the broker's patience is about to end.
PingDueLate == idle >= Watchdog
PingDue == idle >= Threshold

PollTimeout(newIdle, newPing) ==
    Most(1, Least({PollCap, Threshold - newIdle}
                    \cup (IF newPing = NoPing THEN {} ELSE {Watchdog - newPing})))

\* Steps 2 and 4: PINGREQ when idle for too long, which restarts the watchdog
\* even if it is running, then the poll time-out, up to the next deadline.
Round ==
    /\ npc = "round"
    /\ idle' = IF PingDue THEN 0 ELSE idle
    /\ ping' = IF PingDue THEN 0 ELSE ping
    /\ answer' = IF PingDue /\ alive THEN 0 ELSE answer
    /\ pollLeft' = PollTimeout(idle', ping')
    /\ unheard' = IF PingDue /\ unheard = NoPing THEN 0 ELSE unheard
    /\ npc' = "poll"
    /\ UNCHANGED <<waitVars, alive>>

\* poll() reports the socket: any packet from the broker clears the watchdog.
PacketArrives ==
    /\ npc = "poll" /\ alive
    /\ ping' = NoPing
    /\ unheard' = NoPing
    /\ answer' \in {NoPing, answer}
    /\ npc' = "watch"
    /\ UNCHANGED <<idle, pollLeft, waitVars, alive>>

\* poll() reports the pipe: the packet a user has queued goes out at the start
\* of the next round and counts as activity.
UserSends ==
    /\ npc = "poll"
    /\ idle' = 0
    /\ npc' = "watch"
    /\ UNCHANGED <<ping, pollLeft, waitVars, brokerVars>>

PollTimesOut ==
    /\ npc = "poll" /\ pollLeft = 0
    /\ npc' = "watch"
    /\ UNCHANGED <<connVars, waitVars, brokerVars>>

\* Step 5: the watchdog.
WatchdogExpired == ping # NoPing /\ ping > Watchdog

WatchdogQuiet ==
    /\ npc = "watch" /\ ~WatchdogExpired
    /\ npc' = "round"
    /\ UNCHANGED <<connVars, waitVars, brokerVars>>

WatchdogFires ==
    /\ npc = "watch" /\ WatchdogExpired
    /\ Disconnect
    /\ UNCHANGED alive

\* The connection is lost in a way the socket reports.
ConnectionLost ==
    /\ npc = "poll"
    /\ Disconnect
    /\ UNCHANGED alive
-----------------------------------------------------------------------------
(* The broker and the clock.                                               *)

\* The broker hangs, or the network swallows everything, without FIN or RST.
BrokerFallsSilent ==
    /\ alive
    /\ alive' = FALSE /\ answer' = NoPing
    /\ UNCHANGED <<npc, connVars, waitVars, unheard>>

BrokerRecovers ==
    /\ ~alive /\ npc \in {"backoff", "connect"}
    /\ alive' = TRUE
    /\ UNCHANGED <<npc, connVars, waitVars, answer, unheard>>

\* A live broker does not let its answer wait longer than MaxRtt, and poll()
\* and waitWake() do not sleep past their time-out.
Tick ==
    /\ answer < MaxRtt
    /\ \/ /\ npc = "poll" /\ pollLeft > 0
          /\ pollLeft' = pollLeft - 1
          /\ UNCHANGED waited
       \/ /\ npc = "backoff" /\ waited < delay
          /\ waited' = waited + 1
          /\ UNCHANGED pollLeft
    /\ idle' = IF npc = "poll" THEN idle + 1 ELSE idle
    /\ ping' = Older(ping, Watchdog + 1)
    /\ answer' = IF answer = NoPing THEN NoPing ELSE answer + 1
    /\ unheard' = Older(unheard, DetectionTime + 1)
    /\ UNCHANGED <<npc, backoff, delay, alive>>

ClockNext ==
    \/ Connected \/ ConnectFails \/ BackoffElapsed \/ BackoffInterrupted
    \/ Round \/ PacketArrives \/ UserSends \/ PollTimesOut
    \/ WatchdogQuiet \/ WatchdogFires \/ ConnectionLost
    \/ BrokerFallsSilent \/ BrokerRecovers \/ Tick

ClockSpec == ClockInit /\ [][ClockNext]_clockVars
-----------------------------------------------------------------------------
(* Properties.                                                             *)

\* Every variable has values of its kind.
ClockTypeOK ==
    /\ npc \in {"connect", "backoff", "round", "poll", "watch"}
    /\ idle \in Nat /\ pollLeft \in 0 .. PollCap
    /\ ping \in -1 .. Watchdog + 1
    /\ backoff \in Nat /\ delay \in Nat /\ waited \in 0 .. delay
    /\ alive \in BOOLEAN /\ answer \in -1 .. MaxRtt
    /\ unheard \in -1 .. DetectionTime + 1

\* The client keeps the promise of CONNECT: it is never silent for a whole
\* keepalive interval (mqtt_client.cpp, header comment 1).
KeepaliveKept == npc \in {"round", "poll", "watch"} => idle < Keepalive

\* The watchdog never kills a connection whose broker answers in time, whatever
\* happened on the connection before (closeSocket resets it, processIncoming
\* clears it).
NoFalseAlarm == [][WatchdogFires => ~alive]_clockVars

\* The wait before an attempt never exceeds the maximum by more than the jitter,
\* however many attempts have failed (header comment 6).
BackoffBounded ==
    LET top == Most(ReconnectBase, ReconnectMax) IN 10 * delay <= 13 * top

\* The clocks keep these bounds together.
TimersKept == ClockTypeOK /\ KeepaliveKept /\ BackoffBounded

\* A connection on which nothing has come in for 1.5 keepalive after a PINGREQ
\* is given up (step 5 of onlineLoop; docs/use-guide.md 3.3).
UnheardIsDetected == unheard <= DetectionTime
=============================================================================
