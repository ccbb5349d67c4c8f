-------------------------------- MODULE Gateway --------------------------------
(***************************************************************************)
(* The gateway of src/app/gateway.{h,cpp}: the thread that starts and      *)
(* stops it, the acquisition thread that polls the points over the serial  *)
(* line and judges the line, the telemetry thread, and the two channels    *)
(* (MQTT and the TCP command server) whose threads run commands.           *)
(*                                                                         *)
(* A step is one critical section of m_mutex, one serial transaction, one  *)
(* access to a variable two threads share, or one call of dispatch().      *)
(* m_serialMutex is held by whoever is at "line"; m_cvMutex is held by the *)
(* acquisition thread through a whole round.                               *)
(*                                                                         *)
(* Time is not modelled: any points may be due when the thread wakes up,   *)
(* and a transaction takes as long as it takes.                            *)
(***************************************************************************)
EXTENDS Naturals, StateMachine

\* An operator introduced by "Mutant:" is not part of the model: it is what a
\* plausible bug would make of the definition that follows it.

CONSTANTS
    ReadPoints,         \* points read from the slave
    WritePoints,        \* writable points (function code 06)
    Channels,           \* the command channels configured, among AllChannels
    Commands,           \* the commands they are sent, among AllCommands
    Values,             \* values written to registers
    InitialValue,       \* the value of every register before the first write
    kSerialFailRounds,  \* failed rounds that make a fault (3 in the code)
    MaxStarts,          \* bound: calls of start()
    MaxCommands,        \* bound: commands on all channels
    MaxOutages          \* bound: times the wiring fails

AllChannels == {"mqtt", "cmd"}
AllCommands == {"write_reg", "set_period", "inject_fault", "recover"}
Points == ReadPoints \cup WritePoints
FaultModes == {"none", "no_response", "corrupt"}

ASSUME GatewayAssumption ==
    /\ ReadPoints \cap WritePoints = {} /\ Points # {}
    /\ Channels \subseteq AllChannels /\ Commands \subseteq AllCommands
    /\ InitialValue \in Values
    /\ kSerialFailRounds \in Nat \ {0}
    /\ MaxStarts \in Nat /\ MaxCommands \in Nat /\ MaxOutages \in Nat

VARIABLES
    sm,          \* m_sm: the state machine
    lpc,         \* where the thread that starts and stops the gateway is
    running,     \* m_running
    made,        \* the channels that have been constructed
    portOpen,    \* the serial port is open
    stopAcq,     \* m_stopAcq
    stopTelem,   \* m_stopTelem
    apc,         \* where the acquisition thread is
    due,         \* points of this round not yet processed
    cur,         \* the point being processed
    okAny,       \* okCount > 0
    loaded,      \* the register that ++m_consecutiveFailRounds goes through
    failRounds,  \* m_consecutiveFailRounds, up to kSerialFailRounds
    allDue,      \* the master's schedule has just been reset
    tpc,         \* where the telemetry thread is
    channel,     \* whether each channel is up
    cpc,         \* where each channel's thread is in a command
    arg,         \* the point and value of its write_reg
    quality,     \* quality of each point in m_points
    shown,       \* value of each writable point in m_points
    alarm,       \* points in alarm in m_rules
    status,      \* the status last published
    wired,       \* the wiring works
    fault,       \* the fault mode of the simulated slave
    reg,         \* the slave's register behind each writable point
    failRun,     \* history: failed rounds in a row, up to kSerialFailRounds
    readOk,      \* history: this round has read a register
    starts, commands, outages  \* history: budgets spent

smVars    == <<sm>>
mainVars  == <<lpc, running, made, starts>>
portVars  == <<portOpen>>
flagVars  == <<stopAcq, stopTelem>>
roundVars == <<apc, due, cur, okAny, loaded, failRun, readOk>>
cmdVars   == <<channel, cpc, arg, commands>>
tableVars == <<quality, shown, alarm>>
slaveVars == <<wired, fault, reg, outages>>
vars == <<smVars, mainVars, portVars, flagVars, roundVars, failRounds, allDue,
          tpc, cmdVars, tableVars, status, slaveVars>>

NoWrite == [p |-> "none", v |-> InitialValue]

Init ==
    /\ sm = "Init"
    /\ lpc = "idle" /\ running = FALSE /\ made = {} /\ starts = 0
    /\ portOpen = FALSE
    /\ stopAcq = FALSE /\ stopTelem = FALSE
    /\ apc = "none" /\ due = {} /\ cur = "none" /\ okAny = FALSE /\ loaded = 0
    /\ failRun = 0 /\ readOk = FALSE
    /\ failRounds = 0 /\ allDue = TRUE
    /\ tpc = "none"
    /\ channel = [c \in Channels |-> "off"] /\ cpc = [c \in Channels |-> "idle"]
    /\ arg = [c \in Channels |-> NoWrite] /\ commands = 0
    /\ quality = [p \in Points |-> "Bad"]
    /\ shown = [p \in WritePoints |-> InitialValue]
    /\ alarm = {} /\ status = "none"
    /\ wired = TRUE /\ fault = "none"
    /\ reg = [p \in WritePoints |-> InitialValue] /\ outages = 0
-----------------------------------------------------------------------------
Dispatch(ev) == sm' = After(sm, ev)

Saturated(n) == IF n > kSerialFailRounds THEN kSerialFailRounds ELSE n
-----------------------------------------------------------------------------
(* start(): one step per setup function.                                   *)

StartCall ==
    /\ lpc = "idle" /\ ~running /\ starts < MaxStarts
    /\ starts' = starts + 1
    /\ Dispatch("ConfigLoaded")
    /\ lpc' = "setupSerial"
    /\ UNCHANGED <<running, made, portVars, flagVars, roundVars, failRounds,
                   allDue, tpc, cmdVars, tableVars, status, slaveVars>>

\* A new master, a new table and, with pty-sim, a new slave.
FreshTable ==
    /\ quality' = [p \in Points |-> "Bad"]
    /\ shown' = [p \in WritePoints |-> InitialValue]
    /\ alarm' = {}
    /\ allDue' = TRUE

SetupSerial ==
    /\ lpc = "setupSerial"
    /\ portOpen' = TRUE
    /\ FreshTable
    /\ fault' = "none"
    /\ reg' = [p \in WritePoints |-> InitialValue]
    /\ lpc' = "setupMqtt"
    /\ UNCHANGED <<smVars, running, made, starts, flagVars, roundVars, failRounds,
                   tpc, cmdVars, status, wired, outages>>

\* It may fail before or after the port is opened and the table filled in;
\* start() then returns at once.
SetupSerialFails ==
    /\ lpc = "setupSerial"
    /\ \/ portOpen' = FALSE /\ UNCHANGED <<tableVars, allDue>>
       \/ portOpen' = TRUE /\ (FreshTable \/ UNCHANGED <<tableVars, allDue>>)
    /\ Dispatch("Fatal")
    /\ lpc' = "idle"
    /\ UNCHANGED <<running, made, starts, flagVars, roundVars, failRounds, tpc,
                   cmdVars, status, slaveVars>>

\* setupMqtt() and setupCmdServer(); a channel that is not configured is
\* skipped, one that fails to start takes everything down again.
SetupChannel(c, next) ==
    IF c \in Channels
    THEN /\ made' = made \cup {c}
         /\ \/ /\ channel' = [channel EXCEPT ![c] = "on"]
               /\ lpc' = next
               /\ UNCHANGED sm
            \/ /\ Dispatch("Fatal")
               /\ lpc' = "rollback"
               /\ UNCHANGED channel
    ELSE lpc' = next /\ UNCHANGED <<made, channel, sm>>

SetupChannels ==
    /\ \/ lpc = "setupMqtt" /\ SetupChannel("mqtt", "setupCmd")
       \/ lpc = "setupCmd" /\ SetupChannel("cmd", "threads")
    /\ UNCHANGED <<running, starts, portVars, flagVars, roundVars, failRounds,
                   allDue, tpc, cpc, arg, commands, tableVars, status, slaveVars>>

StartThreads ==
    /\ lpc = "threads"
    /\ stopAcq' = FALSE /\ stopTelem' = FALSE
    /\ apc' = "waiting" /\ tpc' = "waiting"
    /\ lpc' = "startEvent"
    /\ UNCHANGED <<smVars, running, made, starts, portVars, due, cur, okAny, loaded,
                   failRun, readOk, failRounds, allDue, cmdVars, tableVars, status,
                   slaveVars>>

\* No transition callback is ever registered: a dispatch publishes nothing
\* and resets no alarm.
StartEvent ==
    /\ lpc = "startEvent"
    /\ Dispatch("Start")
    /\ running' = TRUE
    /\ lpc' = "idle"
    /\ UNCHANGED <<made, starts, portVars, flagVars, roundVars, failRounds, allDue,
                   tpc, cmdVars, tableVars, status, slaveVars>>
-----------------------------------------------------------------------------
(* stop(), called by the user or to undo a start() that has failed.        *)

StopCall ==
    /\ \/ lpc = "rollback"
       \/ lpc = "idle" /\ (running \/ made # {})
    /\ Dispatch("Stop")
    /\ lpc' = "stopAcq"
    /\ UNCHANGED <<running, made, starts, portVars, flagVars, roundVars, failRounds,
                   allDue, tpc, cmdVars, tableVars, status, slaveVars>>

\* Mutant: stop() sets the flag and does not wait for the thread.
DetachAcq == UNCHANGED apc
JoinAcq == apc \in {"none", "done"} /\ apc' = "none"

JoinTelem == tpc \in {"none", "done"} /\ tpc' = "none"

StopThreads ==
    /\ \/ /\ lpc = "stopAcq"
          /\ stopAcq' = TRUE
          /\ lpc' = "joinAcq"
          /\ UNCHANGED <<stopTelem, apc, tpc>>
       \/ /\ lpc = "joinAcq"
          /\ JoinAcq
          /\ lpc' = "stopTelem"
          /\ UNCHANGED <<flagVars, tpc>>
       \/ /\ lpc = "stopTelem"
          /\ stopTelem' = TRUE
          /\ lpc' = "joinTelem"
          /\ UNCHANGED <<stopAcq, apc, tpc>>
       \/ /\ lpc = "joinTelem"
          /\ JoinTelem
          /\ lpc' = "stopMqtt"
          /\ UNCHANGED <<flagVars, apc>>
    /\ UNCHANGED <<smVars, running, made, starts, portVars, due, cur, okAny, loaded,
                   failRun, readOk, failRounds, allDue, cmdVars, tableVars, status,
                   slaveVars>>

\* Stopping a channel joins its thread, so the command it runs is finished.
StopChannel(c, next) ==
    /\ c \in Channels => cpc[c] = "idle"
    /\ channel' = [d \in Channels |-> IF d = c THEN "off" ELSE channel[d]]
    /\ lpc' = next

StopChannels ==
    /\ \/ lpc = "stopMqtt" /\ StopChannel("mqtt", "stopCmd")
       \/ lpc = "stopCmd" /\ StopChannel("cmd", "close")
    /\ UNCHANGED <<smVars, running, made, starts, portVars, flagVars, roundVars,
                   failRounds, allDue, tpc, cpc, arg, commands, tableVars, status,
                   slaveVars>>

ClosePorts ==
    /\ lpc = "close"
    /\ portOpen' = FALSE
    /\ running' = FALSE
    /\ lpc' = "idle"
    /\ UNCHANGED <<smVars, made, starts, flagVars, roundVars, failRounds, allDue,
                   tpc, cmdVars, tableVars, status, slaveVars>>

MainStep ==
    \/ StartCall \/ SetupSerial \/ SetupSerialFails \/ SetupChannels
    \/ StartThreads \/ StartEvent
    \/ StopCall \/ StopThreads \/ StopChannels \/ ClosePorts
-----------------------------------------------------------------------------
(* The serial line.  m_serialMutex is held by the thread at "line".        *)

LineGood == wired /\ fault = "none"

SerialFree == apc # "line" /\ \A c \in Channels : cpc[c] # "line"

\* Mutant: the acquisition thread sleeps with the mutex held.
SleepsWithCv == apc \notin {"none", "done"}
AcqHasCv == apc \notin {"none", "waiting", "done"}
\* Mutant: stop() holds the mutex while it joins the acquisition thread.
OthersHaveCv == tpc = "publish" \/ lpc = "joinAcq"
TelemHasCv == tpc = "publish"
-----------------------------------------------------------------------------
(* The acquisition thread.  It waits with m_cvMutex released and takes the *)
(* mutex back for a whole round; a stop flag seen then ends the thread.    *)

AcqExit ==
    /\ apc = "waiting" /\ ~TelemHasCv /\ stopAcq
    /\ apc' = "done"
    /\ UNCHANGED <<smVars, mainVars, portVars, flagVars, due, cur, okAny, loaded,
                   failRun, readOk, failRounds, allDue, tpc, cmdVars, tableVars,
                   status, slaveVars>>

\* duePoints(): after a reset of the schedule every point is due.  A round
\* without a due point does nothing.
AcqRound(D) ==
    /\ apc = "waiting" /\ ~TelemHasCv /\ ~stopAcq
    /\ D \in SUBSET Points \ {{}} /\ (allDue => D = Points)
    /\ due' = D
    /\ allDue' = FALSE
    /\ okAny' = FALSE /\ readOk' = FALSE
    /\ apc' = "point"
    /\ UNCHANGED <<smVars, mainVars, portVars, flagVars, cur, loaded, failRun,
                   failRounds, tpc, cmdVars, tableVars, status, slaveVars>>

\* processPoint(): a writable point has no read; it counts as a success.
ReadOrCount(p) ==
    \/ p \in WritePoints /\ okAny' = TRUE /\ UNCHANGED apc
    \/ p \in ReadPoints /\ apc' = "lock" /\ UNCHANGED okAny

AcqPoint ==
    /\ apc = "point"
    /\ \E p \in due :
        /\ cur' = p
        /\ due' = due \ {p}
        /\ ReadOrCount(p)
    /\ UNCHANGED <<smVars, mainVars, portVars, flagVars, loaded, failRun, readOk,
                   failRounds, allDue, tpc, cmdVars, tableVars, status, slaveVars>>

AcqLock ==
    /\ apc = "lock" /\ SerialFree
    /\ apc' = "line"
    /\ UNCHANGED <<smVars, mainVars, portVars, flagVars, due, cur, okAny, loaded,
                   failRun, readOk, failRounds, allDue, tpc, cmdVars, tableVars,
                   status, slaveVars>>

\* The transaction: an answer, or a failure noted before the mutex is released.
AcqRead ==
    /\ apc = "line"
    /\ \/ /\ LineGood
          /\ apc' = "store"
          /\ UNCHANGED quality
       \/ /\ ~LineGood
          /\ quality' = [quality EXCEPT ![cur] = "Bad"]
          /\ apc' = "point"
    /\ readOk' = (readOk \/ LineGood)
    /\ UNCHANGED <<smVars, mainVars, portVars, flagVars, due, cur, okAny, loaded,
                   failRun, failRounds, allDue, tpc, cmdVars, shown, alarm, status,
                   slaveVars>>

\* The table, then the alarm rules; whatever the value, the point may enter,
\* keep or leave its alarm, and a change is published as an event.
AcqStore ==
    /\ apc = "store"
    /\ quality' = [quality EXCEPT ![cur] = "Good"]
    /\ alarm' \in {alarm \cup {cur}, alarm \ {cur}}
    /\ okAny' = TRUE
    /\ apc' = "point"
    /\ UNCHANGED <<smVars, mainVars, portVars, flagVars, due, cur, loaded, failRun,
                   readOk, failRounds, allDue, tpc, cmdVars, shown, status, slaveVars>>

\* Mutant: the state is compared with the one that has just been tested above.
RecoveryDueRunning == failRounds >= kSerialFailRounds /\ sm = "Running"
RecoveryDue == failRounds >= kSerialFailRounds /\ sm = "Fault"

\* The round is over.  ++m_consecutiveFailRounds is a load and a store, and
\* nothing keeps recover() from writing in between.
AcqTally ==
    /\ apc = "point" /\ due = {}
    /\ IF okAny
       THEN /\ apc' = IF RecoveryDue THEN "recovered" ELSE "reset"
            /\ failRun' = 0
            /\ UNCHANGED loaded
       ELSE /\ loaded' = failRounds
            /\ failRun' = Saturated(failRun + 1)
            /\ apc' = "count"
    /\ cur' = "none"
    /\ UNCHANGED <<smVars, mainVars, portVars, flagVars, due, okAny, readOk,
                   failRounds, allDue, tpc, cmdVars, tableVars, status, slaveVars>>

AcqCount ==
    /\ apc = "count"
    /\ failRounds' = Saturated(loaded + 1)
    /\ apc' = "judge"
    /\ UNCHANGED <<smVars, mainVars, portVars, flagVars, due, cur, okAny, loaded,
                   failRun, readOk, allDue, tpc, cmdVars, tableVars, status, slaveVars>>

\* Mutants: == in place of >=; one round too early.
JudgeOnce(n) == n = kSerialFailRounds /\ sm = "Running"
JudgeEarly(n) == n + 1 >= kSerialFailRounds /\ sm = "Running"
Judge(n) == n >= kSerialFailRounds /\ sm = "Running"

\* The comparison uses the value just stored or reads the variable again.
AcqJudge ==
    /\ apc = "judge"
    /\ \E n \in {loaded + 1, failRounds} :
         apc' = IF Judge(n) THEN "error" ELSE "waiting"
    /\ loaded' = 0
    /\ UNCHANGED <<smVars, mainVars, portVars, flagVars, due, cur, okAny, failRun,
                   readOk, failRounds, allDue, tpc, cmdVars, tableVars, status,
                   slaveVars>>

AcqError ==
    /\ apc = "error"
    /\ Dispatch("SerialError")
    /\ apc' = "waiting"
    /\ UNCHANGED <<mainVars, portVars, flagVars, due, cur, okAny, loaded, failRun,
                   readOk, failRounds, allDue, tpc, cmdVars, tableVars, status,
                   slaveVars>>

AcqRecovered ==
    /\ apc = "recovered"
    /\ Dispatch("SerialRecovered")
    /\ apc' = "reset"
    /\ UNCHANGED <<mainVars, portVars, flagVars, due, cur, okAny, loaded, failRun,
                   readOk, failRounds, allDue, tpc, cmdVars, tableVars, status,
                   slaveVars>>

\* Mutant: the counter is left alone by a round with a success.
FailuresKept == UNCHANGED failRounds
FailuresForgotten == failRounds' = 0

AcqReset ==
    /\ apc = "reset"
    /\ FailuresForgotten
    /\ apc' = "waiting"
    /\ UNCHANGED <<smVars, mainVars, portVars, flagVars, due, cur, okAny, loaded,
                   failRun, readOk, allDue, tpc, cmdVars, tableVars, status, slaveVars>>

AcqStep ==
    \/ AcqExit \/ \E D \in SUBSET Points : AcqRound(D)
    \/ AcqPoint \/ AcqLock \/ AcqRead \/ AcqStore
    \/ AcqTally \/ AcqCount \/ AcqJudge \/ AcqError \/ AcqRecovered \/ AcqReset
-----------------------------------------------------------------------------
(* The telemetry thread: each period ends with a snapshot of the table     *)
(* handed to the MQTT client, with m_cvMutex held.                         *)

TelemStep ==
    /\ \/ tpc = "waiting" /\ ~AcqHasCv /\ ~stopTelem /\ tpc' = "publish"
       \/ tpc = "publish" /\ tpc' = "waiting"
       \/ tpc = "waiting" /\ ~AcqHasCv /\ stopTelem /\ tpc' = "done"
    /\ UNCHANGED <<smVars, mainVars, portVars, flagVars, roundVars, failRounds,
                   allDue, cmdVars, tableVars, status, slaveVars>>
-----------------------------------------------------------------------------
(* The channels.  handleCommand() runs in the channel's own thread.        *)

BeginCommand(c, cmd) ==
    /\ channel[c] = "on" /\ cpc[c] = "idle"
    /\ cmd \in Commands /\ commands < MaxCommands
    /\ commands' = commands + 1

\* writeRegister() looks the point up, then queues for the serial mutex.
WriteReg(c, p, v) ==
    /\ BeginCommand(c, "write_reg")
    /\ arg' = [arg EXCEPT ![c] = [p |-> p, v |-> v]]
    /\ cpc' = [cpc EXCEPT ![c] = "lock"]
    /\ UNCHANGED <<smVars, mainVars, portVars, flagVars, roundVars, failRounds,
                   allDue, tpc, channel, tableVars, status, slaveVars>>

WriteLock(c) ==
    /\ cpc[c] = "lock" /\ SerialFree
    /\ cpc' = [cpc EXCEPT ![c] = "line"]
    /\ UNCHANGED <<smVars, mainVars, portVars, flagVars, roundVars, failRounds,
                   allDue, tpc, channel, arg, commands, tableVars, status, slaveVars>>

WriteFailed(p) == quality' = [quality EXCEPT ![p] = "Bad"]

\* The slave stores the value before it answers, so a write whose answer is
\* corrupt has been done; on broken wiring either direction may be the one
\* that is cut.
WriteTransaction(c) ==
    /\ cpc[c] = "line"
    /\ LET p == arg[c].p
           done == [reg EXCEPT ![p] = arg[c].v] IN
       \/ /\ LineGood
          /\ reg' = done
          /\ cpc' = [cpc EXCEPT ![c] = "store"]
          /\ UNCHANGED <<quality, arg>>
       \/ /\ ~LineGood
          /\ reg' \in (IF ~wired THEN {reg, done}
                      ELSE IF fault = "no_response" THEN {reg} ELSE {done})
          /\ WriteFailed(p)
          /\ cpc' = [cpc EXCEPT ![c] = "idle"]
          /\ arg' = [arg EXCEPT ![c] = NoWrite]
    /\ UNCHANGED <<smVars, mainVars, portVars, flagVars, roundVars, failRounds,
                   allDue, tpc, channel, commands, shown, alarm, status, wired,
                   fault, outages>>

\* The table is brought up to date after the serial mutex is released.
WriteStore(c) ==
    /\ cpc[c] = "store"
    /\ shown' = [shown EXCEPT ![arg[c].p] = arg[c].v]
    /\ quality' = [quality EXCEPT ![arg[c].p] = "Good"]
    /\ cpc' = [cpc EXCEPT ![c] = "idle"]
    /\ arg' = [arg EXCEPT ![c] = NoWrite]
    /\ UNCHANGED <<smVars, mainVars, portVars, flagVars, roundVars, failRounds,
                   allDue, tpc, channel, commands, alarm, status, slaveVars>>

\* setPeriodMs() configures the master anew: its schedule starts again.
SetPeriod(c) ==
    /\ BeginCommand(c, "set_period")
    /\ allDue' = TRUE
    /\ UNCHANGED <<smVars, mainVars, portVars, flagVars, roundVars, failRounds, tpc,
                   channel, cpc, arg, tableVars, status, slaveVars>>

InjectFault(c, mode) ==
    /\ BeginCommand(c, "inject_fault")
    /\ fault' = mode
    /\ UNCHANGED <<smVars, mainVars, portVars, flagVars, roundVars, failRounds,
                   allDue, tpc, channel, cpc, arg, tableVars, status, wired, reg,
                   outages>>

\* recover(): the slave, then the counter, then a look at the state, then the
\* transition, with no lock held between them.
Recover(c) ==
    /\ BeginCommand(c, "recover")
    /\ fault' = "none"
    /\ cpc' = [cpc EXCEPT ![c] = "forget"]
    /\ UNCHANGED <<smVars, mainVars, portVars, flagVars, roundVars, failRounds,
                   allDue, tpc, channel, arg, tableVars, status, wired, reg, outages>>

RecoverStep(c) ==
    /\ \/ /\ cpc[c] = "forget"
          /\ failRounds' = 0
          /\ cpc' = [cpc EXCEPT ![c] = "look"]
          /\ UNCHANGED sm
       \/ /\ cpc[c] = "look"
          /\ cpc' = [cpc EXCEPT ![c] = IF sm = "Fault" THEN "pull" ELSE "idle"]
          /\ UNCHANGED <<sm, failRounds>>
       \/ /\ cpc[c] = "pull"
          /\ Dispatch("SerialRecovered")
          /\ cpc' = [cpc EXCEPT ![c] = "idle"]
          /\ UNCHANGED failRounds
    /\ UNCHANGED <<mainVars, portVars, flagVars, roundVars, allDue, tpc, channel,
                   arg, commands, tableVars, status, slaveVars>>

CommandStep(c) ==
    \/ \E p \in WritePoints, v \in Values : WriteReg(c, p, v)
    \/ WriteLock(c) \/ WriteTransaction(c) \/ WriteStore(c)
    \/ SetPeriod(c)
    \/ \E mode \in FaultModes : InjectFault(c, mode)
    \/ Recover(c) \/ RecoverStep(c)
-----------------------------------------------------------------------------
\* onMqttState(): a connection, also a new one, publishes the state.
MqttConnects ==
    /\ "mqtt" \in Channels /\ channel["mqtt"] = "on" /\ cpc["mqtt"] = "idle"
    /\ status' = sm
    /\ UNCHANGED <<smVars, mainVars, portVars, flagVars, roundVars, failRounds,
                   allDue, tpc, cmdVars, tableVars, slaveVars>>

WiringFails ==
    /\ wired /\ outages < MaxOutages
    /\ outages' = outages + 1
    /\ wired' = FALSE
    /\ UNCHANGED <<smVars, mainVars, portVars, flagVars, roundVars, failRounds,
                   allDue, tpc, cmdVars, tableVars, status, fault, reg>>

WiringMended ==
    /\ ~wired
    /\ wired' = TRUE
    /\ UNCHANGED <<smVars, mainVars, portVars, flagVars, roundVars, failRounds,
                   allDue, tpc, cmdVars, tableVars, status, fault, reg, outages>>

Next ==
    \/ MainStep \/ AcqStep \/ TelemStep
    \/ \E c \in Channels : CommandStep(c)
    \/ MqttConnects \/ WiringFails \/ WiringMended

Spec == Init /\ [][Next]_vars
-----------------------------------------------------------------------------
(* Fairness: every thread runs on; a thread that waits for a mutex which   *)
(* is released again and again gets it; no point that is read is for ever  *)
(* left out of the rounds, because its period passes.  A writable point    *)
(* may be due often, seldom or never: its period is a matter of taste.     *)
(* Nobody has to call start() or stop() or send a command, and the wiring  *)
(* need not fail or be mended.                                             *)

AcqBusy == AcqStep /\ apc # "waiting"
FinishCommand(c) == WriteTransaction(c) \/ WriteStore(c) \/ RecoverStep(c)
FinishMain == MainStep /\ lpc # "idle"

Fairness ==
    /\ WF_vars(FinishMain)
    /\ SF_vars(AcqExit)
    /\ \A p \in ReadPoints : SF_vars(\E D \in SUBSET Points : p \in D /\ AcqRound(D))
    /\ WF_vars(AcqBusy /\ apc # "lock") /\ SF_vars(AcqLock)
    /\ SF_vars(TelemStep)
    /\ \A c \in Channels : WF_vars(FinishCommand(c)) /\ SF_vars(WriteLock(c))

FairSpec == Spec /\ Fairness
-----------------------------------------------------------------------------
(* Properties.                                                             *)

MainStates == {"idle", "setupSerial", "setupMqtt", "setupCmd", "threads",
               "startEvent", "rollback", "stopAcq", "joinAcq", "stopTelem",
               "joinTelem", "stopMqtt", "stopCmd", "close"}
AcqStates == {"none", "waiting", "point", "lock", "line", "store", "count", "judge",
              "error", "recovered", "reset", "done"}
CommandStates == {"idle", "lock", "line", "store", "forget", "look", "pull"}
FailCounts == 0 .. kSerialFailRounds

\* Every variable has values of its kind.
TypeOK ==
    /\ sm \in States
    /\ lpc \in MainStates
    /\ running \in BOOLEAN /\ portOpen \in BOOLEAN
    /\ made \subseteq Channels
    /\ stopAcq \in BOOLEAN /\ stopTelem \in BOOLEAN
    /\ apc \in AcqStates
    /\ due \subseteq Points
    /\ apc \in {"lock", "line", "store"} => cur \in ReadPoints
    /\ okAny \in BOOLEAN /\ readOk \in BOOLEAN
    /\ loaded \in FailCounts /\ failRounds \in FailCounts /\ failRun \in FailCounts
    /\ allDue \in BOOLEAN
    /\ tpc \in {"none", "waiting", "publish", "done"}
    /\ channel \in [Channels -> {"on", "off"}]
    /\ cpc \in [Channels -> CommandStates]
    /\ \A c \in Channels : cpc[c] \in {"lock", "line", "store"} =>
          arg[c] \in [p : WritePoints, v : Values]
    /\ quality \in [Points -> {"Good", "Bad"}]
    /\ shown \in [WritePoints -> Values] /\ reg \in [WritePoints -> Values]
    /\ alarm \subseteq ReadPoints
    /\ status \in States \cup {"none"}
    /\ wired \in BOOLEAN /\ fault \in FaultModes

\* Running turns into Fault only after kSerialFailRounds rounds in a row in
\* which nothing succeeded, whatever recover() does to the counter meanwhile
\* (gateway.cpp, pollDuePoints).
FaultIsEarned == [][sm = "Running" /\ sm' = "Fault" => failRun = kSerialFailRounds]_vars

\* A round with a success ends outside Fault (the comment above the judgement
\* in pollDuePoints).
SuccessLeavesFault == [][apc = "reset" /\ apc' = "waiting" => sm' # "Fault"]_vars

\* The order of stop() keeps the port open under every transaction ...
LineNeedsPort ==
    apc = "line" \/ (\E c \in Channels : cpc[c] = "line") => portOpen

\* ... keeps the MQTT client up as long as a thread may publish through it ...
PublishNeedsMqtt ==
    "mqtt" \in Channels /\ channel["mqtt"] = "off" =>
        tpc # "publish" /\ apc # "store"

\* ... and leaves nothing running behind (header comment 3).
StoppedIsQuiet ==
    lpc = "idle" /\ ~running =>
        /\ apc = "none" /\ tpc = "none"
        /\ \A c \in Channels : channel[c] = "off" /\ cpc[c] = "idle"

\* Nothing outlives what it uses, in any order of starts, failed starts, stops
\* and commands.
LifecycleSafe == TypeOK /\ LineNeedsPort /\ PublishNeedsMqtt /\ StoppedIsQuiet

\* A line that stays dead is found out for good, or else rounds go on in which a
\* writable point was due: it has no read and counts as a success (gateway.cpp:495),
\* so such a round forgets the failures before it, and takes a gateway in Fault back
\* to Running.  Even then the line is found out again and again, provided that
\* kSerialFailRounds rounds in a row without one come again and again.
Acquiring == apc # "none" /\ ~stopAcq
Blind == apc = "reset" /\ ~readOk
FaultDetected ==
    <>[](Acquiring /\ ~LineGood) =>
        \/ <>[](sm # "Running")
        \/ []<>Blind /\ ([]<>(failRun = kSerialFailRounds) => []<>(sm # "Running"))

\* ... a line that stays sound is put back into service, ...
FaultCleared == <>[](Acquiring /\ LineGood) => <>[](sm # "Fault")

\* ... telemetry goes on all the while, although both threads share a mutex,
TelemetryContinues == tpc = "waiting" ~> (tpc = "publish" \/ stopTelem)

\* and stop() returns.
StopReturns ==
    lpc \in {"rollback", "stopAcq", "joinAcq", "stopTelem", "joinTelem", "stopMqtt",
             "stopCmd", "close"} ~> lpc = "idle"
-----------------------------------------------------------------------------
(* What comments and documents promise and the code does not keep; the      *)
(* README tells how each fails.  No theorem or passing run uses them.       *)

\* The acquisition thread leaves Fault because the line has recovered
\* (docs/architecture.md:143): the round has read a register.
RecoveryIsReal == [][apc = "recovered" /\ sm = "Fault" /\ sm' = "Running" => readOk]_vars

\* A writable point of good quality shows what is in the slave's register,
\* once no write is under way.
GoodIsTrue ==
    portOpen /\ (\A c \in Channels : cpc[c] \notin {"lock", "line", "store"}) =>
        \A p \in WritePoints : quality[p] = "Good" => shown[p] = reg[p]

\* Every transition publishes the new state (header comment 4).
StatusFollows ==
    [][sm' # sm /\ "mqtt" \in Channels /\ channel["mqtt"] = "on" => status' = sm']_vars

\* Coming back from Fault clears the alarms (header comment 4).
AlarmsReset == [][sm = "Fault" /\ sm' = "Running" => alarm' = {}]_vars
=============================================================================
