# Verification of EdgeGate

EdgeGate (C++17, `src/src`) is an industrial gateway: it polls registers over
Modbus RTU, filters them and raises alarms, publishes telemetry over MQTT, and
takes commands over MQTT and a TCP socket.  This directory holds TLA+ models of
the parts in which threads, time-outs and failures meet and of the codecs they
rest on, the TLC runs that check them, and proofs for TLAPS.  Paths below are relative to `src/src` unless they
start with `docs/` or `tests/`.

Run `tlc -workers 2 -config <run>.cfg <module>` for a run (the table in section 4
names the modules) and `tlapm <module>_proofs.tla` for the proofs (section 5).

## 1. Inventory

| Component | State it keeps | Operations | Hard behaviour | What makes it correct |
|---|---|---|---|---|
| MQTT client `net/mqtt_client` | transmit queue, packet ids, pending QoS 1 publishes, subscription table, wake-up pipe, socket, `m_isConnected`, `m_stop` | `start`, `stop`, `publish`, `subscribe`, `unsubscribe`; network thread: connect, handshake, announce and resubscribe, drain, resend, receive, disconnect, back-off | users queue packets while the thread sends a private batch; wake-ups through a pipe that is drained in several places; resends racing with late PUBACKs; reconnection between any two steps; `stop` in any wait | no lost wake-up; queue order and exactly-once up to DUP; genuine acknowledgements; no lost subscription; `stop` returns |
| MQTT keepalive (same file) | `m_idleSinceMs`, `m_pingSentAtMs`, `m_backoffMs` | PINGREQ, watchdog, back-off with jitter | three clocks restarted by each other | keepalive kept; a dead broker found, a live one never condemned; back-off bounded |
| Gateway `app/gateway` | point table, failure counter, state machine, stop flags, the channels and the port | `start` (six setups, rollback), `stop` (ordered joins), acquisition rounds, telemetry, `write_reg`, `set_period`, `inject_fault`, `recover` | four threads; a failure counter written without a lock; judgement and dispatch in two steps; two threads asleep on one mutex; table updates after the serial lock is released | Fault only when earned, and left on success; nothing uses what `stop` has taken down; `stop` returns |
| State machine `core/state_machine` | current state | `dispatch` | called from several threads | only the transitions of the table |
| Modbus master and slave `modbus/` | receive buffer, transaction mutex; registers, fault mode | `readPoint`, `writeRegister`; `handleFrame`, `injectFault` | frames without numbers, answers lost, damaged, late or glued; concurrent callers | one transaction at a time; residue never accepted; calls behave as operations on atomic registers |
| Command server `net/cmd_server` | client slots with receive and transmit buffers, idle time, poll events | accept, receive, split into lines, answer, flush, close, `stop` | clients appear and vanish inside the loop that walks the poll events; partial receives and sends; limits | events stay with their client; no line or answer lost, split or reordered; silent clients dropped |
| HTTP server `net/http_server` | up to 4 slots | accept, one request, close | the poll events shift against the slots; idle check only when `poll` times out | the same as for the command server |
| Ring buffer `core/ring_buffer.h` | slots, two indices, a count | `push`, `pop` (wait with a limit), `tryPush`, `tryPop`, `clear` | two condition variables, notified after the mutex is released | FIFO, no wake-up lost (unused by the application) |
| Thread, PeriodicTask `core/thread_utils` | stop flag, condition variable | `start`, `stop`, period | `stop` notifies without the mutex, against the timed wait | no run after `stop`; both calls return |
| Event bus `core/event_bus` | subscriber list | `subscribe`, `unsubscribe`, `publish` | handlers run from a snapshot, while the table changes, and may call the bus | each handler that should be called is, once |
| Edge `edge/` | hysteresis flags; ring and running sum | `evaluate`; `push` | boundaries of the hysteresis band, window of one, readings that are infinite or NaN | events alternate; the mean is that of the window |
| RTU codec and CRC `modbus/modbus_rtu`, `modbus/modbus_crc` | none | encode, decode | frames end at silences only; request and answer are told apart by the parity of the length | what the line spoils is refused, what it leaves whole is understood |
| MQTT codec `net/mqtt_packets` | none | encode, decode | a stream cut anywhere; lengths at the boundaries of their bytes, lengths within lengths | decode inverts encode; malformed and incomplete are not confused |
| JSON `util/json` | a document | parse, dump, set, append | numbers beyond int64, surrogates, nesting at its limit | the grammar and nothing else is accepted; what is written is read back |
| Program `app/main`, `app/cli`; Qt UI `ui/qt` | signal flag and pipe, line buffer, window, PID file | run, watch, quit, close | signal, end of input and closed window in any order, three threads to end | threads end before what they use; the program ends when told |
| Serial port, PTY pair `hal/` | descriptors | open, read, write, flush | none of its own | pure I/O |
| Configuration `util/`; logger, time `core/` | values, files | read, log | none | unit tests |

How they interact.  The acquisition thread of the gateway calls the Modbus
master; command threads do too, under the same mutex.  Alarm events, telemetry
and answers to MQTT commands go through `MqttClient::publish`; MQTT commands
arrive as callbacks on the client's network thread, TCP commands as callbacks on
the server's thread, and both end in `Gateway::handleCommand`.  `Gateway::stop`
takes everything down in a fixed order (section 3.4).  The acquisition thread
also publishes readings and alarms on the event bus, to which the window of the
Qt build subscribes.  `main` creates the gateway, runs one of the front ends and
stops the gateway when that returns.

## 2. Plan

Modules in the order they are written, most important behaviour first:

1. **done** `MqttClient`, `MqttSession` (client, connection and broker composed),
   `MqttOutbox` (abstract specification of the transmit path), `MqttKeepalive`;
   proofs in `MqttSession_proofs`.
2. **done** `StateMachine`, `Gateway` (lifecycle, acquisition, telemetry, commands);
   proofs in `Core_proofs`.
3. **done** `RegisterService` (abstract), `ModbusLink` (master, line and slave);
   proofs in `Protocols_proofs`, with those of the client's clocks.
4. **done** `CmdServer`; proofs in `CmdServer_proofs`.
5. **done** `HttpServer`; proofs in `HttpServer_proofs`.
6. **done** `Edge` (moving average and hysteresis against definitions by history) and
   `EventBus`; proofs of both in `Core_proofs`, too.
7. **done** `RingBuffer` and `BoundedFifo` (abstract), `PeriodicTask`; `MCThreads` puts
   them and `Program` side by side; proofs in `Threads_proofs`.
8. **done** `MqttPackets` and `RtuFrames` (the codecs under their receive loops),
   `Json`; `MCProtocols` puts them beside `ModbusLink`, `Edge`, `MqttKeepalive`
   and `EventBus`; proofs about the MQTT codec in `MqttPackets_proofs`.
9. **done** `Program`: signals, front ends, window and PID file, with `EventBus`.
10. **done** `Selection` (erasing elements of a vector, as a recursive function) and
    `SequenceLemmas` (what it and `FlattenSeq` compute), on which the proofs about the
    servers, the event bus, the alarms and the MQTT codec rest.
11. **left** the polling schedule of `ModbusMaster` (`configure`, `duePoints`,
    `convertRaw`) and the configuration that feeds it.

Abstract specifications: the FIFO outbox, atomic registers and the bounded FIFO
(all done); a line server, with the owed answers as a function of the lines sent,
would be the next.

Theorems: section 5 has those that are proved, and what is out of the prover's reach.

## 3. The models

Every module starts with the abstractions it makes.  In all of them an operator
whose comment begins with "Mutant:" is not used by the model; it is a plausible
bug in the definition after it, listed in `PROJECT.json` with the property that
notices it.

### 3.1 `MqttClient`, `MqttSession`

A step is one critical section, one access to a flag another thread reads, or one
exchange with the socket.  `upc` follows a user thread through `publish` or
`subscribe`/`unsubscribe` (table, packet identifier, queue and pipe are separate
steps, as they are separate lock sections), `lpc` the thread that calls `start`
and `stop`, `npc` the network thread: `LoopTop`, `BackoffWait`, `Connect*`,
`AwaitConnack`, `Announce`, then the round of `onlineLoop` (`TakeBatch`,
`SkipItem`, `SendItem`, `Requeue`, `ResendDup`, `GiveUp`, `TimersDone`, `Poll`,
`Receive`, `Handle*`) and `OnDisconnect`, `LossReported`, `Cleanup`, `EndReported`,
`ClosePipe`.  The socket is closed in one step and `m_isConnected` cleared in the next
(`mqtt_client.cpp:841-842`, `:321-323`): users may call and read the flag between them.
A deadline may
pass at any moment; a passed deadline, a refused connection, a lost packet and a
lost link each cost one unit of `MaxFaults`.  `link` is "broken" from the moment
the peer is gone until the client notices: what it sends meanwhile is lost,
although `send` succeeds.

`MqttSession` adds the broker, which is outside the repository and follows what
the client expects of one and `tests/fake_broker.h`: it takes packets in order,
answers CONNECT, keeps subscriptions, acknowledges, and may refuse, publish,
misbehave or vanish.

`MqttOutbox` is what the transmit path promises: a FIFO from which the head is
sent, with one exception, stale subscription packets that may be passed over.
`MqttSession` implements it with the outbox mapped to `batch \o txQueue`.

### 3.2 `MqttKeepalive`

The same network thread reduced to its clocks, with ticks of 100 ms and the
code's comparisons.  `ping` and `idle` are ages, `pollLeft` the rest of the
running `poll`, `backoff`/`delay`/`waited` the back-off.  The broker may fall
silent and recover.

### 3.3 `StateMachine`, `Gateway`

`StateMachine` is the default transition table and `dispatch`.  In `Gateway`,
`lpc` runs through `start` setup by setup and `stop` join by join; `apc` through
a round of `pollDuePoints` (which points are due is a choice), with the read and
the write back of `++m_consecutiveFailRounds` apart, because `recover()` stores
zero in between; `tpc` is the telemetry thread; `cpc[c]` a command on channel `c`.
A Modbus transaction is reduced to its outcome, which depends on the wiring and
the injected fault.  A writable point that is due has nothing to read: it counts as a
success (`gateway.cpp:495`), dead line or not.

### 3.4 Order of `stop`

`JoinAcq`, `JoinTelem`, `StopChannel("mqtt")`, `StopChannel("cmd")`, `ClosePorts`,
each a step that waits for the thread concerned.

### 3.5 `ModbusLink`, `RegisterService`

A transaction is `Begin` (mutex and flush), `SendRequest` or `SendFails`, any
number of `ReceiveSome`, and `TimesOut` or `Verdict`.  A normal answer is two
pieces, an exception answer one, so that `read` may return any part.  The slave
carries a request out and then spoils the answer according to the fault mode.
Frames carry a transaction number for the properties only; no guard reads it,
because RTU frames have none.  `RegisterService` is the promise: each call takes
effect at one instant between call and return; it is kept until the first answer
misses its deadline, since the code cannot tell a late answer to a read from the
one it waits for (same slave, function and count).

### 3.6 `CmdServer`

A round is `Poll` (the snapshot of events), `AcceptClients`, then for each index
`ServeClient`, `ReceiveData` with `HandleLine` per line, `ReceivedAll` or
`ReceiveEnd`, `Write`, and at the end `CloseIdle`.  Peers connect, send, end,
reset and read between any two of these.  Bytes come in units that end a line or
do not.

### 3.7 `HttpServer`

A round is `Poll` or `PollTimesOut` (the only place where idle time is looked at),
`Accept`, one `Serve` per index, and `EndRound`.  `polled` is the array `fds`.  Two
things are kept exactly: after `closeClient(i)` the successor is served with the
entry of the one that left, and after `handleClient(i)` it is passed over.  `Entry`
is the entry of a client accepted in the same round: `fds` is not initialised
beyond `nfds`, so it may say anything.  An error without `POLLIN` comes only from
there, because Linux reports `POLLHUP` and `POLLERR` of a TCP connection together
with `POLLIN`.

### 3.8 `Edge`

One point: `filter` is the ring of `SignalFilter` with its running sum, `rule` the
two flags of `RuleEngine`.  `ProcessPoint` pushes a reading and evaluates the
mean; `SetupSerialClears` is what the start of the gateway does to both.  The two
`reset` functions are modelled too; `FilterReset` is only called by tests, and
`RuleReset` by `onStateChanged`, which nobody calls (section 6).  A reading is finite,
infinite or NaN, as an f32 register may hold it (`modbus_master.cpp:310-314`), and sums
and comparisons treat these as IEEE 754 does: infinity less infinity is NaN, NaN stays,
and NaN is on neither side of a limit.  Finite readings are integers and their sums exact
(section 7); means are fractions.  Limits need not be ordered nor bands be positive, since
`setupSerial` checks neither.  `readings`, `means` and `events` are the history
the properties speak of; no guard reads them, but for the bound `MaxReadings`.

### 3.9 `RtuFrames`

What `ModbusLink` takes for granted of a frame, byte by byte, for one caller: the
CRC bit by bit, `encodeFrame` and `decodeFrame` with the parity of the length that
tells request from answer, the slave's loop that cuts the stream at silences of
3.5 characters, its four functions and its five fault modes, and the master's
transaction with its receive buffer.  `outward` and `inward` are the two
directions of the line, read in pieces of any size; the line may pause, damage a byte (flip
`mask`) or lose one.  `ModbusLink` has the concurrent callers and the late answers.

### 3.10 `RingBuffer`, `BoundedFifo`

A critical section is a step, the notification after it another.  A thread in a
wait may be woken by a notification, by its time-out or for nothing, and then
looks again under the mutex.  `BoundedFifo` is the promise: items come out in order,
each to one consumer, or are lost together in `clear`.  The mapping takes the
slots between `head` and `tail` for the queue.

### 3.11 `PeriodicTask`, `EventBus`

`PeriodicTask`: `opc` is the owner in `start` or `stop`, `rpc` the thread.  The
look at the predicate and falling asleep are two steps, because `stop` sets the
flag and notifies without the mutex and may come between them; the period is what
then ends the wait.  `lateRuns` counts runs begun after the flag was set.

`EventBus`: every thread has a stack of publishes, since a handler may publish,
subscribe and unsubscribe; a publish carries the snapshot it still has to call.

### 3.12 `MqttPackets`, `Json`

Both are operators translated function by function, with a small state machine
that feeds them.  In `MqttPackets` that machine is the receive loop of the client
(`CodecSpec`): `Receive` appends a piece of the `stream` to `rxBuf`, of at most `RecvMax`
bytes (the 4096 of the buffer on the stack), and disconnects if more than `kRxBufMax` (1 MiB)
have accumulated, before it looks whether they make a packet; `DecodeOne` takes
the packet off that `Decoded` finds there, until it asks for more or finds the stream bad
(`ProtocolError`).  Lists of strings are read by a recursive function of the position
(`Items`), so that the module has no RECURSIVE operator and can be proved about.  In `Json`
it is a text grown piece by piece and a
document built with `set` and `append`; the parser is compared with a grammar
written as a predicate on texts, the serialiser with the parser.

### 3.13 `Program`

`main` with its PID file, the signal handler that writes to a blocking pipe and
ends the process at the second signal, and five front ends: the terminal, the
daemon, waiting without a terminal, and both builds with Qt.  `mpc` follows the
main thread, through `poll`, the pipe, the line buffer and `watch`, or through
opening and leaving the window; `worker` is the polling thread of the window,
`acq` the acquisition thread, which publishes on an instance of `EventBus`.
`window` says whether the object the handler was registered with is still there.

### 3.14 `MCThreads`, `MCProtocols`, `MCMqttShared`

The first two put independent parts into one specification: `part` is chosen in the
first state and never changes, the steps are those of that part, and
the variables of the others stay as they begin.  A behaviour is thus a behaviour of
one part, and a property of a part is checked on exactly its behaviours.

`MCMqttShared` does the same with two instances of `MqttSession` of different bounds:
`actors` are the users who make calls, all of them or one alone; the one alone makes
more publishes than there are identifiers.

## 4. Runs

`CHECK_DEADLOCK FALSE` stands in every configuration but `mqtt_watchdog`: the budgets of
the others run out and a stopped system stops.

| Run | Module | Question | Bounds |
|---|---|---|---|
| `mqtt_session` | MCMqttShared | wake-ups, order, refinement of the outbox; the connected flag and the acknowledgements say what is so | either 2 users, 2 calls, queue of 1, 3 identifiers, 2 starts, 2 faults: a batch is interrupted, requeued, overtaken, resent and given up; the queue overflows; the client is restarted with work left over; or 1 user, 3 publishes, queue of 3, 2 identifiers, 1 fault: the third publish gets the identifier of the first, pending or not, and either is lost, sent again or acknowledged late |
| `mqtt_subscriptions` | MCMqttSession | no subscription falls between the queue and `resubscribeAll` | 2 users, 2 topics, 2 faults (two reconnections) |
| `mqtt_live` | MCMqttSession | accepted packets are sent; `stop` returns | 1 user, 1 call of four kinds, 2 starts, 2 faults, 1 push |
| `mqtt_watchdog` | MqttKeepalive | violation: section 6 | keepalive 2 s in ticks of 100 ms |
| `gateway` | MCGateway | safety of lifecycle, line and fault judgement | 1 read and 1 write point, both channels, every command, 2 starts, 2 commands, 1 outage; a fault takes 2 rounds |
| `gateway_live` | MCGateway | the line is judged rightly in the end, writable points apart; nobody hangs | 1 read and 1 write point, 1 channel injecting faults, 2 starts, 1 outage; a fault takes 3 rounds |
| `gateway_fault_stuck` | MCGateway | violation: section 6 | 1 read point, 1 channel with `recover` |
| `cmd_server` | CmdServer | alignment, framing, answers, stop, idle clients | 3 peers for 2 slots, of which 1 sends 3 units in receives of 2 and 2 are silent; answers of 2 and 3 units, a buffer of 2 and a window of 1: lines are glued and split, the command limit, the buffer limit and the client limit are hit |
| `http_server` | HttpServer | a client never pays for another's events; whole requests are answered | 3 browsers for 2 slots, 3 units, a limit of 2, receives of up to 2: requests arrive split, glued and too long; slots fill, empty and shift |
| `threads` | MCThreads | ring buffer: FIFO, no wake-up lost; task: no run after `stop`, calls return; program: threads end in order, the program ends when told | ring of 2 slots, 3 threads, 2 values: it fills, wraps, empties and is cleared under waiters of both kinds; one task; all five front ends, 3 symbols of quit, watch and line end |
| `protocols` | MCProtocols | link: mutual exclusion, residue, atomic registers; frames: what the line does to a byte is noticed; points: mean and alarms by history; clocks: keepalive, back-off, no live broker condemned; bus: each handler once; MQTT and JSON texts | link: 1 reader, 2 writers, 2 addresses of which 1 writable, 2 values, 3 calls, 1 fault, 1 late answer, so that the third call meets the residue of the first two; frames: 3 registers, 7 kinds of call, 2 calls, 1 damaged, lost or delayed byte, 5 fault modes; points: finite readings on both sides of the limits, both infinities and NaN, windows 0 and 2, limits whose bands meet and crossed ones, bands -1 and 1, 4 readings since the last reset, so that the ring fills and wraps; clocks: keepalive 2 s in ticks of 100 ms, so that all intervals keep the ratios of the code; bus: 2 threads, topics `a` and `a/b`, a pattern with `#` and one without, 2 subscriptions, publishes nested 2 deep; streams of 2 packets out of 14 and packets with one byte changed, receives of up to 40 bytes and a buffer of 169, which 130 of the 131 bytes of the longest packet and a full receive behind them exceed by one; texts of up to 5 pieces over 4 alphabets, depth limit 2, documents of 4 nodes |
| `program_ctrl_c` | Program | violation: section 6 | the terminal, 3 symbols |

Why the bounds are enough: every hazard of section 1 needs few actors and few
events.  A lost wake-up needs one packet and one drain; a wrong order two
packets and one failed send; an identifier clash as many publishes as there are
identifiers, plus one; a shifted event array two clients and one that goes.  The
list of mutants is the test: each property is violated, under the bounds of its
run, when the code is changed in the way named there.

Several properties are conjunctions of named parts, each stated where it is
defined: `WaitsAreWoken` (for the queue, for `stop`), `HonestReports`
(`ConnectedIsHonest`, `AckedWasReceived`), `LifecycleSafe` (types; the line needs the
port, publishing needs the client, a stopped gateway is quiet), `SlotsAligned`
(types; `DispatchAligned`), `LinkSafe` (types and mutual exclusion;
`ResidueIsNotAccepted`), `TimersKept` (types; keepalive; back-off), `DecoderSound`
(`VerdictIsFinal`, `AcceptedReencodes`), `PointFollowsHistory`
(`MeanOfWindow`, `AlarmsFollowHistory`).

Some are conditional, for reasons in the code.  `ConnectedIsHonest` exempts one step of
the network thread: between `closeSocket` and the clearing of `m_isConnected` a user reads
TRUE without a connection, and what is queued then is marked as queued online.  It states
that this window is all there is: in the back-off and in connect the flag is FALSE, in the
handshake too as long as the peer is there, and in a session it is TRUE.  `AckedWasReceived` holds although identifiers wrap around onto
publishes that are still pending (the code does not check); what it excludes is a
publish that was sent a second time, and so acknowledged twice, while another has its
identifier (`RepeatsUnshared`), for then the second PUBACK removes the wrong one.
`FaultDetected` promises a Fault that lasts only if rounds in which a writable point was due
do not come for ever: such a round sets the failure counter back and leaves Fault
(section 6).  If they do come, it promises that Fault is entered again and again, provided
that often enough `kSerialFailRounds` rounds in a row are without one; in the shipped
configuration `pump_speed` is due every 2000 ms, so that a dead line need never be
reported at all.  `StreamDecoded` exempts a packet that is longer than `kRxBufMax` less
what one more `recv` may bring: then the client may disconnect over it, and does if it is
longer than `kRxBufMax`, although the codec accepts up to 256 MiB.  `MeanOfWindow` gives the
mean of the last readings up to the moment an infinite one or NaN leaves the window, and says
that from then on it is NaN (section 6).  `AcceptedIsAnswered` excuses peers that reset, `stop`,
and the round in which a connection is accepted (section 6).  `SubscriptionsHeld` excludes packets
dropped by a full queue, which the caller is told of.  `ServiceSpec` holds until
a deadline is missed.  `WireFaithful` is exact while the line does not pause; a
pause may cut a frame in two, after which it only says that registers hold
nothing that nobody wrote.  `CommandsFramed` and `RepliesConserved` exclude clients
whose buffer hit its limit.  `NoFalseAlarm` assumes a broker that answers PINGREQ
within `MaxRtt`.  `HealthyIsKept` exempts connections accepted in the same round
(section 6).  `EndsWhenTold` leaves out the terminal once it has had a signal
(section 6).

### Fairness

* `mqtt_live`: the network thread, the pending steps of users and of `stop` and
  the broker are weakly fair (threads are scheduled, sockets and timers make
  progress).  Users need not call anything.
* `gateway_live`: threads that can run do (weak); a thread that waits for a mutex
  others release again and again gets it, and every point that is read becomes due again
  and again because its period passes (strong).  Of writable points nothing is assumed: they
  may be due in every round, in some or never.  No command and no repair has to come.
* `cmd_server`, `http_server`: the server thread and the join in `stop` are weakly fair: `poll`
  returns after at most a second.  Peers owe nothing.  They send finitely much,
  and this matters: `processClientData` receives until nothing is left without
  looking at `m_stop`, so a peer that never pauses would hold the thread.
* `threads`: of the task, the owner finishes its calls and the thread is scheduled
  (weak), and a period that begins again and again is over some time (strong: the
  predicate is looked at in between).  Of the program, its three threads are
  scheduled (weak); nothing is assumed of the user.  The ring buffer has safety properties only.
* The other runs that pass check no liveness, and need no fairness.

## 5. Proofs

`MqttSession_proofs`, for every number of users, topics, identifiers, calls and
faults:

* `TypeCorrect`: `Spec => []TypeOK`.  `TypeOK` is inductive; the step for the
  client has one case per action.  It rests on lemmas about sequences (removing
  one element) and about identifiers (`NextIdType`, the wrap-around).
* `QueueWakesNetwork`, `StopWakesNetwork` and their conjunction `NetworkIsWoken`
  (`WaitsAreWoken`).  The two are not inductive, since they speak only of the
  moment before a wait.  `WakeupInv` extends them to the whole stretch of the
  round after the pipe has been drained (`Alert`): from there on a packet in the
  queue or a stop request has a byte in the pipe or a thread about to write it.

* `TransmitPathIsOutbox` (`OutboxSpec`): each step of the client is a step of
  `MqttOutbox` or a stutter, the outbox being `batch \o txQueue`.  `BatchInv`, that a batch
  is only there while the thread sends, is what makes the return of an unsent batch
  to the front of the queue a stutter.
* `FlagIsHonest`, `AcksAreGenuine` and `ReportsAreHonest` (`HonestReports`).  Three
  invariants.  `Wire`: everything under way is of its
  kind, and what it says is covered by history: each publish in the socket, the receive
  buffer or the list of pending ones is in `sent`, each PUBACK under way is for something
  in `got`.  Its sets grow with `sent` and `got`, so that most steps only need `SetsGrow`.
  `Handshake`: no CONNACK that accepts is under way before the broker has accepted, and
  the client announces itself only if it has; the flag is set from that announcement
  to the step after the socket has been closed.  `AcksAreGenuine` needs to know which publish
  an acknowledgement is for: a PUBACK carries the rank of the publish it answers, as a
  history.  The third invariant, `AckInv`, says of publishes that were sent once: their
  acknowledgements come in the order in which they were sent (`Rising`), each for one that is
  pending (`Owned`), and a pending one has its acknowledgement on the way or nothing
  younger has been received (`Awaited`, `Carried`).  So the first match that
  `handlePuback` finds is the right one, unless a repeated publish shares the identifier
  (`RepeatsUnshared`).
* `PublishesArriveInOrder` (`DeliveryOrder`).  `RanksGrow` follows from the refinement:
  what has been sent, followed by what waits, is in the order of acceptance.
  `DeliveryOrder` speaks of what has arrived and is not inductive; `Flight` says the
  same of any two publishes that have arrived or are under way, that nothing under way
  is ahead of what was sent before it unless it is marked DUP, and that what is pending
  and not yet resent has no marked copy anywhere, so that a second copy is always the
  marked one.
* `SubscriptionsAreHeld` (`SubscriptionsHeld`), for clean sessions and users who do not
  unsubscribe.  The property speaks of the moment when nothing is left to do; `HeldInv`
  says it of every moment of a session: each topic of the table is with the broker, or
  in a SUBSCRIBE that is being prepared, queued or on the wire, or in the packet of
  `resubscribeAll`.  CONNECT is the first packet of a connection and its only one
  (`Greeting`), so the broker clears its table before it sees any of these.  Both hypotheses
  are needed.  Without a clean session nothing is sent again after a connection, and a
  SUBSCRIBE queued while the client was offline is lost if it is started anew, since `start`
  empties the queue but keeps the table.  And a SUBSCRIBE and an UNSUBSCRIBE of the same
  topic by two threads may enter the queue in the other order than the table.

`Protocols_proofs`, the clocks, for all intervals with threshold < keepalive < watchdog and
an answer time below the threshold (`TimeAssumption`, a hypothesis of the theorems;
the configurations satisfy it): `TimersAreKept` and `LiveBrokerIsKept`.  `Timers`
bounds the idle time plus what is left of `poll` by the threshold, and the back-off by
its top; `Answering` ties the age of the PINGREQ to that of the answer under way
while the broker lives.

`Core_proofs`, the gateway, for every set of points, channels and commands, every number
of rounds that make a fault, and every bound:

* `GatewayTypeCorrect`.  `Typed` adds that a thread in a command has the arguments
  the command needs (`ArgsKept`).
* `LifecycleIsSafe` (`LifecycleSafe`).  `Lifecycle` relates each phase of `start`, of
  its rollback and of `stop` to what is up: commands run only on open channels, users
  of the line only with an open port, the two threads only with a client.
* `FaultsAreEarned` (`FaultIsEarned`).  `Counting`: neither the counter in memory nor what
  the acquisition thread is about to store runs ahead of the rounds that really failed in
  a row, although `recover` stores zero between the load and the store.
* `SuccessesLeaveFault` (`SuccessLeavesFault`), as long as no channel sends `recover`.
  `Undisturbed`: nobody then comes between the counter and those who rely on it, and it
  is full as long as the gateway is in Fault.  With `recover` the property fails
  (`gateway_fault_stuck`).

`Protocols_proofs`, the serial line, for every number of threads, registers, calls and
faults:

* `LinkTypeCorrect`, which contains the mutual exclusion of transactions.  `LinkInv` adds
  that a thread in a call has an operation and a number (`CallsHaveOps`), without which
  what it sends would not be a request.
* `LinkIsSafe` (`LinkSafe`, with `ResidueIsNotAccepted`).  What was flushed must not come
  up again as an answer, although frames carry no number and the rest of an answer may
  still be on the line.  `ResidueInv`: a number is in one request at most and then on
  nothing else (`OneRequest`), a first piece is ahead of its second (`FirstPiecesFirst`),
  so that of what has been flushed no first piece is still to come (`StaleBegun`); and a
  verdict needs a first piece.
* `LinkIsRegisterService` (`ServiceSpec`): each step of master, line and slave is a step of
  `RegisterService` or a stutter.  `ServiceInv` says that, before the first late answer,
  what is about belongs to the running transaction: one request that has not taken
  effect, or at most two pieces that carry the effect (`OwnAnswer`).  The condition is
  needed, since the code cannot tell a late answer from the one it waits for
  (section 3.5).

`CmdServer_proofs`, for every number of peers, slots and units, all limits and all cuts of
the stream: `SlotsStayAligned` (`SlotsAligned`), `CommandsAreFramed` (`CommandsFramed`) and
`RepliesAreConserved` (`RepliesConserved`), all from one invariant, `ServerInv`, because none
of them is inductive alone.  Events stay with their client only because the walk through
them closes nobody before its end (`Round`: the snapshot agrees with `m_clients`
index by index, up to the last); a slot is given to a peer only once because slots, the
listener's queue and the states of the connections agree (`Slots`); a peer that has not
been accepted has received and been answered nothing (`Fresh`), which is what `Frames` and
`Replies` begin from; and answers are of their kind because no more lines are taken than
units were sent (`Counts`).

`HttpServer_proofs`: `HttpSlotsAreSound` (`TypeOK`, with the limit of clients and one slot for
each browser) and `HealthyConnectionsAreKept` (`HealthyIsKept`).  Here events do not stay with
their clients, so the argument is about what an entry can be (`Round`): one that `poll`
wrote says error only together with data, so that it does not close, whoever is served
with it; one that `poll` did not write lies beyond the array, and because closing only moves
clients towards the front, its client was accepted in this round.  `Ages`: a slot is older
than its peer has been quiet only while a unit is on its way, and then `poll` does not
time out, so that nobody is dropped as idle who was not silent.

`Core_proofs`, the event bus: `EveryHandlerIsCalledOnce` (`DeliveredOnce`), for every number
of threads, subscriptions and publishes inside each other.  `BusInv`: identifiers are given
out once and grow (`Numbered`); every snapshot, at any depth of any thread, has no
repetition, nothing later than its publish, and every subscription from before that is still
in the table (`Copied`: later ones have larger identifiers, and `unsubscribe` only takes
away); what has been called is its beginning (`Walked`).

`Core_proofs`, the edge computing: `PointsFollowHistory` (`PointFollowsHistory`), for all
windows, limits (ordered or not), bands (positive or not) and readings (numbers or not), and
any number of them, with exact sums of the finite ones.  The mean is
not inductive as it stands, for the sum only says what the window adds up to, not where the
ring keeps the reading that leaves next.  `EdgeInv` adds that (`InRing`): below the head lie
the last readings, from the head on, once the window is full, those before them.  Then a
push takes the oldest reading out of the window and out of the sum (`PushedInRing`); the sum
of a window that moves by one is the old one without the first reading and with the new one
(`SumTail`, `SumAppend`, `WindowMoves`), unless one of them is infinite or NaN: then it is NaN
from the moment that one leaves (`SumAfter`).  For the alarms, the history is "the last value
that asks to raise or to clear, but not for both, decides, and those since that ask for both
flip it" (`Alarmed`): in a band of negative width, which `setupSerial` lets pass, a value
between the two limits flips the flag each time.  There is one such last value
(`SomeDecides`, `AlarmedIs`), so that one value more counts only through the flag before it
(`AlarmedStep`); and the events of either level, picked
out of the list of both, grow by what the new value flips (`EventsGrow`).  A reset of the
filter or of the rules starts both histories anew (`ClearedFollows`).

`Threads_proofs`:

* For every capacity and every finite set of threads `RingTypeCorrect`; `RingIsFifo`
  (`FifoSpec`: an index invariant, and each step of the ring a step of `BoundedFifo` or a
  stutter, by arithmetic on wrapping indices); `NoWakeupIsLost` (`NoLostWakeup`: for
  either condition variable, the sleepers that could go on are covered by notifications
  on their way and threads already awake, a counting argument on finite sets).
* `TaskEndsInTime` (`LastRunOnly`).  `TaskInv` relates the owner's place in `start` or
  `stop` to the thread's place in its loop.
* `NoThreadIsLeft` (`ThreadsEndFirst`).  `ThreadInv` says of each phase of `main` which
  threads are there, for every front end.

`MqttPackets_proofs`, for all bytes, packets, streams and cuts:

* `DecoderIsSound` (`DecoderSound`), with no hypothesis but that a byte is a byte.
  `VerdictKept`: of two byte sequences that begin alike, the shorter one gets "more" or the
  verdict of the longer one, since the length field is read the same in both
  (`LengthKept`) and the body is cut out by it.  `AcceptedAlone`: what is taken off the
  buffer is accepted on its own, too.  `ContentBack`, one lemma for each kind of packet: the
  encoder writes the body of an accepted packet again, byte for byte; for the lists of
  SUBSCRIBE and UNSUBSCRIBE by induction from the end of the body (`ItemsBack`), and with a
  length that decodes to what was encoded (`Framed`, on the arithmetic of `Digits`).
* `StreamsAreDecoded` (`StreamDecoded`), for samples that are `Meant`: bytes the decoder
  reads as the packet they stand for, to the last one; and for every limit of the receive
  buffer (`kRxBufMax`) and of one `recv`.  `StreamInv` says that what has come
  and what is under way are, together, the bytes of the packets not decoded yet; by
  prefix stability the decoder finds the first of these, or asks for more while a byte
  of it is missing (`CarriedVerdict`).  What has accumulated when `recv` is called is
  therefore shorter than that packet, so that only a packet longer than the limit less one
  `recv` can overflow the buffer (`MayOverflow`).  The hypothesis is what the stream needs of
  the encoders, and it is not left open:
* `EncodedPacketsAreMeant`: whatever `encodeConnect`, `encodePublish`, `encodeSubscribe`,
  `encodeUnsubscribe`, `encodePuback`, `encodePingreq` and `encodeDisconnect` write, and the
  broker's CONNACK, SUBACK, PINGRESP and acknowledgements, is read as it was meant, with
  strings, payloads and lists of any length (`EncodersAre` ties the names together).
  `EncodedPacket` lists what is demanded of the caller, where the code demands the same or
  fails otherwise: strings of at most 65535 bytes, for `Utf` keeps 16 bits of the length;
  topics that are not empty; an identifier other than 0 where there is one; qos of at most
  2; no password without a user name, which `encodeConnect` refuses; no empty client
  identifier in a session that is to be kept; a body of at most `MaxRemaining` bytes.  That
  the reading of a list gives the list that was written (`ItemsRead`) is again an induction
  from the end of the bytes.
* `EncodedStreamsAreDecoded` puts the two together: a stream of such packets arrives as it
  was sent, however many there are and however `recv` cuts them, up to one that is too
  long for the buffer.  With the constants of the code (1 MiB and 4096 bytes) every packet of
  up to 1044481 bytes arrives; the encoders and the decoder take longer ones, which the
  receive loop need not, and above 1 MiB does not, let through.

`SequenceLemmas` has what these proofs need of data that is defined by recursion.  The
induction theorems of the library cannot be used here, since their parameter is an
operator, but an induction on the indices of one sequence can be done with sets: a
non-empty set of naturals has a least element (`LeastNat`, from the well-foundedness of
`<`), so a set that holds 0 and every successor up to N holds all of them (`UpTo`); from
that, a recursive function of bounded domain exists and is unique
(`RecursionExists`).  `KeptOf` then says that `Kept(s, S)` is a subsequence of `s`, its
elements are in `S`, and it misses none; `KeptAppend`, `FlattenAppend` and `FlattenCons`
what `Kept` and `FlattenSeq` make of a sequence with one element more behind or in front.
`Items` of the MQTT codec looks ahead, so there the induction runs from the end of the
bytes (`FromTheEnd`).  `Total`, the sum in `Edge`, is
treated in the same way (`TotalOf`, `SumsOfPart`).

Assumptions.  `ClientAssumption` and `BrokerAssumption`: bounds are naturals, the queue has
room for one packet and there is one identifier.  `LinkAssumption`: the initial value is a
value, "none" and "error" are not, bounds are naturals. `GatewayAssumption`: read and write
points differ and there is a point, the channels and commands are among those of the code, a
fault takes at least one round. `RingAssumption`: the capacity is a natural and the threads
are finite. `BusAssumption`: bounds are naturals.  `CodecAssumption`: what is sent, by
whomever, consists of bytes, and one `recv` alone does not exceed the limit of the buffer.
`EdgeAssumption`: finite readings, limits and bands are integers, windows naturals. TLC evaluates each in a run of the module;
`ProgramAssumption`, `TimeAssumption`, those of `Json` and `RtuFrames` and known values of the CRC are evaluated
as `InstancesAreLegal` of `MCThreads` and `MCProtocols`.

Only model-checked:

* every liveness property, and with them fairness and `ENABLED`, which are out of the
  prover's reach;
* `WireFaithful`: that damage is noticed holds of one damaged byte and not of every
  constant (a frame cut in the wrong place passes a CRC of 16 bits now and then), and the
  CRC is made of bitwise operations, of which the provers know nothing;
* `AcceptsTheGrammar` and `RoundTrip`, which say what the recursive operators of `Json`
  compute of every text and document; modules with such operators are closed to the
  prover.

## 6. Where code and documentation disagree

Checked by a run that TLC must find violated:

* `gateway_fault_stuck`: `recover()` sets `m_consecutiveFailRounds` to zero while
  the acquisition thread stands between its judgement and the dispatch of
  SerialError.  The gateway then is in Fault with a counter of zero; rounds that
  succeed do not leave Fault (`gateway.cpp:478` asks for a full counter),
  until rounds fail again.
* `mqtt_watchdog`: on an idle connection PINGREQ is repeated every 0.7 keepalive,
  and each sets `m_pingSentAtMs` anew, so the watchdog of 1.5 keepalive never
  expires.
* `program_ctrl_c`: at the terminal the first Ctrl-C wakes `poll`, and `cli.cpp:100`
  reads the pipe until nothing is left; but the pipe of `main.cpp:212` blocks and its
  write end stays open, so the second `read` never returns and the gateway is not
  stopped.  In `watch` the pipe is not looked at.  `cli.cpp:208` says Ctrl-C ends
  gracefully, `docs/architecture.md:62` that one is enough
  (also `docs/use-guide.md:115`).

Seen while modelling and stated as formulas, but not carried as runs:

* `RecoveryIsReal` (module `Gateway`): a round in which only a writable point is due has
  nothing to read, counts as a success (`gateway.cpp:495-499`) and sets the failure
  counter back (`:482`).  It takes a gateway in Fault back to Running while the line is
  still dead, which `docs/architecture.md:143` calls the recovery of the link; and it may
  keep a dead line from ever being reported.
* `SumIsOfWindow` (module `Edge`): `signal_filter.cpp:15` subtracts from the running sum
  what leaves the window.  Infinity less infinity is NaN, and NaN stays: after one infinite
  or NaN reading of an f32 register (`modbus_master.cpp:310-314` accepts it,
  `gateway.cpp:537` pushes it) the mean is NaN for good, and no limit raises or clears an
  alarm, until the gateway is started again.  `signal_filter.h:38` calls `m_sum_` the sum of
  the window.
* `AlarmsReset`, `StatusFollows` (module `Gateway`): `onStateChanged` is never
  registered with the state machine, so transitions neither clear alarms nor
  publish the status; the status is published only on (re)connection.
* `GoodIsTrue` (module `Gateway`): `writeRegister` updates the table after it has
  released the serial mutex; of two writes the table may keep the older value.
* `GiveUpDisconnects` (module `MqttSession`): `docs/architecture.md:260` says a
  publish that stays unacknowledged takes the connection down; the code drops it
  and goes on.
* `SubscriptionsRebuilt` (module `MqttSession`): an UNSUBSCRIBE queued around a
  reconnection can be passed over or overtaken, and the broker keeps a topic the
  table no longer has; `mqtt_client.cpp:469` says the table is what is rebuilt.
* `LegalCommandsKept` (module `CmdServer`): `cmd_server.cpp:354` compares the limit
  with all that has been received, so commands within the limit are thrown away
  when `recv` appends part of the next to them before they are split.
* `SilentIsDropped` (module `HttpServer`): `http_server.h:42` promises to drop a
  connection after 30 s of silence.  With all slots taken a waiting connection
  keeps the listener readable, `poll` returns at once and never times out, and
  idle connections are only looked for when it does.
* `UnknownIsRefused` (module `RtuFrames`): `docs/architecture.md:190` and `:228` say an
  unknown function is answered with exception 0x01; `decodeFrame` refuses its frame
  before the slave sees it, so it is dropped without an answer.
* `HandlersFindWindow` (module `Program`): `main_window.h:13` gives up the subscription
  (`main_window.cpp:52`) so that no handler finds the window gone; a publish in
  progress still has the handler in its snapshot.
* `WakeupNotLost` (module `PeriodicTask`): `thread_utils.cpp:92` notifies without the
  mutex; between the look at the predicate and the sleep the wake-up is lost, and
  `stop` takes a whole period.
* `AnyKeyLeavesWatch` (module `Program`): `cli.h:12` and `docs/use-guide.md:124` say
  any key ends `watch`; the terminal hands over whole lines.

TLC finds each of them violated when it is added to a configuration of its module
(`SilentIsDropped` with weak fairness of `Tick`; `SubscriptionsRebuilt` with calls
of `Subscribe` and `Unsubscribe` and a queue of two; `HandlersFindWindow` and
`AnyKeyLeavesWatch` with the front ends they are about).

And without a formula:

* the HTTP server may close a sound connection in the round in which it accepts
  it, with its request unanswered, since the entry of the event array is not initialised;
* the MQTT client disconnects over a packet of more than 1 MiB, and sometimes over one
  of nearly that (`mqtt_client.cpp:531`), where the codec accepts up to 256 MiB; a retained
  message of that size ends every connection that subscribes to it;
* a command followed at once by the end of the connection is carried out but its
  answer is dropped (`cmd_server.cpp:367`);
* after an answer too large for the buffer, answers to later lines of the same
  batch may still be sent before the connection is closed;
* the PID file stays behind when `gw.start` fails, on a forced exit, and when the
  Qt build refuses to run as a daemon;
* `asInt` of `json.cpp` admits exactly 2^63, whose conversion is undefined, although its
  comment excludes what does not fit; `json.h:57` calls the conversion from int64 to
  double lossless, which it is up to 2^53; `dump` has no limit of depth where `parse`
  has 512; -0.0 is written as an integer zero and NaN as null;
* `mqtt_packets.cpp:43` says strings beyond 65535 bytes are truncated; the length
  prefix is, the string is not.

## 7. Not modelled

* Texts: log lines, error strings, the JSONL file, the web page, what the commands
  print, Qt widgets and curves; positions and digits in JSON.
* `ModbusLink` takes a frame for a record and lets the CRC detect every damage; `RtuFrames`
  has the bytes, and checks one damaged, lost or delayed byte for one caller.  Noise
  that inserts bytes is left out of both.
* Statistics, `configure`, `duePoints` and `convertRaw` of the Modbus master: which points
  are due is a choice in `Gateway`, and readings are model values.
* The serial port: a failed read ends the transaction like a failed write.
* MQTT statistics, the payloads, and PUBACKs the broker would send twice.
* `start()` of the command server is called once, as `cmd_server.h:39` demands; its
  failures leave the initial state.  Failures of `poll` and of the listener are
  left out.
* `stop()` of the HTTP server returns by the argument of the command server, and
  has no property of its own.  An answer cut short by a slow reader counts as one.
* Configuration (typed access to a JSON document, no state), logger and clock,
  arguments and `daemonize()`, which run before there is a second thread.
* The `Thread` wrapper (its destructor joins), and handlers or tasks that throw.
* What doubles lose in `Edge`: sums of finite readings, means and the edges of bands are
  exact.  In the code the running sum is rounded at every push and never computed anew, so
  that it drifts, and when a very large reading meets small ones these cancel and
  stay lost after it has left the window; sums do not overflow in the model.
* Numbers in JSON that exceed a double by their digits alone (309 of them): texts are
  shorter, and only exponents exceed it.
* The end of input is for good in `Program`.  Ctrl-D at a terminal ends one read only, and
  a later one finds input again; this matters in `watch`.
* A CONNACK behind which more than `kRxBufMax` bytes have come (`mqtt_client.cpp:682`) is, in
  `MqttClient`, one of the packets that break the protocol.
