------------------------------- MODULE Program -------------------------------
(***************************************************************************)
(* The process around the gateway: main() (src/app/main.cpp) with its      *)
(* signal handler and pipe, the interactive front end (src/app/cli.cpp),   *)
(* and the window of the Qt build (src/ui/qt).  Of the gateway only its    *)
(* acquisition thread is here, which publishes events on the event bus;    *)
(* EventBus models the bus.                                                *)
(*                                                                         *)
(* Arguments, configuration and daemonize() come before the model starts.  *)
(* Input is a sequence of symbols: "nl" ends a line, the first symbol of a *)
(* line is its command.  All commands but quit and watch leave what is     *)
(* modelled here alone.                                                    *)
(***************************************************************************)
EXTENDS Naturals, Sequences, SequencesExt

\* An operator introduced by "Mutant:" is not part of the model: it is what a
\* plausible bug would make of the definition that follows it.

CONSTANTS
    Modes,      \* front ends to check, a subset of AllModes
    Symbols,    \* what a user types, "nl" among it
    MaxTyped    \* bound: symbols typed and not handled yet

\* The terminal; a daemon, and another process without a terminal, which wait
\* for a signal; the window; a daemon of the build with the window.
AllModes == {"cli", "daemon", "wait", "qt", "qtDaemon"}

ProgramAssumption == Modes \subseteq AllModes /\ Modes # {} /\ MaxTyped \in Nat

VARIABLES
    mode,
    mpc,       \* where main() is
    exit,      \* exit status, or Running
    pidFile,   \* the PID file is there
    signals,   \* calls of handleSignal()
    pipe,      \* bytes in g_sigPipe
    unread, eof,        \* what has been typed and not been read; the end of the input
    lineBuf,            \* m_lineBuf
    window, closed,     \* the MainWindow; the user has closed it
    worker,             \* the UiWorker thread
    acq,                \* the acquisition thread
    subs, nextId, stack \* the event bus

cliVars == <<unread, eof, lineBuf>>
windowVars == <<window, closed, worker>>
signalVars == <<signals, pipe>>
bus == <<subs, nextId, stack>>
programVars == <<mode, mpc, exit, pidFile, signalVars, cliVars, windowVars, acq, bus>>

Running == 99
EventPattern == [levels |-> <<"event">>, below |-> FALSE]

Bus == INSTANCE EventBus WITH
    Publishers <- {"main", "acq"}, Topics <- {<<"event">>}, Patterns <- {EventPattern},
    MaxIds <- 1, MaxDepth <- 1

ProgramInit ==
    /\ mode \in Modes
    /\ mpc = "start" /\ exit = Running
    /\ pidFile = (mode \in {"daemon", "qtDaemon"})
    /\ signals = 0 /\ pipe = 0
    /\ unread = <<>> /\ eof = FALSE /\ lineBuf = <<>>
    /\ window = "none" /\ closed = FALSE /\ worker = "none"
    /\ acq = "none"
    /\ Bus!BusInit

Alive == exit = Running
MainGoes(point) == Alive /\ mpc' = point
-----------------------------------------------------------------------------
(* main().                                                                 *)

\* main() returns with an error, and leaves the PID file.
GatewayFails ==
    /\ Alive /\ mpc = "start"
    /\ exit' = 1
    /\ UNCHANGED <<mode, mpc, pidFile, signalVars, cliVars, windowVars, acq, bus>>

GatewayStarts ==
    /\ mpc = "start"
    /\ acq' = "round"
    /\ MainGoes(CASE mode = "cli" -> "select"
                  [] mode \in {"daemon", "wait"} -> "wait"
                  [] mode = "qt" -> "openWindow"
                  [] mode = "qtDaemon" -> "stop")
    /\ UNCHANGED <<mode, exit, pidFile, signalVars, cliVars, windowVars, bus>>

\* waitForSignal(): the pipe is read once.
SignalRead ==
    /\ mpc = "wait" /\ pipe > 0
    /\ pipe' = 0
    /\ MainGoes("stop")
    /\ UNCHANGED <<mode, exit, pidFile, signals, cliVars, windowVars, acq, bus>>

AcqJoined == acq = "done"

\* gw.stop() has joined its threads; the PID file goes, but not that of the daemon
\* which is refused.
Exit ==
    /\ Alive /\ mpc = "stop" /\ AcqJoined
    /\ exit' = IF mode = "qtDaemon" THEN 2 ELSE 0
    /\ pidFile' = (pidFile /\ mode = "qtDaemon")
    /\ UNCHANGED <<mode, mpc, signalVars, cliVars, windowVars, acq, bus>>

\* handleSignal(): the first signal goes into the pipe, the second ends the
\* process.  A read() of the terminal that the signal meets fails with EINTR,
\* unless another thread has run the handler.
Signal ==
    /\ Alive /\ signals < 2
    /\ signals' = signals + 1
    /\ IF signals = 1
       THEN exit' = 1 /\ UNCHANGED <<pipe, mpc>>
       ELSE /\ pipe' = pipe + 1
            /\ mpc' \in {mpc, IF mpc = "drainInput" THEN "lines" ELSE mpc}
            /\ UNCHANGED exit
    /\ UNCHANGED <<mode, pidFile, cliVars, windowVars, acq, bus>>
-----------------------------------------------------------------------------
(* Cli::run().                                                             *)

Type(symbol) ==
    /\ Alive /\ mode = "cli" /\ ~eof
    /\ Len(lineBuf) + Len(unread) < MaxTyped
    /\ unread' = Append(unread, symbol)
    /\ UNCHANGED <<mode, mpc, exit, pidFile, signalVars, eof, lineBuf, windowVars,
                   acq, bus>>

\* The input has ended for good, as a pipe or a closed terminal does.  (Ctrl-D at
\* a terminal ends one read only, and in `watch` leaves the input as it is.)
HangUp ==
    /\ Alive /\ mode = "cli" /\ ~eof
    /\ eof' = TRUE
    /\ UNCHANGED <<mode, mpc, exit, pidFile, signalVars, unread, lineBuf, windowVars,
                   acq, bus>>

\* select() reports the pipe, which is looked at first.
SelectSignal ==
    /\ mpc = "select" /\ pipe > 0
    /\ MainGoes("drainPipe")
    /\ UNCHANGED <<mode, exit, pidFile, signalVars, cliVars, windowVars, acq, bus>>

\* The pipe is read until read() fails.  It is a blocking pipe whose other end
\* stays open: the second read() does not return.
DrainPipe ==
    /\ mpc = "drainPipe" /\ pipe > 0
    /\ pipe' = 0
    /\ MainGoes("drainPipe")
    /\ UNCHANGED <<mode, exit, pidFile, signals, cliVars, windowVars, acq, bus>>

SelectInput ==
    /\ mpc = "select" /\ pipe = 0
    /\ unread # <<>>
    /\ lineBuf' = lineBuf \o unread
    /\ unread' = <<>>
    /\ MainGoes("lines")
    /\ UNCHANGED <<mode, exit, pidFile, signalVars, eof, windowVars, acq, bus>>

\* Mutant: the end of the input is taken for an interrupted call.
AtEofGoesOn == "select"
AtEof == "stop"

SelectEof ==
    /\ mpc = "select" /\ pipe = 0
    /\ unread = <<>> /\ eof
    /\ MainGoes(AtEof)
    /\ UNCHANGED <<mode, exit, pidFile, signalVars, cliVars, windowVars, acq, bus>>

HasLine == \E i \in DOMAIN lineBuf : lineBuf[i] = "nl"
LineLen == (CHOOSE i \in DOMAIN lineBuf :
                lineBuf[i] = "nl" /\ \A j \in 1 .. i - 1 : lineBuf[j] # "nl") - 1

HandleLine ==
    /\ mpc = "lines" /\ HasLine
    /\ LET line == SubSeq(lineBuf, 1, LineLen)
       IN  /\ lineBuf' = SubSeq(lineBuf, LineLen + 2, Len(lineBuf))
           /\ MainGoes(CASE line = <<"quit">> -> "stop"
                         [] line = <<"watch">> -> "watch"
                         [] OTHER -> "lines")
    /\ UNCHANGED <<mode, exit, pidFile, signalVars, unread, eof, windowVars, acq, bus>>

LinesDone ==
    /\ mpc = "lines" /\ ~HasLine
    /\ MainGoes("select")
    /\ UNCHANGED <<mode, exit, pidFile, signalVars, cliVars, windowVars, acq, bus>>

\* watchLoop() selects the input alone ...
WatchInput ==
    /\ mpc = "watch" /\ (unread # <<>> \/ eof)
    /\ MainGoes("drainInput")
    /\ UNCHANGED <<mode, exit, pidFile, signalVars, cliVars, windowVars, acq, bus>>

\* ... and reads it until read() gives nothing: it blocks up to the end of the
\* input or a signal.
DrainInput ==
    /\ mpc = "drainInput"
    /\ IF unread # <<>>
       THEN MainGoes("drainInput") /\ unread' = <<>>
       ELSE eof /\ MainGoes("lines") /\ UNCHANGED unread
    /\ UNCHANGED <<mode, exit, pidFile, signalVars, eof, lineBuf, windowVars,
                   acq, bus>>

CliStep ==
    \/ SelectSignal \/ DrainPipe \/ SelectInput \/ SelectEof
    \/ HandleLine \/ LinesDone \/ WatchInput \/ DrainInput
-----------------------------------------------------------------------------
(* The window.                                                             *)

OpenWindow ==
    /\ mpc = "openWindow"
    /\ Bus!Subscribe("main", EventPattern)
    /\ window' = "open" /\ worker' = "polling"
    /\ MainGoes("exec")
    /\ UNCHANGED <<mode, exit, pidFile, signalVars, cliVars, closed, acq>>

CloseWindow ==
    /\ Alive /\ mpc = "exec" /\ ~closed
    /\ closed' = TRUE
    /\ UNCHANGED <<mode, mpc, exit, pidFile, signalVars, cliVars, window, worker, acq, bus>>

\* The event loop ends; the timer looks at g_stop, which the handler has set.  The
\* destructor of the window stops the worker, ...
ExecReturns ==
    /\ mpc = "exec" /\ (closed \/ signals > 0)
    /\ worker' = IF worker = "polling" THEN "asked" ELSE worker
    /\ MainGoes("joinWorker")
    /\ UNCHANGED <<mode, exit, pidFile, signalVars, cliVars, window, closed, acq, bus>>

\* Mutant: the worker is told to stop and not waited for.
WorkerJoinedAtOnce == TRUE
WorkerJoined == worker = "done"

\* ... waits for it, gives up the subscription, ...
Unsubscribe ==
    /\ mpc = "joinWorker" /\ WorkerJoined
    /\ Bus!Unsubscribe("main", 1)
    /\ MainGoes("destroyWindow")
    /\ UNCHANGED <<mode, exit, pidFile, signalVars, cliVars, windowVars, acq>>

\* ... and leaves the rest to the destructors of its base classes.
WindowEnds ==
    /\ mpc = "destroyWindow"
    /\ window' = "gone"
    /\ MainGoes("stop")
    /\ UNCHANGED <<mode, exit, pidFile, signalVars, cliVars, closed, worker, acq, bus>>

WorkerSeesStop == worker = "asked"

WorkerEnds ==
    /\ Alive /\ WorkerSeesStop
    /\ worker' = "done"
    /\ UNCHANGED <<mode, mpc, exit, pidFile, signalVars, cliVars, window, closed, acq, bus>>
-----------------------------------------------------------------------------
(* The acquisition thread: a round with an alarm or without, until gw.stop() *)
(* has set its flag.                                                        *)

AcqRound ==
    /\ Alive /\ acq = "round"
    /\ acq' = IF mpc = "stop" THEN "done" ELSE "poll"
    /\ UNCHANGED <<mode, mpc, exit, pidFile, signalVars, cliVars, windowVars, bus>>

AcqQuiet ==
    /\ Alive /\ acq = "poll"
    /\ acq' = "round"
    /\ UNCHANGED <<mode, mpc, exit, pidFile, signalVars, cliVars, windowVars, bus>>

AcqAlarm ==
    /\ Alive /\ acq = "poll"
    /\ acq' = "publishing"
    /\ Bus!Publish("acq", <<"event">>)
    /\ UNCHANGED <<mode, mpc, exit, pidFile, signalVars, cliVars, windowVars>>

AcqPublishes ==
    /\ Alive /\ acq = "publishing"
    /\ Bus!PublishStep("acq")
    /\ acq' = IF stack'["acq"] = <<>> THEN "round" ELSE acq
    /\ UNCHANGED <<mode, mpc, exit, pidFile, signalVars, cliVars, windowVars>>

AcqStep == AcqRound \/ AcqQuiet \/ AcqAlarm \/ AcqPublishes
-----------------------------------------------------------------------------
MainStep ==
    \/ GatewayFails \/ GatewayStarts \/ SignalRead \/ Exit \/ CliStep
    \/ OpenWindow \/ ExecReturns \/ Unsubscribe \/ WindowEnds

UserStep == (\E s \in Symbols : Type(s)) \/ HangUp \/ CloseWindow \/ Signal

ProgramNext == MainStep \/ AcqStep \/ WorkerEnds \/ UserStep

\* The threads are scheduled.  Nothing is assumed of the user.
Fairness == WF_programVars(MainStep) /\ WF_programVars(AcqStep) /\ WF_programVars(WorkerEnds)

ProgramSpec == ProgramInit /\ [][ProgramNext]_programVars /\ Fairness
-----------------------------------------------------------------------------
(* Properties.                                                             *)

\* No thread outlives what it uses: the polling thread ends before its window, and
\* all end before main() returns (ui_worker.h, 3; main.cpp, 3).
ThreadsEndFirst ==
    /\ worker \in {"polling", "asked"} => window = "open"
    /\ exit \in {0, 2} => acq = "done" /\ worker \in {"none", "done"}

\* The program ends at the end of its input and when its window is closed, and at
\* the first signal when it has no terminal.
EndsWhenTold ==
    (eof \/ closed \/ (signals > 0 /\ mode # "cli"))
        ~> ~Alive \/ (mode = "cli" /\ signals > 0)

\* The banner of the terminal (cli.cpp:208): Ctrl-C ends the program, with no need
\* of a second one.
CtrlCEnds == signals > 0 ~> ~Alive

\* main_window.h, 3: once the window has given up its subscription no handler
\* refers to it any more.  The code waits for no publish in progress.  Not carried as
\* a run; see the README.
HandlersFindWindow == Bus!Running # {} => window = "open"

\* cli.h, 3: any key ends watch.  Not carried as a run; see the README.
AnyKeyLeavesWatch == mpc = "drainInput" ~> mpc # "drainInput"
=============================================================================
