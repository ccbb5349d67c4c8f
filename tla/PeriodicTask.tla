----------------------------- MODULE PeriodicTask -----------------------------
(***************************************************************************)
(* The periodic task of src/core/thread_utils.cpp: an owner that calls     *)
(* start() and stop(), and the background thread, which waits one period   *)
(* on a condition variable and then calls the task.  stop() sets the flag  *)
(* and notifies without the mutex.                                         *)
(*                                                                         *)
(* A period is over at any moment.  start() with a period that is not      *)
(* positive changes nothing and is left out; the destructor calls stop().  *)
(***************************************************************************)
EXTENDS Naturals

\* An operator introduced by "Mutant:" is not part of the model: it is what a
\* plausible bug would make of the definition that follows it.

VARIABLES
    opc,       \* where the owner is in start() or stop()
    rpc,       \* where the background thread is in runLoop()
    stop,      \* m_stop
    running,   \* m_running
    joinable,  \* m_thread.joinable()
    lateRuns   \* history: runs of the task begun since the flag was last set

taskVars == <<opc, rpc, stop, running, joinable, lateRuns>>
ownVars == <<stop, joinable>>

TaskInit ==
    /\ opc = "idle" /\ rpc = "none"
    /\ stop = TRUE /\ running = FALSE /\ joinable = FALSE
    /\ lateRuns = 0
-----------------------------------------------------------------------------
(* The owner.                                                              *)

\* Mutant: start() joins a thread it has not told to stop.
FlagBeforeJoinForgotten == stop
\* What start() makes of the flag before it joins the thread it replaces.
FlagBeforeJoin == TRUE

FlagOfNewThread == FALSE

\* start() refuses if the task runs.  A thread that has been created but has not
\* come to set m_running is replaced.
Start ==
    /\ opc = "idle" /\ ~running
    /\ stop' = FlagBeforeJoin
    /\ opc' = IF joinable THEN "startNotify" ELSE "launch"
    /\ lateRuns' = 0
    /\ UNCHANGED <<rpc, running, joinable>>

Stop ==
    /\ opc = "idle"
    /\ stop' = TRUE
    /\ opc' = "stopNotify"
    /\ lateRuns' = IF stop THEN lateRuns ELSE 0
    /\ UNCHANGED <<rpc, running, joinable>>

\* notify_all(), without the mutex: it reaches the thread only if it sleeps.
NotifyAll ==
    /\ opc \in {"startNotify", "stopNotify"}
    /\ rpc' = IF rpc = "asleep" THEN "notified" ELSE rpc
    /\ opc' = IF opc = "startNotify" THEN "startJoin"
              ELSE IF joinable THEN "stopJoin" ELSE "idle"
    /\ UNCHANGED <<ownVars, running, lateRuns>>

Join ==
    /\ opc \in {"startJoin", "stopJoin"} /\ rpc = "done"
    /\ joinable' = FALSE
    /\ opc' = IF opc = "startJoin" THEN "launch" ELSE "idle"
    /\ UNCHANGED <<rpc, stop, running, lateRuns>>

\* The new thread, and start() returns.
Launch ==
    /\ opc = "launch"
    /\ stop' = FlagOfNewThread
    /\ joinable' = TRUE
    /\ rpc' = "created" /\ opc' = "idle"
    /\ UNCHANGED <<running, lateRuns>>

OwnerStep == NotifyAll \/ Join \/ Launch
-----------------------------------------------------------------------------
(* runLoop().                                                              *)

Begin ==
    /\ rpc = "created"
    /\ running' = TRUE
    /\ rpc' = "look"
    /\ UNCHANGED <<opc, ownVars, lateRuns>>

\* Mutant: wait_for() without the predicate, so that being notified is taken for
\* the request and the end of the period for its absence.
StopRequestedByNotice == rpc = "notified"
\* The predicate of wait_for().
StopRequested == stop

\* wait_for() looks at the predicate before it sleeps, whenever it is woken, and
\* when the period is over.
Look ==
    /\ rpc \in {"look", "notified", "timeUp"}
    /\ rpc' = IF StopRequested THEN "ending"
              ELSE IF rpc = "timeUp" THEN "due" ELSE "beforeSleep"
    /\ UNCHANGED <<opc, ownVars, running, lateRuns>>

\* Between the look and the sleep the thread has the mutex, but stop() does not
\* ask for it.
FallAsleep ==
    /\ rpc = "beforeSleep"
    /\ rpc' = "asleep"
    /\ UNCHANGED <<opc, ownVars, running, lateRuns>>

PeriodOver ==
    /\ rpc = "asleep"
    /\ rpc' = "timeUp"
    /\ UNCHANGED <<opc, ownVars, running, lateRuns>>

\* A sleep that ends for no reason.
SpuriousWakeup ==
    /\ rpc = "asleep"
    /\ rpc' = "look"
    /\ UNCHANGED <<opc, ownVars, running, lateRuns>>

TaskBegins ==
    /\ rpc = "due"
    /\ rpc' = "task"
    /\ lateRuns' = IF stop /\ lateRuns < 2 THEN lateRuns + 1 ELSE lateRuns
    /\ UNCHANGED <<opc, ownVars, running>>

TaskReturns ==
    /\ rpc = "task"
    /\ rpc' = "look"
    /\ UNCHANGED <<opc, ownVars, running, lateRuns>>

End ==
    /\ rpc = "ending"
    /\ running' = FALSE
    /\ rpc' = "done"
    /\ UNCHANGED <<opc, ownVars, lateRuns>>

RunnerStep ==
    Begin \/ Look \/ FallAsleep \/ PeriodOver \/ TaskBegins \/ TaskReturns \/ End

TaskNext == Start \/ Stop \/ OwnerStep \/ RunnerStep \/ SpuriousWakeup

\* The owner finishes its calls; the thread is scheduled, every period is over
\* some time, and the task returns.
TaskFairness ==
    /\ WF_taskVars(OwnerStep)
    /\ WF_taskVars(RunnerStep) /\ SF_taskVars(PeriodOver)
-----------------------------------------------------------------------------
\* Once the flag is set at most one run of the task begins, the one that was due
\* already, and none after stop() has returned (thread_utils.h, 3).
LastRunOnly ==
    /\ lateRuns <= 1
    /\ opc = "idle" /\ stop => rpc \in {"none", "done"}

\* stop() and start() return, although a notification without the mutex may be
\* lost and the thread they join may not have got to its loop: the flag is what
\* counts (the comments in start() and stop()).
CallsReturn == opc # "idle" ~> opc = "idle"

\* What thread_utils.cpp:92 says of notifying without the lock: no wake-up is
\* lost.  It can be, and stop() then waits for the rest of the period.  Not
\* carried as a run; see the README.
WakeupNotLost == rpc = "asleep" => opc \notin {"startJoin", "stopJoin"}
=============================================================================
