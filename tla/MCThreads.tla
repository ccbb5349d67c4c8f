------------------------------ MODULE MCThreads ------------------------------
(***************************************************************************)
(* Instances for TLC of what the threads of the process are built with:    *)
(* the ring buffer and the periodic task, which run on their own, and the  *)
(* program around the gateway.  A behaviour is one of one part; the others *)
(* stay where they begin.                                                  *)
(***************************************************************************)
EXTENDS RingBuffer, PeriodicTask, Program

VARIABLE part

ASSUME InstancesAreLegal == ProgramAssumption

partVars == <<part, ringVars, taskVars, programVars>>

\* A part that does not run has one initial state.
PartInit ==
    /\ part \in {"ring", "task", "program"}
    /\ RingInit /\ TaskInit /\ ProgramInit
    /\ part # "ring" => \A t \in Threads : item[t] = CHOOSE v \in Values : TRUE
    /\ part # "program" => mode = "cli"

RunsRing == part = "ring" /\ Next /\ UNCHANGED <<part, taskVars, programVars>>
RunsTask == part = "task" /\ TaskNext /\ UNCHANGED <<part, ringVars, programVars>>
RunsProgram == part = "program" /\ ProgramNext /\ UNCHANGED <<part, ringVars, taskVars>>

PartNext == RunsRing \/ RunsTask \/ RunsProgram

\* The fairness of the two parts that have liveness properties; that of a task
\* which has not been started asks for nothing.
PartSpec ==
    /\ PartInit /\ [][PartNext]_partVars
    /\ TaskFairness
    /\ part = "program" => Fairness
=============================================================================
