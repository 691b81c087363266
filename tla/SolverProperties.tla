---------------------------- MODULE SolverProperties ----------------------------
(* What a solver promises about its time steps.                              *)
EXTENDS SolverBase

TypeOK ==
    /\ pc \in {"idle", "subStep", "attempt", "configuration", "newton", "cut", "complete", "failed"}
    /\ request \in Nat /\ sinceCut \in -1 .. MaxCycles
    /\ newtonIter \in 0 .. MaxNewton
    /\ remaining \in Nat /\ nextDt \in Nat /\ subStep \in 0 .. MaxSubSteps
    /\ stepDt \in Nat /\ attempt \in 0 .. MaxTimeStepCuts
    /\ configIter \in 0 .. MaxConfigurations /\ simplest \in BOOLEAN
    /\ field \in Nat /\ configuration \in {"begin", "default", "updated"}
    /\ cycles \in 0 .. MaxCycles /\ quiet \in Nat
-----------------------------------------------------------------------------
(* Every attempt starts from the state at the beginning of the step: the     *)
(* Newton loop never works on iterates that were computed for another length *)
(* of the step (SolverBase.cpp: "reset the solver state, since we are        *)
(* restarting the time step").                                               *)
AttemptsStartClean ==
    pc = "newton" =>
        /\ field \in {Begin, stepDt}
        /\ configIter = 0 => configuration = "begin"

(* A sub-step is completed with the length that the fields were computed for *)
(* (SolverBase.cpp: "return the achieved timestep").                         *)
CompletesWhatItSolved == pc = "complete" => field = stepDt

(* nonlinearImplicitStep() returns the length it was given, cut less often   *)
(* than it may attempt it: what the loop over coupled solvers relies on when *)
(* it tells by the returned length whether a solver had to cut the step.     *)
Shortened(length, times) ==
    LET cut[k \in 0 .. times] == IF k = 0 THEN length ELSE Cut(cut[k - 1])
    IN  cut[times]

ReturnsAnAttempt ==
    pc = "complete" => stepDt \in {Shortened(nextDt, k) : k \in 0 .. MaxTimeStepCuts - 1}

(* A sub-step never reaches beyond the step of the event manager, and leaves *)
(* nothing or at least as much as itself ("better to do two equal steps than *)
(* one big and one small").                                                  *)
StepsFit ==
    pc = "attempt" /\ attempt = 0 =>
        \/ stepDt = remaining
        \/ 2 * stepDt <= remaining

(* After a cut the solver does not ask for a longer step for                 *)
(* minTimeStepIncreaseInterval cycles, unless it was given a shorter step    *)
(* than it asked for (NonlinearSolverParameters.cpp: "Minimum number of      *)
(* cycles since the last time-step cut for increasing the time-step again"). *)
NoGrowthAfterCut ==
    [][pc = "subStep" /\ pc' = "idle" /\ request' > nextDt => quiet >= MinIncreaseInterval]_vars

(* A call of execute() returns or stops with an error.                       *)
ExecuteEnds == (pc = "subStep") ~> (pc \in {"idle", "failed"})
=============================================================================
