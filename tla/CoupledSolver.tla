----------------------------- MODULE CoupledSolver -----------------------------
(***************************************************************************)
(* Sequential coupling of solvers (multiphysics/CoupledSolver.hpp): the    *)
(* sub-solvers solve the same step one after the other, each with the      *)
(* latest solution of the others, until a criterion is met.  The class is  *)
(* a SolverBase: execute() and what it calls are those of that module, and *)
(* solverStep() is the loop below, or that of its derived class            *)
(* FlowProppantTransportSolver, which has its own.                         *)
(*                                                                         *)
(* A sub-solver's nonlinearImplicitStep() is seen through what SolverBase  *)
(* promises of it (SolverProperties, ReturnsAnAttempt): it returns the     *)
(* length it was given, or that length cut, having solved for it.          *)
(***************************************************************************)
EXTENDS SolverProperties

CONSTANTS
    N,              \* how many sub-solvers
    Schemes,        \* which of AllSchemes the runs look at
    SubAttempts,    \* maxTimeStepCuts of the sub-solvers
    SubIterations,  \* how many Newton iterations a sub-solver may take
    ShortEnough     \* bound: a sub-solver does not cut a step of this length

\* The convergence criteria of CoupledSolver, and the derived class.
AllSchemes == {"singlePass", "residual", "iterations", "increments", "proppant"}

ASSUME CouplingAssumption ==
    /\ {N, SubAttempts, ShortEnough} \subseteq (Nat \ {0})
    /\ Schemes \subseteq AllSchemes /\ SubIterations \subseteq Nat
    /\ "proppant" \in Schemes => N = 2      \* flow and proppant

VARIABLES
    scheme,         \* the options of the run: never changes
    solved,         \* solved[s]: the length that the fields of s are a solution for
    subIterations,  \* subIterations[s]: m_numNewtonIterations of s
    iter,           \* the number of the iteration over the sub-solvers
    turn,           \* the sub-solver to solve next
    cutHere         \* history: has a sub-solver cut the step in this iteration?

couplingVars == <<scheme, solved, subIterations, iter, turn, cutHere>>
coupledVars == <<vars, couplingVars>>

Solvers == 1 .. N
AtBeginning == [s \in Solvers |-> Begin]

CoupledInit ==
    /\ Init
    /\ scheme \in Schemes
    /\ solved = AtBeginning /\ subIterations = [s \in Solvers |-> 0]
    /\ iter = 0 /\ turn = 1 /\ cutHere = FALSE

Proppant == scheme = "proppant"
-----------------------------------------------------------------------------
(* Around the loop: the actions of SolverBase.  The next length is the least *)
(* that the solver and its sub-solvers ask for.  (Operators ending in None   *)
(* or Late are deliberate errors, there to show that the properties notice   *)
(* them.)                                                                    *)

SubNewtonDt(s, dt) ==
    IF subIterations[s] < IncreaseLimit THEN 2 * dt
    ELSE IF subIterations[s] > DecreaseLimit THEN dt \div 2
    ELSE dt

\* setNextDtBasedOnNewtonIter() and setNextDtBasedOnStateChange(), without the
\* solver's own iterations, which SetNextDt looks at: the least of these.
LeastSubDt(dt, change) ==
    LET asked == {SubNewtonDt(s, dt) : s \in Solvers} \cup {change}
    IN  {least \in asked : \A other \in asked : least <= other}

Around ==
    /\ \/ Call
       \/ OutOfSubSteps
       \/ \E change \in Changes :
              \/ \E least \in LeastSubDt(stepDt, change) : CompleteStep(least)
              \/ \E least \in LeastSubDt(nextDt, change) : EndExecute(least)
    /\ UNCHANGED couplingVars

\* solverStep(), and implicitStepSetup() of the sub-solvers; preStepUpdate() of
\* FlowProppantTransportSolver.
CoupledStep ==
    /\ SolverStep
    /\ solved' = AtBeginning
    /\ UNCHANGED <<scheme, subIterations, iter, turn, cutHere>>
-----------------------------------------------------------------------------
(* sequentiallyCoupledSolverStep().                                          *)

\* resetStateToBeginningOfStep() of every sub-solver
ResetSolversNone == solved
ResetSolvers == AtBeginning

\* CoupledSolver counts in its parameters, where SetNextDt finds the count;
\* FlowProppantTransportSolver in a variable of its own.
CountIterations == newtonIter' = IF Proppant THEN newtonIter ELSE iter'

AttemptsLeft == attempt < MaxTimeStepCuts

StartAttempt ==
    /\ pc = "attempt" /\ AttemptsLeft
    /\ pc' = "iterate" /\ iter' = 0 /\ CountIterations
    /\ solved' = ResetSolvers
    /\ UNCHANGED <<executeVars, sinceCut, stepVars, field, configuration, quiet,
                   scheme, subIterations, turn, cutHere>>

\* FlowProppantTransportSolver resets them in every iteration of number 0.
StartIteration ==
    /\ pc = "iterate" /\ iter < MaxNewton
    /\ pc' = "solve" /\ turn' = 1 /\ cutHere' = FALSE
    /\ solved' = IF Proppant /\ iter = 0 THEN ResetSolvers ELSE solved
    /\ UNCHANGED <<executeVars, sinceCut, newtonIter, iter, stepVars, field, configuration,
                   quiet, scheme, subIterations>>

NextIterationNone == iter
NextIteration == iter + 1

\* The length that all go on with when one of them returns less.
SyncNone(length) == stepDt
Sync(length) == length

\* What happens after a sub-solver's nonlinearImplicitStep(), by the class.
\* CoupledSolver goes on with the next sub-solver, after a cut too.
NextSolver(cut) ==
    /\ iter' = IF cut THEN 0 ELSE iter
    /\ turn' = turn + 1
    /\ pc' = IF turn = N THEN "check" ELSE "solve"

\* FlowProppantTransportSolver starts again after a cut.  It has converged when
\* the flow needs no more iterations than it must.
Restart(cut) ==
    \/ cut /\ iter' = 0 /\ pc' = "iterate" /\ turn' = 1
    \/ /\ ~cut /\ turn = 1
       /\ IF subIterations'[1] <= MinNewton /\ iter > 0
          THEN pc' = "complete" /\ UNCHANGED <<iter, turn>>
          ELSE pc' = "solve" /\ turn' = 2 /\ UNCHANGED iter
    \/ ~cut /\ turn = 2 /\ iter' = NextIteration /\ pc' = "iterate" /\ turn' = 1

Solve(length, iterations) ==
    LET cut == length < stepDt IN
    /\ pc = "solve"
    /\ solved' = [solved EXCEPT ![turn] = length]
    /\ subIterations' = [subIterations EXCEPT ![turn] = iterations]
    /\ stepDt' = IF cut THEN Sync(length) ELSE stepDt
    /\ cutHere' = (cutHere \/ cut)
    /\ quiet' = IF cut THEN 0 ELSE quiet
    /\ IF Proppant THEN Restart(cut) ELSE NextSolver(cut)
    /\ CountIterations
    /\ UNCHANGED <<executeVars, sinceCut, attempt, configIter, simplest, field,
                   configuration, scheme>>

\* The sub-solver runs out of attempts: GEOS_ERROR.
SolveFails ==
    /\ pc = "solve"
    /\ pc' = "failed"
    /\ UNCHANGED <<executeVars, sinceCut, newtonIter, stepVars, field, configuration,
                   quiet, couplingVars>>

\* checkSequentialConvergence() assembles the residuals for this length: when
\* they are small, the fields are a solution for it.
CheckedDtLate == nextDt
CheckedDt == stepDt

Converged ==
    CASE scheme = "singlePass" -> {TRUE}
      [] scheme = "iterations" -> {\A s \in Solvers : subIterations[s] <= MinNewton}
      [] OTHER -> BOOLEAN

CheckConvergence(converged) ==
    /\ pc = "check"
    /\ iter' = NextIteration /\ CountIterations
    /\ pc' = IF converged THEN "complete" ELSE "iterate"
    /\ solved' = IF converged /\ scheme = "residual"
                 THEN [s \in Solvers |-> CheckedDt] ELSE solved
    /\ UNCHANGED <<executeVars, sinceCut, stepVars, field, configuration, quiet,
                   scheme, subIterations, turn, cutHere>>

\* CoupledSolver cuts the step, FlowProppantTransportSolver takes what it has.
OutOfIterations ==
    /\ pc = "iterate" /\ iter >= MaxNewton
    /\ IF Proppant
       THEN pc' = "complete" /\ UNCHANGED <<stepDt, attempt, quiet>>
       ELSE /\ pc' = "attempt" /\ stepDt' = Cut(stepDt) /\ attempt' = NextAttempt
            /\ quiet' = 0
    /\ UNCHANGED <<executeVars, sinceCut, newtonIter, configIter, simplest, field,
                   configuration, couplingVars>>

CoupledNotConverged == NotConverged /\ UNCHANGED couplingVars
-----------------------------------------------------------------------------
Lengths == IF stepDt <= ShortEnough THEN {stepDt}
           ELSE {Shortened(stepDt, k) : k \in 0 .. SubAttempts - 1} \cap 0 .. stepDt

Coupling ==
    \/ CoupledStep
    \/ StartAttempt \/ StartIteration
    \/ \E length \in Lengths, iterations \in SubIterations : Solve(length, iterations)
    \/ SolveFails
    \/ \E converged \in Converged : CheckConvergence(converged)
    \/ OutOfIterations \/ CoupledNotConverged

CoupledNext == Around \/ Coupling \/ (Ended /\ UNCHANGED couplingVars)

CoupledSpec == CoupledInit /\ [][CoupledNext]_coupledVars

\* A solver that has been called goes on: one thread executes it.
CoupledFairSpec == CoupledSpec /\ WF_coupledVars(Coupling)
=============================================================================
