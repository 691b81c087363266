------------------------------ MODULE SolverBase ------------------------------
(***************************************************************************)
(* How a physics solver takes a time step (physicsSolvers/SolverBase.cpp): *)
(* execute() covers the step of the event manager with sub-steps,          *)
(* nonlinearImplicitStep() attempts a sub-step, cuts it and tries          *)
(* configurations, solveNonlinearSystem() iterates.  What the assembly,    *)
(* the linear solver and the line search compute is any of the outcomes    *)
(* that the code tells apart.                                              *)
(*                                                                         *)
(* The fields of the domain are seen through the step they belong to: they *)
(* are at the "begin"ning of the step, or hold iterates for a step length. *)
(* Lengths are integers; TLC's instances start from a power of two that is *)
(* large enough for every division to be exact.                            *)
(***************************************************************************)
EXTENDS Integers, Sequences

CONSTANTS MaxSubSteps, MaxTimeStepCuts, MaxConfigurations,
          MinNewton, MaxNewton,
          IncreaseLimit, DecreaseLimit,   \* in iterations
          CutFactor,      \* m_timeStepCutFactor, numerator and denominator
          MinIncreaseInterval,
          AllowNonConverged,
          HasDefault,     \* has the solver a default configuration to go back to?
          Unlimited,
          InitialDt,      \* m_nextDt at the start
          Shorter,        \* by how much the event manager may shorten a step
          MaxCycles       \* bound: how many cycles TLC looks at

ASSUME LimitsAssumption ==
    /\ {MaxSubSteps, MaxTimeStepCuts, MaxConfigurations, MinNewton, MaxNewton,
        MinIncreaseInterval, MaxCycles} \subseteq Nat
    /\ {InitialDt, Unlimited} \subseteq (Nat \ {0})
    /\ IncreaseLimit \in Nat /\ DecreaseLimit \in Nat /\ IncreaseLimit <= DecreaseLimit
    /\ CutFactor \in (Nat \X (Nat \ {0})) /\ CutFactor[1] <= CutFactor[2]
    /\ Shorter \subseteq Nat /\ {AllowNonConverged, HasDefault} \subseteq BOOLEAN

VARIABLES
    pc,
    request,        \* m_nextDt
    sinceCut,       \* m_numTimestepsSinceLastDtCut
    newtonIter,     \* m_numNewtonIterations
    remaining,      \* dtRemaining
    nextDt,         \* the length of the next sub-step
    subStep,
    stepDt,         \* the length that nonlinearImplicitStep() has reached
    attempt,        \* m_numTimeStepAttempts
    configIter,     \* m_numConfigurationAttempts
    simplest,       \* attemptedSimplestConfiguration
    field,          \* the step length the fields hold iterates for, 0: none
    configuration,
    cycles,
    quiet           \* history: cycles since the last cut

executeVars == <<request, remaining, nextDt, subStep, cycles>>
stepVars == <<stepDt, attempt, configIter, simplest>>
vars == <<pc, executeVars, sinceCut, newtonIter, stepVars, field, configuration, quiet>>

Begin == 0

Init ==
    /\ pc = "idle"
    /\ request = InitialDt /\ sinceCut = -1
    /\ newtonIter = 0
    /\ remaining = 0 /\ nextDt = 0 /\ subStep = 0
    /\ stepDt = 0 /\ attempt = 0 /\ configIter = 0 /\ simplest = FALSE
    /\ field = Begin /\ configuration = "begin"
    /\ cycles = 0 /\ quiet = MinIncreaseInterval

LeastOf(a, b) == IF a < b THEN a ELSE b
-----------------------------------------------------------------------------
(* setNextDt(): "change" is what setNextDtBasedOnStateChange() returns.      *)
(* (Operators ending in None, Any or Late are deliberate errors: they show   *)
(* that the properties notice them.)                                         *)

NewtonDt(dt) ==
    IF newtonIter < IncreaseLimit THEN 2 * dt
    ELSE IF newtonIter > DecreaseLimit THEN dt \div 2
    ELSE dt

SetNextDtAny(dt, change) == LeastOf(NewtonDt(dt), change)
SetNextDt(dt, change) ==
    IF 0 <= sinceCut /\ sinceCut < MinIncreaseInterval THEN dt
    ELSE LeastOf(NewtonDt(dt), change)

\* execute() fits the next length to what remains: two equal sub-steps are
\* better than a long one and a short one.
FitAny(dt, rest)  == dt
FitLate(dt, rest) == IF dt < rest THEN dt ELSE rest
Fit(dt, rest) ==
    IF dt >= rest THEN rest
    ELSE IF 2 * dt > rest THEN rest \div 2
    ELSE dt
-----------------------------------------------------------------------------
(* execute().                                                                *)

Execute(dt) ==
    /\ pc = "idle" /\ cycles < MaxCycles
    /\ pc' = "subStep"
    /\ remaining' = dt /\ nextDt' = dt /\ subStep' = 0
    /\ sinceCut' = IF dt < request THEN -1 ELSE sinceCut
    /\ quiet' = IF dt < request THEN MinIncreaseInterval ELSE quiet
    /\ UNCHANGED <<request, cycles, newtonIter, stepVars, field, configuration>>

\* solverStep(): implicitStepSetup() makes the present fields and the present
\* configuration the beginning of the step.
SolverStep ==
    /\ pc = "subStep" /\ subStep < MaxSubSteps /\ remaining > 0
    /\ pc' = "attempt"
    /\ stepDt' = nextDt /\ attempt' = 0
    /\ field' = Begin /\ configuration' = "begin"
    /\ UNCHANGED <<executeVars, sinceCut, newtonIter, configIter, simplest, quiet>>

\* implicitStepComplete() with the length that nonlinearImplicitStep() returned.
CompleteStep(change) ==
    /\ pc = "complete"
    /\ pc' = "subStep"
    /\ subStep' = subStep + 1
    /\ remaining' = remaining - stepDt
    /\ nextDt' = IF stepDt < remaining
                 THEN Fit(SetNextDt(stepDt, change), remaining - stepDt) ELSE nextDt
    /\ UNCHANGED <<request, cycles, sinceCut, newtonIter, stepVars, field, configuration, quiet>>

EndExecute(change) ==
    /\ pc = "subStep" /\ remaining <= 0
    /\ pc' = "idle"
    /\ request' = SetNextDt(nextDt, change)
    /\ sinceCut' = IF sinceCut >= 0 THEN sinceCut + 1 ELSE sinceCut
    /\ quiet' = quiet + 1
    /\ cycles' = cycles + 1
    /\ UNCHANGED <<remaining, nextDt, subStep, newtonIter, stepVars, field, configuration>>

\* "Maximum allowed number of sub-steps reached."
OutOfSubSteps ==
    /\ pc = "subStep" /\ subStep = MaxSubSteps /\ remaining > 0
    /\ pc' = "failed"
    /\ UNCHANGED <<executeVars, sinceCut, newtonIter, stepVars, field, configuration, quiet>>
-----------------------------------------------------------------------------
(* nonlinearImplicitStep().                                                  *)

NextConfigurationNone == configIter
NextConfiguration == configIter + 1

\* resetStateToBeginningOfStep() and resetConfigurationToBeginningOfStep()
ResetNone == field
ResetField == Begin

Attempt ==
    /\ pc = "attempt" /\ attempt < MaxTimeStepCuts
    /\ pc' = "configuration"
    /\ configIter' = 0 /\ simplest' = FALSE
    /\ field' = IF attempt > 0 THEN ResetField ELSE field
    /\ configuration' = IF attempt > 0 THEN "begin" ELSE configuration
    /\ UNCHANGED <<executeVars, sinceCut, newtonIter, stepDt, attempt, quiet>>

StartNewton ==
    /\ pc = "configuration" /\ configIter < MaxConfigurations
    /\ pc' = "newton"
    /\ newtonIter' = 0
    /\ UNCHANGED <<executeVars, sinceCut, stepVars, field, configuration, quiet>>

NextAttemptNone == attempt
NextAttempt == attempt + 1

Cut(length) == (CutFactor[1] * length) \div CutFactor[2]

\* After the last configuration, or one that failed: the time step is cut.
CutTimeStep ==
    /\ \/ pc = "configuration" /\ configIter = MaxConfigurations
       \/ pc = "cut"
    /\ pc' = "attempt"
    /\ stepDt' = Cut(stepDt)
    /\ sinceCut' = 0
    /\ attempt' = NextAttempt
    /\ quiet' = 0
    /\ UNCHANGED <<executeVars, newtonIter, configIter, simplest, field, configuration>>

NotConverged ==
    /\ pc = "attempt" /\ attempt = MaxTimeStepCuts
    /\ pc' = IF AllowNonConverged THEN "complete" ELSE "failed"
    /\ UNCHANGED <<executeVars, sinceCut, newtonIter, stepVars, field, configuration, quiet>>
-----------------------------------------------------------------------------
(* solveNonlinearSystem() and what its caller does with the outcome.         *)

\* The residual is not small enough: a linear solve, and its solution applied.
Iterate ==
    /\ pc = "newton" /\ newtonIter < MaxNewton
    /\ newtonIter' = newtonIter + 1
    /\ field' = stepDt
    /\ UNCHANGED <<pc, executeVars, sinceCut, stepVars, configuration, quiet>>

EnoughNone == TRUE
Enough == newtonIter >= MinNewton

\* The residual is small enough; updateConfiguration() agrees or wants another
\* configuration.
Converge(agrees) ==
    /\ pc = "newton" /\ Enough /\ newtonIter < MaxNewton
    /\ IF agrees
       THEN pc' = "complete" /\ UNCHANGED <<configIter, configuration>>
       ELSE /\ pc' = "configuration"
            /\ configIter' = NextConfiguration
            /\ configuration' = "updated"
    /\ UNCHANGED <<executeVars, sinceCut, newtonIter, stepDt, attempt, simplest, field, quiet>>

\* The iterations run out, or one of them fails: the residual is too large, a
\* required line search finds nothing, or the solution does not pass its check.
\* The first time the solver goes back to its default configuration.
NewtonFails ==
    /\ pc = "newton"
    /\ IF simplest
       THEN pc' = "cut" /\ UNCHANGED <<simplest, field, configuration, configIter>>
       ELSE /\ simplest' = TRUE
            /\ field' = Begin
            /\ IF HasDefault
               THEN /\ pc' = "configuration" /\ configIter' = NextConfiguration
                    /\ configuration' = "default"
               ELSE pc' = "cut" /\ UNCHANGED <<configuration, configIter>>
    /\ UNCHANGED <<executeVars, sinceCut, newtonIter, stepDt, attempt, quiet>>
-----------------------------------------------------------------------------
Changes == {Unlimited, stepDt \div 2}

Step ==
    \/ SolverStep \/ OutOfSubSteps
    \/ \E change \in Changes : CompleteStep(change) \/ EndExecute(change)
    \/ Attempt \/ StartNewton \/ CutTimeStep \/ NotConverged
    \/ Iterate \/ NewtonFails
    \/ \E agrees \in BOOLEAN : Converge(agrees)

\* The event manager gives the step asked for, or a shorter one.
Call == \E less \in Shorter : less < request /\ Execute(request - less)

Ended ==
    /\ \/ pc = "failed"
       \/ pc = "idle" /\ cycles = MaxCycles
    /\ UNCHANGED vars

Next == Call \/ Step \/ Ended

Spec == Init /\ [][Next]_vars

\* A solver that has been called goes on; nothing makes the loop call it.
FairSpec == Spec /\ WF_vars(Step)
=============================================================================
