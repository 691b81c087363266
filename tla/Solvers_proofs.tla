----------------------------- MODULE Solvers_proofs -----------------------------
(***************************************************************************)
(* The safety properties of SolverProperties hold for all limits, cut      *)
(* factors and lengths, those of CoupledProperties for any number of       *)
(* sub-solvers, all lengths, limits and outcomes, when only converged      *)
(* solutions are accepted and at least one iteration is allowed.           *)
(***************************************************************************)
EXTENDS CoupledProperties, WellFoundedInduction, TLAPS

Attempting == {"attempt", "configuration", "newton", "cut"}

\* Which of the limits have room, where the solver is.
Limits ==
    /\ pc \in Attempting \cup {"complete"} => subStep < MaxSubSteps
    /\ pc \in Attempting \ {"attempt"} => attempt < MaxTimeStepCuts
    /\ pc = "newton" => configIter < MaxConfigurations
    /\ sinceCut <= cycles
    /\ pc \in Attempting \cup {"complete", "subStep"} => cycles < MaxCycles

\* What the fields and the configuration hold while a sub-step is attempted.
Fields ==
    /\ pc = "attempt" /\ attempt = 0 => field = Begin /\ configuration = "begin"
    /\ pc \in {"configuration", "newton"} =>
        /\ field \in {Begin, stepDt}
        /\ configIter = 0 => configuration = "begin"
    /\ pc = "newton" /\ newtonIter > 0 => field = stepDt

\* How far the sub-steps reach.
Reach ==
    /\ pc \in Attempting \cup {"complete"} => stepDt <= remaining
    /\ pc = "subStep" /\ remaining > 0 => nextDt = remaining \/ 2 * nextDt <= remaining

\* The counter of the code against the history.
Counters ==
    /\ sinceCut = -1 => quiet >= MinIncreaseInterval
    /\ sinceCut >= 0 => quiet = sinceCut

IInv == TypeOK /\ Limits /\ Fields /\ Reach /\ Counters /\ StepsFit
-----------------------------------------------------------------------------
(* Lengths.                                                                  *)

LEMMA Halving == \A x \in Nat : x \div 2 \in Nat /\ 2 * (x \div 2) <= x
  BY SMT

LEMMA Cutting ==
  ASSUME NEW a \in Nat, NEW b \in Nat \ {0}, a <= b, NEW s \in Nat
  PROVE  (a * s) \div b \in Nat /\ (a * s) \div b <= s
<1> DEFINE p == a * s
           q == p \div b
<1>1. p \in Nat /\ p <= b * s
  BY SMT
<1>2. q \in Int /\ b * q <= p /\ p < b * q + b
  BY <1>1, SMT
<1>3. q >= 0
  <2>1. SUFFICES ASSUME q <= -1 PROVE FALSE
    BY <1>2
  <2>2. b * q <= b * (-1)
    BY <1>2, <2>1, SMT
  <2> QED
    BY <1>1, <1>2, <2>2, SMT
<1>4. q <= s
  <2>1. SUFFICES ASSUME q >= s + 1 PROVE FALSE
    BY <1>2
  <2>2. b * q >= b * (s + 1)
    BY <1>2, <2>1, SMT
  <2> QED
    BY <1>1, <1>2, <2>2, SMT
<1> QED
  BY <1>2, <1>3, <1>4

LEMMA Fitting ==
  ASSUME NEW dt \in Nat, NEW rest \in Nat
  PROVE  /\ Fit(dt, rest) \in Nat
         /\ Fit(dt, rest) = rest \/ 2 * Fit(dt, rest) <= rest
BY Halving DEF Fit

LEMMA NextLength ==
  ASSUME TypeOK, NEW dt \in Nat, NEW change \in Nat
  PROVE  SetNextDt(dt, change) \in Nat
BY Halving DEF SetNextDt, NewtonDt, LeastOf, TypeOK
-----------------------------------------------------------------------------
(* The invariant is kept by every action.                                    *)

LEMMA LimitTypes ==
  /\ MaxSubSteps \in Nat /\ MaxTimeStepCuts \in Nat /\ MaxConfigurations \in Nat
  /\ MaxNewton \in Nat /\ MinNewton \in Nat /\ MinIncreaseInterval \in Nat /\ MaxCycles \in Nat
  /\ InitialDt \in Nat /\ Unlimited \in Nat
  /\ CutFactor[1] \in Nat /\ CutFactor[2] \in Nat \ {0} /\ CutFactor[1] <= CutFactor[2]
BY LimitsAssumption

LEMMA SolverInitially == Init => IInv
<1> SUFFICES ASSUME Init PROVE IInv
  OBVIOUS
<1>1. simplest \in BOOLEAN
  BY Zenon DEF Init
<1> QED
  BY <1>1, LimitTypes DEF Init, IInv, TypeOK, Limits, Fields, Reach, Counters, StepsFit,
                          Attempting, Begin

LEMMA ExecuteKeeps ==
  ASSUME IInv, NEW dt \in Nat, Execute(dt)
  PROVE  IInv'
BY LimitTypes DEF Execute, stepVars, IInv, TypeOK, Limits, Fields, Reach, Counters,
                  StepsFit, Attempting, Begin

LEMMA SolverStepKeeps == IInv /\ SolverStep => IInv'
BY LimitTypes DEF SolverStep, executeVars, stepVars, IInv, TypeOK, Limits, Fields,
                  Reach, Counters, StepsFit, Attempting, Begin

LEMMA OutOfSubStepsKeeps == IInv /\ OutOfSubSteps => IInv'
BY LimitTypes DEF OutOfSubSteps, executeVars, stepVars, IInv, TypeOK, Limits, Fields,
                  Reach, Counters, StepsFit, Attempting, Begin

LEMMA AttemptKeeps == IInv /\ Attempt => IInv'
<1> SUFFICES ASSUME IInv, Attempt PROVE IInv'
  OBVIOUS
<1>1. simplest' \in BOOLEAN
  BY Zenon DEF Attempt, IInv, TypeOK
<1> QED
  BY <1>1, LimitTypes DEF Attempt, ResetField, executeVars, stepVars, IInv, TypeOK, Limits,
                          Fields, Reach, Counters, StepsFit, Attempting, Begin

LEMMA StartNewtonKeeps == IInv /\ StartNewton => IInv'
BY LimitTypes DEF StartNewton, executeVars, stepVars, IInv, TypeOK, Limits, Fields,
                  Reach, Counters, StepsFit, Attempting, Begin

LEMMA NotConvergedKeeps == IInv /\ NotConverged => IInv'
BY LimitTypes DEF NotConverged, executeVars, stepVars, IInv, TypeOK, Limits, Fields,
                  Reach, Counters, StepsFit, Attempting, Begin

LEMMA IterateKeeps == IInv /\ Iterate => IInv'
BY LimitTypes DEF Iterate, executeVars, stepVars, IInv, TypeOK, Limits, Fields,
                  Reach, Counters, StepsFit, Attempting, Begin

LEMMA NewtonFailsKeeps == IInv /\ NewtonFails => IInv'
<1> SUFFICES ASSUME IInv, NewtonFails PROVE IInv'
  OBVIOUS
<1>1. simplest' \in BOOLEAN
  BY Zenon DEF NewtonFails, IInv, TypeOK
<1> QED
  BY <1>1, LimitTypes DEF NewtonFails, NextConfiguration, executeVars, stepVars, IInv, TypeOK, Limits,
                          Fields, Reach, Counters, StepsFit, Attempting, Begin

LEMMA ConvergeKeeps ==
  ASSUME IInv, NEW agrees \in BOOLEAN, Converge(agrees)
  PROVE  IInv'
BY LimitTypes DEF Converge, NextConfiguration, executeVars, IInv, TypeOK, Limits, Fields,
                  Reach, Counters, StepsFit, Attempting, Begin, Enough

LEMMA CutTimeStepKeeps == IInv /\ CutTimeStep => IInv'
<1> SUFFICES ASSUME IInv, CutTimeStep PROVE IInv'
  OBVIOUS
<1>1. stepDt' \in Nat /\ stepDt' <= stepDt
  BY LimitTypes, Cutting DEF CutTimeStep, NextAttempt, Cut, IInv, TypeOK
<1> QED
  BY <1>1, LimitTypes DEF CutTimeStep, NextAttempt, Cut, executeVars, IInv, TypeOK, Limits, Fields,
                          Reach, Counters, StepsFit, Attempting, Begin

LEMMA CompleteStepKeeps ==
  ASSUME IInv, NEW change \in Nat, CompleteStep(change)
  PROVE  IInv'
<1>1. remaining' \in Nat /\ remaining' = remaining - stepDt /\ stepDt \in Nat /\ stepDt <= remaining
  BY DEF CompleteStep, IInv, TypeOK, Reach, Attempting
<1>2. SetNextDt(stepDt, change) \in Nat
  BY <1>1, NextLength DEF IInv
<1>3. /\ nextDt' \in Nat
      /\ remaining' > 0 => nextDt' = remaining' \/ 2 * nextDt' <= remaining'
  <2> DEFINE fitted == Fit(SetNextDt(stepDt, change), remaining - stepDt)
  <2>1. remaining - stepDt \in Nat
    BY <1>1
  <2>2. fitted \in Nat /\ (fitted = remaining - stepDt \/ 2 * fitted <= remaining - stepDt)
    BY <1>2, <2>1, Fitting
  <2>3. nextDt' = (IF stepDt < remaining THEN fitted ELSE nextDt)
    BY DEF CompleteStep
  <2>4. nextDt \in Nat /\ remaining \in Nat
    BY DEF IInv, TypeOK
  <2> HIDE DEF fitted
  <2> QED
    BY <1>1, <2>2, <2>3, <2>4
<1> QED
  BY <1>1, <1>3, LimitTypes DEF CompleteStep, stepVars, IInv, TypeOK, Limits, Fields,
                                Reach, Counters, StepsFit, Attempting, Begin

LEMMA EndExecuteKeeps ==
  ASSUME IInv, NEW change \in Nat, EndExecute(change)
  PROVE  IInv'
<1>1. request' \in Nat
  BY NextLength DEF EndExecute, IInv, TypeOK
<1> QED
  BY <1>1, LimitTypes DEF EndExecute, stepVars, IInv, TypeOK, Limits, Fields,
                          Reach, Counters, StepsFit, Attempting, Begin

LEMMA ChangesAreLengths == TypeOK => Changes \subseteq Nat
BY Halving, LimitTypes DEF Changes, TypeOK

LEMMA NextKeeps == IInv /\ [Next]_vars => IInv'
<1> SUFFICES ASSUME IInv, [Next]_vars PROVE IInv'
  OBVIOUS
<1>1. ASSUME Call PROVE IInv'
  <2>1. PICK less \in Shorter : less < request /\ Execute(request - less)
    BY <1>1 DEF Call
  <2>2. request - less \in Nat
    BY <2>1, LimitsAssumption DEF IInv, TypeOK
  <2> QED
    BY <2>1, <2>2, ExecuteKeeps
<1>2. ASSUME Step PROVE IInv'
  <2>1. Changes \subseteq Nat
    BY ChangesAreLengths DEF IInv
  <2> QED
    BY <1>2, <2>1, SolverStepKeeps, OutOfSubStepsKeeps, CompleteStepKeeps, EndExecuteKeeps,
       AttemptKeeps, StartNewtonKeeps, CutTimeStepKeeps, NotConvergedKeeps, IterateKeeps,
       NewtonFailsKeeps, ConvergeKeeps DEF Step
<1>3. ASSUME UNCHANGED vars PROVE IInv'
  BY <1>3 DEF vars, executeVars, stepVars, IInv, TypeOK, Limits, Fields, Reach, Counters,
              StepsFit, Attempting, Begin
<1> QED
  BY <1>1, <1>2, <1>3 DEF Next, Ended

LEMMA Invariant == Spec => []IInv
BY SolverInitially, NextKeeps, PTL DEF Spec
-----------------------------------------------------------------------------
(* Every variable keeps its type; with it, the time that remains is never    *)
(* negative and no limit on sub-steps, attempts, configurations or           *)
(* iterations is passed (SolverBase::execute, nonlinearImplicitStep).        *)
THEOREM SolverTypeCorrect == Spec => []TypeOK
BY Invariant, PTL DEF IInv

(* A sub-step fills what remains or leaves at least as much as itself: "better *)
(* to do two equal steps than one big and one small" (SolverBase::execute).  *)
THEOREM StepsAlwaysFit == Spec => []StepsFit
BY Invariant, PTL DEF IInv

(* Every Newton loop starts from the beginning of the step, or works on      *)
(* iterates of its own length (SolverBase::nonlinearImplicitStep).           *)
THEOREM AttemptsAlwaysStartClean == Spec => []AttemptsStartClean
<1>1. IInv => AttemptsStartClean
  BY DEF IInv, Fields, AttemptsStartClean
<1> QED
  BY <1>1, Invariant, PTL

(* What is completed was solved for the length that is completed, when the   *)
(* solver accepts converged solutions only and iterates at least once        *)
(* (SolverBase::nonlinearImplicitStep).                                      *)
THEOREM AlwaysCompletesWhatItSolved ==
  ASSUME AllowNonConverged = FALSE, MinNewton > 0
  PROVE  Spec => []CompletesWhatItSolved
<1>1. Init => CompletesWhatItSolved
  BY DEF Init, CompletesWhatItSolved
<1>2. IInv /\ CompletesWhatItSolved /\ [Next]_vars => CompletesWhatItSolved'
  <2> SUFFICES ASSUME IInv, CompletesWhatItSolved, [Next]_vars, pc' = "complete"
               PROVE  field' = stepDt'
    BY DEF CompletesWhatItSolved
  <2>1. ASSUME NEW agrees \in BOOLEAN, Converge(agrees) PROVE field' = stepDt'
    <3>1. pc = "newton" /\ newtonIter > 0
      BY <2>1, LimitTypes DEF Converge, Enough, IInv, TypeOK
    <3> QED
      BY <2>1, <3>1 DEF Converge, IInv, Fields
  <2>2. CASE UNCHANGED vars
    BY <2>2 DEF vars, stepVars, CompletesWhatItSolved
  <2>3. ~Call
    BY DEF Call, Execute
  <2>4. CASE Step
    <3>1. ~NotConverged
      BY DEF NotConverged
    <3>2. ~(SolverStep \/ OutOfSubSteps \/ Attempt \/ StartNewton \/ CutTimeStep \/ Iterate)
      BY DEF SolverStep, OutOfSubSteps, Attempt, StartNewton, CutTimeStep, Iterate
    <3>3. ~NewtonFails
      BY DEF NewtonFails
    <3>4. \A change \in Changes : ~(CompleteStep(change) \/ EndExecute(change))
      BY DEF CompleteStep, EndExecute
    <3> QED
      BY <2>1, <2>4, <3>1, <3>2, <3>3, <3>4 DEF Step
  <2> QED
    BY <2>2, <2>3, <2>4 DEF Next, Ended
<1> QED
  BY <1>1, <1>2, Invariant, PTL DEF Spec

(* After a cut, no longer step is asked for until                            *)
(* minTimeStepIncreaseInterval cycles have passed (SolverBase::setNextDt).   *)
THEOREM NeverGrowsAfterCut == Spec => NoGrowthAfterCut
<1>1. IInv /\ [Next]_vars =>
        [pc = "subStep" /\ pc' = "idle" /\ request' > nextDt => quiet >= MinIncreaseInterval]_vars
  <2> SUFFICES ASSUME IInv, Next, pc = "subStep", pc' = "idle", request' > nextDt
               PROVE  quiet >= MinIncreaseInterval
    OBVIOUS
  <2>1. PICK change \in Changes : EndExecute(change)
    BY DEF Next, Ended, vars, Call, Execute, Step, SolverStep, OutOfSubSteps, CompleteStep,
           Attempt, StartNewton, CutTimeStep, NotConverged, Iterate, NewtonFails, Converge
  <2>2. ~(0 <= sinceCut /\ sinceCut < MinIncreaseInterval)
    <3>1. SUFFICES ASSUME 0 <= sinceCut /\ sinceCut < MinIncreaseInterval PROVE FALSE
      OBVIOUS
    <3>2. request' = nextDt
      BY <2>1, <3>1 DEF EndExecute, SetNextDt
    <3> QED
      BY <3>2 DEF IInv, TypeOK
  <2> QED
    BY <2>2, LimitTypes DEF IInv, TypeOK, Counters
<1> QED
  BY <1>1, Invariant, PTL DEF Spec, NoGrowthAfterCut
-----------------------------------------------------------------------------
(* How often a length has been cut.                                          *)

LEMMA SetInduction ==
  ASSUME NEW P, 0 \in P, \A n \in Nat : n \in P => n + 1 \in P
  PROVE  Nat \subseteq P
<1> SUFFICES ASSUME Nat \ P # {} PROVE FALSE
  OBVIOUS
<1>1. Nat \ P \in SUBSET Nat
  OBVIOUS
<1>2. PICK m \in Nat \ P : \A y \in Nat \ P : <<y, m>> \notin OpToRel(<, Nat)
  BY <1>1, WFMin, NatLessThanWellFounded
<1>3. m - 1 \in Nat /\ m - 1 < m /\ (m - 1) + 1 = m
  <2>1. m \in Nat /\ m # 0
    OBVIOUS
  <2> QED
    BY <2>1
<1>4. m - 1 \notin P
  BY <1>2, <1>3
<1>5. <<m - 1, m>> \in OpToRel(<, Nat)
  BY <1>2, <1>3 DEF OpToRel
<1> QED
  BY <1>2, <1>3, <1>4, <1>5

\* The lengths after 0, 1, .. times cuts, and that there are such.
Cuts(c, length, times) ==
    c = [k \in 0 .. times |-> IF k = 0 THEN length ELSE Cut(c[k - 1])]

LEMMA CutsExist ==
  ASSUME NEW length, NEW times \in Nat
  PROVE  \E c : Cuts(c, length, times)
<1> DEFINE P == {n \in Nat : \E c : Cuts(c, length, n)}
<1>1. 0 \in P
  <2> DEFINE c == [k \in 0 .. 0 |-> length]
  <2>1. c = [k \in 0 .. 0 |-> IF k = 0 THEN length ELSE Cut(c[k - 1])]
    OBVIOUS
  <2> HIDE DEF c
  <2>2. Cuts(c, length, 0)
    BY <2>1 DEF Cuts
  <2> QED
    BY <2>2
<1>2. ASSUME NEW n \in Nat, n \in P PROVE n + 1 \in P
  <2>1. PICK c : Cuts(c, length, n)
    BY <1>2
  <2> DEFINE d == [k \in 0 .. n + 1 |-> IF k = n + 1 THEN Cut(c[n]) ELSE c[k]]
  <2>2. ASSUME NEW k \in 0 .. n + 1 PROVE d[k] = IF k = 0 THEN length ELSE Cut(d[k - 1])
    <3>1. CASE k = n + 1
      <4>1. k # 0 /\ k - 1 = n /\ n \in 0 .. n + 1 /\ n # n + 1
        BY <3>1
      <4> QED
        BY <3>1, <4>1
    <3>2. CASE k # n + 1
      <4>1. k \in 0 .. n /\ (k # 0 => k - 1 \in 0 .. n + 1 /\ k - 1 # n + 1)
        BY <3>2
      <4>2. c[k] = IF k = 0 THEN length ELSE Cut(c[k - 1])
        BY <2>1, <4>1 DEF Cuts
      <4> QED
        BY <3>2, <4>1, <4>2
    <3> QED
      BY <3>1, <3>2
  <2>3. d = [k \in 0 .. n + 1 |-> d[k]]
    OBVIOUS
  <2> HIDE DEF d
  <2>4. Cuts(d, length, n + 1)
    BY <2>2, <2>3 DEF Cuts
  <2> QED
    BY <2>4
<1> HIDE DEF P
<1>3. Nat \subseteq P
  BY <1>1, <1>2, SetInduction
<1> QED
  BY <1>3 DEF P

LEMMA ShortenedSteps ==
  ASSUME NEW length
  PROVE  /\ Shortened(length, 0) = length
         /\ \A n \in Nat : Shortened(length, n + 1) = Cut(Shortened(length, n))
<1> DEFINE cuts(n) == CHOOSE c : Cuts(c, length, n)
<1>1. \A n \in Nat : Cuts(cuts(n), length, n)
  BY CutsExist
<1>2. \A n \in Nat : Shortened(length, n) = cuts(n)[n]
  BY DEF Shortened, Cuts
<1> HIDE DEF cuts
<1>3. \A n \in Nat : \A k \in 0 .. n :
        cuts(n)[k] = IF k = 0 THEN length ELSE Cut(cuts(n)[k - 1])
  BY <1>1 DEF Cuts
<1>4. ASSUME NEW n \in Nat PROVE cuts(n + 1)[n] = cuts(n)[n]
  <2> DEFINE Q == {k \in Nat : k <= n => cuts(n + 1)[k] = cuts(n)[k]}
  <2>1. 0 \in Q
    BY <1>3
  <2>2. ASSUME NEW k \in Nat, k \in Q PROVE k + 1 \in Q
    <3> SUFFICES ASSUME k + 1 <= n PROVE cuts(n + 1)[k + 1] = cuts(n)[k + 1]
      OBVIOUS
    <3>1. /\ k + 1 \in 0 .. n /\ k + 1 \in 0 .. n + 1 /\ k + 1 # 0 /\ (k + 1) - 1 = k
          /\ n + 1 \in Nat /\ k <= n
      OBVIOUS
    <3> QED
      BY <1>3, <2>2, <3>1
  <2> HIDE DEF Q
  <2>3. Nat \subseteq Q
    BY <2>1, <2>2, SetInduction
  <2> QED
    BY <2>3 DEF Q
<1>5. ASSUME NEW n \in Nat PROVE Shortened(length, n + 1) = Cut(Shortened(length, n))
  <2>1. n + 1 \in Nat /\ n + 1 \in 0 .. n + 1 /\ n + 1 # 0 /\ (n + 1) - 1 = n
    OBVIOUS
  <2>2. cuts(n + 1)[n + 1] = Cut(cuts(n + 1)[n])
    BY <1>3, <2>1
  <2> QED
    BY <1>2, <1>4, <2>1, <2>2
<1> QED
  BY <1>2, <1>3, <1>5

\* The length of an attempt is that of the sub-step, cut once per attempt before.
CutPerAttempt ==
    /\ pc \in Attempting \cup {"complete"} => stepDt = Shortened(nextDt, attempt)
    /\ pc = "complete" => attempt < MaxTimeStepCuts

LEMMA CutPerAttemptKeeps ==
  ASSUME IInv, CutPerAttempt, AllowNonConverged = FALSE, [Next]_vars
  PROVE  CutPerAttempt'
<1>1. CASE UNCHANGED vars
  BY <1>1 DEF vars, executeVars, stepVars, CutPerAttempt
<1>2. CASE Call
  BY <1>2 DEF Call, Execute, CutPerAttempt, Attempting
<1>3. CASE SolverStep
  BY <1>3, ShortenedSteps DEF SolverStep, executeVars, CutPerAttempt
<1>4. CASE CutTimeStep
  <2>1. /\ stepDt' = Cut(stepDt) /\ attempt' = attempt + 1 /\ nextDt' = nextDt
        /\ pc \in Attempting /\ attempt \in Nat /\ pc' = "attempt"
    BY <1>4 DEF CutTimeStep, NextAttempt, executeVars, Attempting, IInv, TypeOK
  <2>2. stepDt = Shortened(nextDt, attempt)
    BY <2>1 DEF CutPerAttempt
  <2>3. stepDt' = Shortened(nextDt, attempt + 1)
    BY <2>1, <2>2, ShortenedSteps
  <2> QED
    BY <2>1, <2>3 DEF CutPerAttempt
<1>5. CASE Attempt \/ StartNewton \/ Iterate \/ NewtonFails
  <2>1. UNCHANGED <<stepDt, attempt, nextDt>> /\ pc \in Attempting
    BY <1>5 DEF Attempt, StartNewton, Iterate, NewtonFails, executeVars, stepVars, Attempting
  <2>2. pc' # "complete"
    BY <1>5 DEF Attempt, StartNewton, Iterate, NewtonFails
  <2> QED
    BY <2>1, <2>2 DEF CutPerAttempt
<1>6. ASSUME NEW agrees \in BOOLEAN, Converge(agrees) PROVE CutPerAttempt'
  <2>1. UNCHANGED <<stepDt, attempt, nextDt>> /\ pc \in Attempting /\ attempt < MaxTimeStepCuts
    BY <1>6 DEF Converge, executeVars, Attempting, IInv, Limits
  <2> QED
    BY <2>1 DEF CutPerAttempt
<1>7. CASE OutOfSubSteps \/ NotConverged
  BY <1>7 DEF OutOfSubSteps, NotConverged, CutPerAttempt, Attempting
<1>8. ASSUME NEW change \in Changes, CompleteStep(change) \/ EndExecute(change)
      PROVE  CutPerAttempt'
  BY <1>8 DEF CompleteStep, EndExecute, CutPerAttempt, Attempting
<1> QED
  BY <1>1, <1>2, <1>3, <1>4, <1>5, <1>6, <1>7, <1>8 DEF Next, Step, Ended

(* nonlinearImplicitStep() returns the length of the sub-step, cut less often *)
(* than it may attempt it, when the solver accepts converged solutions only  *)
(* (SolverBase::nonlinearImplicitStep): the loop over coupled solvers relies *)
(* on it.                                                                    *)
THEOREM AlwaysReturnsAnAttempt ==
  ASSUME AllowNonConverged = FALSE
  PROVE  Spec => []ReturnsAnAttempt
<1>1. Init => CutPerAttempt
  BY DEF Init, CutPerAttempt, Attempting
<1>2. IInv /\ CutPerAttempt /\ [Next]_vars => CutPerAttempt'
  BY CutPerAttemptKeeps
<1>3. IInv /\ CutPerAttempt => ReturnsAnAttempt
  <2> SUFFICES ASSUME IInv, CutPerAttempt, pc = "complete"
               PROVE  stepDt \in {Shortened(nextDt, k) : k \in 0 .. MaxTimeStepCuts - 1}
    BY DEF ReturnsAnAttempt
  <2>1. attempt \in 0 .. MaxTimeStepCuts - 1
    BY LimitTypes DEF IInv, TypeOK, CutPerAttempt
  <2>2. stepDt = Shortened(nextDt, attempt)
    BY DEF CutPerAttempt
  <2> QED
    BY <2>1, <2>2
<1> QED
  BY <1>1, <1>2, <1>3, Invariant, PTL DEF Spec
-----------------------------------------------------------------------------
(* Sequentially coupled solvers.                                             *)

Types ==
    /\ request \in Int /\ remaining \in Int /\ nextDt \in Int /\ stepDt \in Int
    /\ newtonIter \in Int /\ sinceCut \in Int /\ iter \in Nat
    /\ scheme \in Schemes
    /\ solved \in [Solvers -> Int] /\ subIterations \in [Solvers -> Int]

\* A whole iteration without a cut.
AllSolved == \A s \in Solvers : solved[s] = stepDt

\* While an iteration is under way: the sub-solver that was the last to solve
\* has solved for the present length, and those before it for no shorter one.
Iterating ==
    /\ pc = "solve" =>
        /\ turn \in Solvers
        /\ \A s \in Solvers : s < turn => stepDt <= solved[s]
        /\ turn > 1 => solved[turn - 1] = stepDt
        /\ ~cutHere => \A s \in Solvers : s < turn => solved[s] = stepDt
    /\ pc = "check" =>
        /\ \A s \in Solvers : stepDt <= solved[s]
        /\ solved[N] = stepDt
        /\ ~cutHere => AllSolved

\* FlowProppantTransportSolver leaves an iteration at a cut, so that a later
\* iteration finds solutions for the present length.
ProppantSolved ==
    Proppant =>
        /\ pc = "solve" => ~cutHere
        /\ pc # "check"
        /\ pc = "iterate" /\ iter > 0 => AllSolved
        /\ pc = "solve" /\ turn = 1 /\ iter > 0 => AllSolved

\* Iterations of number 0 begin where the step does.
Beginning == pc = "iterate" /\ iter = 0 => Proppant \/ solved = AtBeginning

CInv == /\ Types /\ Iterating /\ ProppantSolved /\ Beginning
        /\ StepIsShortest /\ SolvedTheStep /\ FirstIterationIsClean
-----------------------------------------------------------------------------
(* Constants and lengths.                                                    *)

LEMMA ConstantTypes ==
  /\ N \in Nat /\ N > 0 /\ MaxNewton \in Nat /\ InitialDt \in Int /\ Unlimited \in Int
  /\ CutFactor[1] \in Nat /\ CutFactor[2] \in Nat \ {0}
  /\ SubIterations \subseteq Int /\ Shorter \subseteq Int
  /\ "proppant" \in Schemes => N = 2
BY LimitsAssumption, CouplingAssumption

LEMMA CutLength == ASSUME NEW length \in Int PROVE Cut(length) \in Int
<1>1. CutFactor[1] * length \in Int
  BY ConstantTypes
<1> QED
  BY <1>1, ConstantTypes DEF Cut

LEMMA NextLengths ==
  ASSUME Types, NEW dt \in Int, NEW change \in Int, NEW rest \in Int
  PROVE  SetNextDt(dt, change) \in Int /\ Fit(dt, rest) \in Int
<1>1. 2 * dt \in Int /\ dt \div 2 \in Int /\ rest \div 2 \in Int
  BY SMT
<1> QED
  BY <1>1 DEF SetNextDt, NewtonDt, LeastOf, Fit

LEMMA LeastLength ==
  ASSUME NEW dt \in Int, NEW change \in Int, NEW least \in LeastSubDt(dt, change)
  PROVE  least \in Int
<1>1. 2 * dt \in Int /\ dt \div 2 \in Int
  BY SMT
<1> QED
  BY <1>1 DEF LeastSubDt, SubNewtonDt

LEMMA SubLength ==
  ASSUME stepDt \in Int, NEW length \in Lengths
  PROVE  length \in Int /\ length <= stepDt
BY DEF Lengths
-----------------------------------------------------------------------------
(* The invariant is kept by every action.                                    *)

LEMMA CoupledInitially == CoupledInit => CInv
<1> SUFFICES ASSUME CoupledInit PROVE CInv
  OBVIOUS
<1>1. Types
  BY ConstantTypes DEF CoupledInit, Init, Types, AtBeginning, Begin
<1>2. pc = "idle"
  BY DEF CoupledInit, Init
<1> QED
  BY <1>1, <1>2 DEF CInv, Iterating, ProppantSolved, Beginning, StepIsShortest, SolvedTheStep, AllSolvedTheStep, FirstIterationIsClean

LEMMA AroundKeeps == CInv /\ Around => CInv'
<1> SUFFICES ASSUME CInv, Around PROVE CInv'
  OBVIOUS
<1>1. pc' \in {"idle", "subStep", "failed"} /\ UNCHANGED <<couplingVars, stepDt, newtonIter>>
  BY DEF Around, Call, Execute, OutOfSubSteps, CompleteStep, EndExecute, stepVars, executeVars
<1>2. Changes \subseteq Int
  <2>1. stepDt \div 2 \in Int
    BY SMT DEF CInv, Types
  <2> QED
    BY <2>1, ConstantTypes DEF Changes
<1> DEFINE Numbers == /\ request \in Int /\ remaining \in Int /\ nextDt \in Int
                      /\ sinceCut \in Int
<1>3. Numbers'
  <2>1. CASE Call
    BY <2>1, ConstantTypes DEF Call, Execute, CInv, Types
  <2>2. CASE OutOfSubSteps
    BY <2>2 DEF OutOfSubSteps, executeVars, CInv, Types
  <2>3. ASSUME NEW change \in Changes, NEW least \in LeastSubDt(stepDt, change),
               CompleteStep(least)
        PROVE  Numbers'
    <3>1. least \in Int
      BY <1>2, LeastLength DEF CInv, Types
    <3>2. remaining - stepDt \in Int
      BY DEF CInv, Types
    <3>3. SetNextDt(stepDt, least) \in Int
      BY <3>1, NextLengths DEF CInv, Types
    <3>4. Fit(SetNextDt(stepDt, least), remaining - stepDt) \in Int
      BY <3>2, <3>3, NextLengths, 0 \in Int DEF CInv
    <3> QED
      BY <2>3, <3>2, <3>4 DEF CompleteStep, CInv, Types
  <2>4. ASSUME NEW change \in Changes, NEW least \in LeastSubDt(nextDt, change),
               EndExecute(least)
        PROVE  Numbers'
    <3>1. SetNextDt(nextDt, least) \in Int
      BY <1>2, LeastLength, NextLengths, 0 \in Int DEF CInv, Types
    <3> QED
      BY <2>4, <3>1 DEF EndExecute, CInv, Types
  <2> QED
    BY <2>1, <2>2, <2>3, <2>4 DEF Around
<1>4. Types'
  BY <1>1, <1>3 DEF CInv, Types, couplingVars
<1> QED
  BY <1>1, <1>4 DEF CInv, Iterating, ProppantSolved, Beginning, StepIsShortest, SolvedTheStep,
                    AllSolvedTheStep, FirstIterationIsClean

LEMMA CoupledStepKeeps == CInv /\ CoupledStep => CInv'
BY DEF CoupledStep, SolverStep, executeVars, CInv, Types, AtBeginning, Begin, Iterating,
       ProppantSolved, Proppant, Beginning, StepIsShortest, SolvedTheStep, AllSolvedTheStep,
       FirstIterationIsClean

LEMMA StartAttemptKeeps == CInv /\ StartAttempt => CInv'
BY DEF StartAttempt, CountIterations, ResetSolvers, executeVars, stepVars, CInv, Types,
       AtBeginning, Begin, Iterating, ProppantSolved, Proppant, Beginning, StepIsShortest,
       SolvedTheStep, AllSolvedTheStep, FirstIterationIsClean

LEMMA StartIterationKeeps == CInv /\ StartIteration => CInv'
<1> SUFFICES ASSUME CInv, StartIteration PROVE CInv'
  OBVIOUS
<1>1. Types'
  BY DEF StartIteration, ResetSolvers, AtBeginning, Begin, executeVars, stepVars, CInv, Types
<1>2. 1 \in Solvers
  BY ConstantTypes DEF Solvers
<1>3. \A s \in Solvers : ~(s < 1)
  BY ConstantTypes DEF Solvers
<1>4. FirstIterationIsClean'
  BY <1>3 DEF StartIteration, ResetSolvers, AtBeginning, CInv, Beginning, FirstIterationIsClean
<1>5. Iterating'
  BY <1>2, <1>3 DEF StartIteration, Iterating
<1>6. ProppantSolved'
  BY DEF StartIteration, ProppantSolved, Proppant, AllSolved, stepVars, CInv
<1> QED
  BY <1>1, <1>4, <1>5, <1>6 DEF StartIteration, CInv, Beginning, StepIsShortest, SolvedTheStep,
                                AllSolvedTheStep

LEMMA SolveKeeps ==
  ASSUME CInv, NEW length \in Lengths, NEW iterations \in SubIterations,
         Solve(length, iterations)
  PROVE  CInv'
<1> DEFINE cut == length < stepDt
<1>1. length \in Int /\ length <= stepDt /\ stepDt' = length
  BY SubLength DEF CInv, Types, Solve, Sync
<1>2. /\ pc = "solve" /\ turn \in Solvers /\ turn \in Nat /\ turn >= 1 /\ turn <= N
      /\ solved' = [solved EXCEPT ![turn] = length]
  BY ConstantTypes DEF Solve, CInv, Iterating, Solvers
<1>3. /\ solved'[turn] = stepDt'
      /\ \A s \in Solvers : s # turn => solved'[s] = solved[s]
      /\ \A s \in Solvers : s \in Int /\ solved[s] \in Int /\ s <= N
  BY <1>1, <1>2, ConstantTypes DEF CInv, Types, Solvers
<1>4. \A s \in Solvers : s < turn => stepDt' <= solved'[s]
  BY <1>1, <1>2, <1>3 DEF CInv, Iterating, Types
<1>5. /\ ~cutHere' => ~cutHere /\ ~cut
      /\ ~cutHere /\ ~cut => ~cutHere'
  BY Zenon DEF Solve
<1>6. ~cut => stepDt' = stepDt
  BY <1>1 DEF CInv, Types
<1>7. ~cutHere' => \A s \in Solvers : s < turn => solved'[s] = stepDt'
  BY <1>2, <1>3, <1>5, <1>6 DEF CInv, Iterating
<1>8. scheme' = scheme
  BY DEF Solve
<1>9. Types'
  <2>1. iter' \in Nat
    BY DEF Solve, NextSolver, Restart, NextIteration, CInv, Types
  <2>2. newtonIter' \in Int
    BY <2>1 DEF Solve, CountIterations, CInv, Types
  <2> QED
    BY <1>1, <2>1, <2>2, ConstantTypes DEF Solve, executeVars, CInv, Types
<1>10. CASE ~Proppant
  <2>1. /\ turn' = turn + 1
        /\ pc' = IF turn = N THEN "check" ELSE "solve"
        /\ iter' = IF cut THEN 0 ELSE iter
    BY <1>10 DEF Solve, NextSolver
  <2>2. Iterating'
    <3>1. CASE turn = N
      <4>1. \A s \in Solvers : s = turn \/ s < turn
        BY <1>2, <1>3, <3>1
      <4> QED
        BY <1>1, <1>3, <1>4, <1>7, <2>1, <3>1, <4>1 DEF Iterating, AllSolved
    <3>2. CASE turn # N
      <4>1. turn' \in Solvers /\ turn' - 1 = turn
        BY <1>2, <2>1, <3>2, ConstantTypes DEF Solvers
      <4>2. \A s \in Solvers : s < turn' => s = turn \/ s < turn
        BY <1>2, <1>3, <2>1
      <4> QED
        BY <1>1, <1>3, <1>4, <1>7, <2>1, <3>2, <4>1, <4>2 DEF Iterating
    <3> QED
      BY <3>1, <3>2
  <2>3. StepIsShortest'
    <3>1. CASE turn = N
      <4>1. \A s \in Solvers : s = turn \/ s < turn
        BY <1>2, <1>3, <3>1
      <4> QED
        BY <1>1, <1>2, <1>3, <1>4, <4>1 DEF StepIsShortest
    <3>2. CASE turn # N
      BY <2>1, <3>2 DEF StepIsShortest
    <3> QED
      BY <3>1, <3>2
  <2>4. FirstIterationIsClean'
    <3> SUFFICES ASSUME pc' = "solve", iter' = 0, ~cutHere', NEW s \in Solvers
                 PROVE  solved'[s] = IF s < turn' THEN stepDt' ELSE Begin
      BY DEF FirstIterationIsClean
    <3>1. iter = 0 /\ ~cutHere
      BY <1>5, <2>1
    <3>2. solved[s] = IF s < turn THEN stepDt ELSE Begin
      BY <1>2, <3>1 DEF CInv, FirstIterationIsClean
    <3> QED
      BY <1>2, <1>3, <1>5, <1>6, <2>1, <3>2
  <2> QED
    BY <1>8, <1>9, <1>10, <2>1, <2>2, <2>3, <2>4 DEF CInv, ProppantSolved, Proppant, Beginning,
                                    SolvedTheStep, AllSolvedTheStep
<1>11. CASE Proppant
  <2>1. N = 2 /\ Solvers = {1, 2}
    BY <1>11, ConstantTypes DEF Proppant, CInv, Types, Solvers
  <2>2. ~cutHere /\ Restart(cut) /\ Proppant'
    BY <1>2, <1>8, <1>11 DEF Solve, CInv, ProppantSolved, Proppant
  <2>3. CASE cut
    <3>1. pc' = "iterate" /\ iter' = 0
      BY <2>2, <2>3 DEF Restart
    <3> QED
      BY <1>9, <2>2, <3>1 DEF CInv, Iterating, ProppantSolved, Beginning, StepIsShortest,
                         SolvedTheStep, AllSolvedTheStep, FirstIterationIsClean
  <2>4. CASE ~cut /\ turn = 1
    <3>1. ~cutHere' /\ stepDt' = stepDt
      BY <1>5, <1>6, <2>2, <2>4
    <3>2. iter' = iter
      BY <2>2, <2>4 DEF Restart
    <3>3. CASE pc' = "complete"
      <4>1. iter > 0
        BY <2>2, <2>4, <3>3 DEF Restart
      <4>2. \A s \in Solvers : solved'[s] = stepDt'
        BY <1>2, <1>3, <1>11, <2>4, <3>1, <4>1 DEF CInv, ProppantSolved, AllSolved
      <4> QED
        BY <1>2, <1>9, <3>1, <3>3, <4>2 DEF CInv, Iterating, ProppantSolved, Beginning,
              StepIsShortest, SolvedTheStep, AllSolvedTheStep, FirstIterationIsClean, Types
    <3>4. CASE pc' = "solve" /\ turn' = 2
      <4>1. Iterating'
        BY <1>3, <1>1, <2>1, <2>4, <3>1, <3>4 DEF Iterating
      <4>2. FirstIterationIsClean'
        <5> SUFFICES ASSUME iter = 0 PROVE solved'[1] = stepDt' /\ solved'[2] = Begin
          BY <2>1, <3>2, <3>4 DEF FirstIterationIsClean
        <5>1. solved[2] = Begin
          BY <1>2, <2>1, <2>2, <2>4 DEF CInv, FirstIterationIsClean
        <5> QED
          BY <1>3, <2>1, <2>4, <5>1
      <4> QED
        BY <1>9, <3>1, <3>4, <4>1, <4>2 DEF CInv, ProppantSolved, Beginning, StepIsShortest,
                                       SolvedTheStep, AllSolvedTheStep
    <3> QED
      BY <2>2, <2>4, <3>3, <3>4 DEF Restart
  <2>5. CASE ~cut /\ turn = 2
    <3>1. pc' = "iterate" /\ iter' = iter + 1
      BY <2>2, <2>5 DEF Restart, NextIteration
    <3>2. ~cutHere'
      BY <1>5, <2>2, <2>5
    <3>3. AllSolved'
      BY <1>3, <1>7, <2>1, <2>5, <3>2 DEF AllSolved
    <3> QED
      BY <1>9, <2>2, <3>1, <3>2, <3>3 DEF CInv, Iterating, ProppantSolved, Beginning,
                  StepIsShortest, SolvedTheStep, AllSolvedTheStep, FirstIterationIsClean
  <2> QED
    BY <1>2, <2>1, <2>3, <2>4, <2>5
<1> QED
  BY <1>10, <1>11

LEMMA SolveFailsKeeps == CInv /\ SolveFails => CInv'
BY DEF SolveFails, executeVars, stepVars, couplingVars, CInv, Types, Iterating, ProppantSolved,
       Proppant, Beginning, StepIsShortest, SolvedTheStep, AllSolvedTheStep, FirstIterationIsClean

LEMMA CheckConvergenceKeeps ==
  ASSUME CInv, NEW converged \in BOOLEAN, CheckConvergence(converged)
  PROVE  CInv'
<1>1. /\ pc = "check" /\ iter' = iter + 1 /\ stepDt' = stepDt /\ cutHere' = cutHere
      /\ scheme' = scheme /\ ~Proppant /\ pc' \in {"complete", "iterate"}
  BY DEF CheckConvergence, NextIteration, stepVars, CInv, ProppantSolved
<1>2. Types'
  <2>1. newtonIter' \in Int
    BY <1>1 DEF CheckConvergence, CountIterations, CInv, Types
  <2> QED
    BY <1>1, <2>1 DEF CheckConvergence, CheckedDt, executeVars, stepVars, CInv, Types
<1>3. N \in Solvers
  BY ConstantTypes DEF Solvers
<1>4. StepIsShortest' /\ SolvedTheStep'
  <2> SUFFICES ASSUME pc' = "complete" PROVE StepIsShortest' /\ SolvedTheStep'
    BY <1>1 DEF StepIsShortest, SolvedTheStep, AllSolvedTheStep
  <2>1. CASE scheme = "residual"
    <3>1. \A s \in Solvers : solved'[s] = stepDt'
      BY <1>1, <2>1 DEF CheckConvergence, CheckedDt
    <3> QED
      BY <1>2, <1>3, <3>1 DEF StepIsShortest, SolvedTheStep, AllSolvedTheStep, Types
  <2>2. CASE scheme # "residual"
    <3>1. solved' = solved
      BY <2>2 DEF CheckConvergence
    <3> QED
      BY <1>1, <1>3, <2>2, <3>1 DEF CInv, Iterating, AllSolved, StepIsShortest, SolvedTheStep,
                                    AllSolvedTheStep, Proppant
  <2> QED
    BY <2>1, <2>2
<1> QED
  BY <1>1, <1>2, <1>4 DEF CInv, Types, Iterating, ProppantSolved, Proppant, Beginning,
                          FirstIterationIsClean

LEMMA OutOfIterationsKeeps ==
  ASSUME CInv, MaxNewton > 0, OutOfIterations
  PROVE  CInv'
<1>1. /\ pc = "iterate" /\ iter > 0 /\ UNCHANGED couplingVars
      /\ IF Proppant THEN pc' = "complete" /\ stepDt' = stepDt
                     ELSE pc' = "attempt" /\ stepDt' = Cut(stepDt)
  BY ConstantTypes DEF OutOfIterations, CInv, Types
<1>2. Types'
  BY <1>1, CutLength DEF OutOfIterations, executeVars, couplingVars, CInv, Types
<1>3. 1 \in Solvers
  BY ConstantTypes DEF Solvers
<1> QED
  BY <1>1, <1>2, <1>3 DEF couplingVars, CInv, Types, Iterating, ProppantSolved, Proppant,
         AllSolved, Beginning, StepIsShortest, SolvedTheStep, AllSolvedTheStep,
         FirstIterationIsClean

LEMMA CoupledNotConvergedKeeps ==
  ASSUME CInv, AllowNonConverged = FALSE, CoupledNotConverged
  PROVE  CInv'
BY DEF CoupledNotConverged, NotConverged, executeVars, stepVars, couplingVars, CInv, Types,
       Iterating, ProppantSolved, Proppant, Beginning, StepIsShortest, SolvedTheStep,
       AllSolvedTheStep, FirstIterationIsClean

LEMMA StutterKeeps == CInv /\ UNCHANGED coupledVars => CInv'
BY DEF coupledVars, vars, executeVars, stepVars, couplingVars, CInv, Types, Iterating,
       ProppantSolved, Proppant, AllSolved, Beginning, StepIsShortest, SolvedTheStep,
       AllSolvedTheStep, FirstIterationIsClean

LEMMA CoupledInvariant ==
  ASSUME AllowNonConverged = FALSE, MaxNewton > 0
  PROVE  CoupledSpec => []CInv
<1>1. CInv /\ [CoupledNext]_coupledVars => CInv'
  <2> SUFFICES ASSUME CInv, [CoupledNext]_coupledVars PROVE CInv'
    OBVIOUS
  <2>1. CASE Around
    BY <2>1, AroundKeeps
  <2>2. CASE Coupling
    <3>1. Converged \subseteq BOOLEAN
      BY DEF Converged
    <3> QED
      BY <2>2, <3>1, CoupledStepKeeps, StartAttemptKeeps, StartIterationKeeps, SolveKeeps,
         SolveFailsKeeps, CheckConvergenceKeeps, OutOfIterationsKeeps, CoupledNotConvergedKeeps
         DEF Coupling
  <2>3. CASE UNCHANGED coupledVars
    BY <2>3, StutterKeeps
  <2> QED
    BY <2>1, <2>2, <2>3 DEF CoupledNext, Ended, coupledVars
<1> QED
  BY <1>1, CoupledInitially, PTL DEF CoupledSpec
-----------------------------------------------------------------------------
(* The length of a step is the shortest that a sub-solver has reached        *)
(* (CoupledSolver::sequentiallyCoupledSolverStep, "sync time step").         *)
THEOREM StepIsAlwaysShortest ==
  ASSUME AllowNonConverged = FALSE, MaxNewton > 0
  PROVE  CoupledSpec => []StepIsShortest
<1>1. CInv => StepIsShortest
  BY DEF CInv
<1> QED
  BY <1>1, CoupledInvariant, PTL

(* A step is completed with solutions for its length, whenever no sub-solver *)
(* cut the step in the last iteration, when the residual decides, and in     *)
(* FlowProppantTransportSolver.                                              *)
THEOREM AlwaysSolvedTheStep ==
  ASSUME AllowNonConverged = FALSE, MaxNewton > 0
  PROVE  CoupledSpec => []SolvedTheStep
<1>1. CInv => SolvedTheStep
  BY DEF CInv
<1> QED
  BY <1>1, CoupledInvariant, PTL

(* The first iteration of every attempt starts from the beginning of the     *)
(* step in every sub-solver.                                                 *)
THEOREM FirstIterationIsAlwaysClean ==
  ASSUME AllowNonConverged = FALSE, MaxNewton > 0
  PROVE  CoupledSpec => []FirstIterationIsClean
<1>1. CInv => FirstIterationIsClean
  BY DEF CInv
<1> QED
  BY <1>1, CoupledInvariant, PTL
=============================================================================
