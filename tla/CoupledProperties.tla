--------------------------- MODULE CoupledProperties ---------------------------
(* What sequentially coupled solvers promise about their time steps.         *)
EXTENDS CoupledSolver

(* When a sub-solver has to cut the step, the step gets that length ("sync   *)
(* time step"): the length that the solvers go on with, and that the step is *)
(* completed with, is the shortest that one of them has reached.             *)
StepIsShortest ==
    pc \in {"check", "complete"} =>
        /\ \A s \in Solvers : stepDt <= solved[s]
        /\ \E s \in Solvers : stepDt = solved[s]

(* A step is completed with sub-solvers that have all solved for its length, *)
(* so that they agree on the time they have reached.                         *)
AllSolvedTheStep == pc = "complete" => \A s \in Solvers : solved[s] = stepDt

(* They have whenever no sub-solver cut the step in the last iteration; and  *)
(* also when one did, if the residual of all is what decides, or in          *)
(* FlowProppantTransportSolver, which starts the loop again after a cut.     *)
SolvedTheStep == scheme \in {"residual", "proppant"} \/ ~cutHere => AllSolvedTheStep

(* In the iteration of number 0 every sub-solver starts from the beginning   *)
(* of the step, and never from what an earlier attempt has left ("Reset the  *)
(* states of all solvers if any of them had to restart") or, in              *)
(* FlowProppantTransportSolver, the iteration in which the step was cut.     *)
FirstIterationIsClean ==
    pc = "solve" /\ iter = 0 /\ ~cutHere =>
        \A s \in Solvers : solved[s] = IF s < turn THEN stepDt ELSE Begin

(* A step ends: it is completed, or the solver stops with an error.          *)
CoupledStepEnds == (pc = "attempt") ~> (pc \in {"complete", "failed"})
=============================================================================
