------------------------------- MODULE MCCoupled -------------------------------
(* Instances of coupled solvers for TLC; the bounds are in the               *)
(* configurations.                                                           *)
EXTENDS CoupledProperties

Half == <<1, 2>>
=============================================================================
