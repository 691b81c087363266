-------------------------------- MODULE MCSolver --------------------------------
(* Instances of the solver for TLC; the bounds are in the configurations.    *)
EXTENDS SolverProperties

ThreeEighths == <<3, 8>>
=============================================================================
