------------------------------ MODULE MCLifoCuda ------------------------------
(* Instances of LifoStorageCuda for TLC; the bounds are in the configuration. *)
EXTENDS CudaProperties
=============================================================================
