-------------------------- MODULE MCNodeLifecycle ---------------------------
(* Model of NodeLifecycle; NumWorkers and MayFail come from the configs.   *)
EXTENDS NodeLifecycleProofs
=============================================================================
