------------------------------ MODULE MCKernelGC ------------------------------
(* Model checking of KernelGC: the bounds are in the configurations. *)
EXTENDS KernelGCProperties
=============================================================================
