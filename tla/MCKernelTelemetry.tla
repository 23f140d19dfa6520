------------------------ MODULE MCKernelTelemetry ------------------------
(* Instances of KernelTelemetry; every bound is a number of the cfg.        *)
EXTENDS KernelTelemetry
============================================================================
