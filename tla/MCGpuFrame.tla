------------------------------ MODULE MCGpuFrame ------------------------------
(* Instances of GpuFrame for TLC: the threads as model values.             *)
EXTENDS GpuFrame

CONSTANTS t1, t2

=============================================================================
