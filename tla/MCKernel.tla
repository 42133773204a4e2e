------------------------------ MODULE MCKernel ------------------------------
(* Kernel for TLC: nanosleep of 0 and 1 ticks. *)
EXTENDS Kernel

MCTimespecs == {[seconds |-> 0, ns |-> 2000000], [seconds |-> 0, ns |-> 300000000]}
=============================================================================
