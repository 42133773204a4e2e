------------------------------ MODULE MCTimer ------------------------------
(* Timer for TLC: with Hz = 4, requests of 0, 1 and 4 ticks. *)
EXTENDS Timer

MCTimespecs == {[seconds |-> 0, ns |-> 2000000],
                [seconds |-> 0, ns |-> 300000000],
                [seconds |-> 1, ns |-> 0]}
=============================================================================
