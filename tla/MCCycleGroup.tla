--------------------------- MODULE MCCycleGroup ---------------------------
(* Two workers that feed each other; the first has a standard input, the   *)
(* second, the leader, also writes to the pipeline's output.               *)
EXTENDS CycleGroup, TLC

CONSTANTS c12, c21, in1, out2, m1, m2, m3, m4, p1, p2

MCSrc == (c12 :> 1) @@ (c21 :> 2) @@ (out2 :> 2)
MCDst == (c12 :> 2) @@ (c21 :> 1) @@ (in1 :> 1)
=============================================================================
