---------------------------- MODULE MCSolverPool ----------------------------
(***************************************************************************)
(* Instances of SolverPool: two or three workers and three lines, so that  *)
(* answers can be ready in every order and the deque can run empty between *)
(* them.                                                                   *)
(***************************************************************************)
EXTENDS SolverPool

CONSTANTS w1, w2, w3

TwoWorkers   == {w1, w2}
ThreeWorkers == {w1, w2, w3}

(* Fresh memory reads as an empty string; other memory as anything.        *)
ZeroedMemory == {"empty"}
AnyMemory    == {"empty", "full"}

=============================================================================
