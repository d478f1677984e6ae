--------------------------- MODULE DistanceLayers ---------------------------
(***************************************************************************)
(* What the generation of a pruning table promises, without threads, rows, *)
(* stripes or two-bit codes: the positions of the table are discovered in  *)
(* the order of their distance from the solved position, and a layer is    *)
(* left only when every position of the next one has been discovered.      *)
(*                                                                         *)
(* PruneGenerator is shown to implement this module.                       *)
(***************************************************************************)
EXTENDS Integers

CONSTANTS
  Pos,      (* the positions of the table                                  *)
  Solved,   (* the position of the solved cube                             *)
  Dist,     (* Dist[p]: least number of moves from Solved to p             *)
  Radius    (* the distance at which discovery stops                       *)

VARIABLES
  visited,  (* positions discovered so far                                 *)
  level     (* all positions up to this distance have been discovered      *)

vars == <<visited, level>>

Ball(n) == {p \in Pos : Dist[p] <= n}

Init ==
  /\ visited = {Solved}
  /\ level = 0

(* A position one step beyond the current layer is discovered.             *)
Discover(q) ==
  /\ level < Radius
  /\ q \in Pos \ visited
  /\ Dist[q] = level + 1
  /\ visited' = visited \union {q}
  /\ UNCHANGED level

(* The layer is complete.                                                  *)
Advance ==
  /\ level < Radius
  /\ Ball(level + 1) \subseteq visited
  /\ level' = level + 1
  /\ UNCHANGED visited

Next ==
  \/ \E q \in Pos : Discover(q)
  \/ Advance

Spec == Init /\ [][Next]_vars

=============================================================================
