--------------------------- MODULE OrbitNumbering ---------------------------
(***************************************************************************)
(* What the index of a pruning table promises, without bases, offsets or   *)
(* shared arrays: every corner position gets the row of its orbit under    *)
(* the symmetries, and rows are numbered in the order in which orbits are  *)
(* met.                                                                    *)
(*                                                                         *)
(* CornerIndex is shown to implement this module.                          *)
(***************************************************************************)
EXTENDS Integers, FiniteSets

CONSTANTS
  Corners,   (* the corner positions                                       *)
  Orbit      (* Orbit[x]: the positions symmetric to x                     *)

VARIABLE row  (* the rows given so far, a function on some positions       *)

Init == row = [x \in {} |-> 0]

RowsGiven == {row[x] : x \in DOMAIN row}

(* The next free row, or the row of a symmetric position.                  *)
RowFor(x) ==
  IF Orbit[x] \intersect DOMAIN row = {} THEN Cardinality(RowsGiven)
  ELSE row[CHOOSE y \in Orbit[x] \intersect DOMAIN row : TRUE]

Number(x) ==
  /\ x \in Corners \ DOMAIN row
  /\ row' = [y \in DOMAIN row \union {x} |-> IF y = x THEN RowFor(x) ELSE row[y]]

Next == \E x \in Corners : Number(x)

Spec == Init /\ [][Next]_row

=============================================================================
