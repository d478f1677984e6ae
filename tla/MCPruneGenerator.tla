-------------------------- MODULE MCPruneGenerator --------------------------
(***************************************************************************)
(* Two puzzles for PruneGenerator.                                         *)
(*                                                                         *)
(* The path: positions 0..7 in a line, solved at one end, two moves that   *)
(* are involutions (a dihedral group).  A position and its mirror image    *)
(* share a row; the outermost and the innermost row have a move onto       *)
(* themselves, and the mirror image lies in a stripe of its own.  All the  *)
(* depths of a table of base 4 occur, and the last position is beyond it.  *)
(*                                                                         *)
(* The cube: positions are the subsets of three moves, coded as bits; a    *)
(* row holds two entries of equal distance that share a byte.  Several     *)
(* rows carry a frontier at a time, so that the threads compete for rows.  *)
(***************************************************************************)
EXTENDS PruneGenerator, TLC

CONSTANTS t1, t2, t3

TwoThreads   == {t1, t2}
ThreeThreads == {t1, t2, t3}
ThreadSymmetry == Permutations(ThreeThreads)

-----------------------------------------------------------------------------
PathPos  == 0..7
PathRow(p) == IF p <= 3 THEN p ELSE 7 - p

(* Move 0 exchanges 2k with 2k+1, move 1 exchanges 2k+1 with 2k+2.         *)
PathStep(m, p) ==
  CASE m = 0 /\ p % 2 = 0               -> p + 1
    [] m = 0 /\ p % 2 = 1               -> p - 1
    [] m = 1 /\ p % 2 = 0 /\ p > 0      -> p - 1
    [] m = 1 /\ p % 2 = 1 /\ p < 7      -> p + 1
    [] OTHER                            -> p

PathRows     == 0..3
PathMoves    == {0, 1}
PathImage    == [m \in PathMoves |-> [p \in PathPos |-> PathStep(m, p)]]
PathRowMove  == [m \in PathMoves |-> [r \in PathRows |-> PathRow(PathStep(m, r))]]
PathRowOf    == [p \in PathPos |-> PathRow(p)]
PathStripeOf == [p \in PathPos |-> <<PathRow(p), p \in {6, 7}>>]
PathOctetOf  == [p \in PathPos |-> <<PathRow(p), p \in {6, 7}>>]
PathDist     == [p \in PathPos |-> p]

-----------------------------------------------------------------------------
Bit(p, i) == (p \div (2 ^ i)) % 2

CubePos      == 0..7
CubeRows     == 0..3
CubeMoves    == 0..2
CubeFlip(m, p) == IF Bit(p, m) = 0 THEN p + 2 ^ m ELSE p - 2 ^ m
CubeImage    == [m \in CubeMoves |-> [p \in CubePos |-> CubeFlip(m, p)]]
CubeRow(p)   == ((Bit(p, 0) + Bit(p, 1)) % 2) + 2 * Bit(p, 2)
CubeRowMove  == [m \in CubeMoves |-> [r \in CubeRows |->
                   CubeFlip(IF m = 2 THEN 1 ELSE 0, r)]]
CubeRowOf    == [p \in CubePos |-> CubeRow(p)]
CubeDist     == [p \in CubePos |-> Bit(p, 0) + Bit(p, 1) + Bit(p, 2)]

=============================================================================
