--------------------------- MODULE EdgeCoordinate ---------------------------
(***************************************************************************)
(* The edge coordinate of a pruning table (ecoord and ecoord_rep,          *)
(* src/src/nxprune.h), with the numbers of the code.                       *)
(*                                                                         *)
(* A configuration of the edges is, as far as a variant of the table tells *)
(* configurations apart, which U and D edges are below (d), how the four   *)
(* equatorial edges are permuted (p), the orientations that count (eo) and *)
(* which places the equatorial edges have (e4).  The coordinate is a place *)
(* in a row of 64-entry stripes; two entries of a stripe make room for its *)
(* minimum, so the coordinate has gaps.                                    *)
(***************************************************************************)
EXTENDS Integers

CONSTANTS
  N_EUD4COMB,  (* 1 (EP1, EP2) or 70 (EP3, EP4) in the code                *)
  N_E4PERM,    (* 1 (EP1, EP3) or 24 (EP2, EP4)                            *)
  N_EO         (* 16 (EO4), 256 (EO8) or 2048 (EO12)                       *)

ASSUME VariantAssumption ==
  N_EUD4COMB \in Nat \ {0} /\ N_E4PERM \in Nat \ {0} /\ N_EO \in Nat \ {0}

N_E4COMB == 495
Config == [d : 0 .. N_EUD4COMB - 1, p : 0 .. N_E4PERM - 1,
           eo : 0 .. N_EO - 1, e4 : 0 .. N_E4COMB - 1]
Identity == [d |-> 0, p |-> 0, eo |-> 0, e4 |-> 0]

N_ECOORD == N_EUD4COMB * N_E4PERM * N_EO * 512
N_EDGE_STRIPE == N_ECOORD \div 64

(* The equatorial part with its gaps; 33/2048 stands for 1/62.             *)
Gap(i) == i + (((i + 63) * 33) \div 2048) * 2

(* ecoord(edgecube).                                                       *)
EP(c)    == N_E4PERM * c.d + c.p
Coord(c) == (EP(c) * N_EO + c.eo) * 512 + Gap(c.e4)

(* decode: the three parts of a coordinate.                                *)
Low(coord)  == coord % 512
Eo(coord)   == (coord \div 512) % N_EO
High(coord) == (coord \div 512) \div N_EO

(* ecoord_rep: the cubes of the equatorial part, the identity in gaps ...  *)
EP1Cubes == [low \in 0..511 |->
  IF \E i \in 0 .. N_E4COMB - 1 : Gap(i) = low
  THEN CHOOSE i \in 0 .. N_E4COMB - 1 : Gap(i) = low
  ELSE Identity.e4]

(* Defect: the permutation is the high part.                               *)
MutEPnCubes == [high \in 0 .. N_EUD4COMB * N_E4PERM - 1 |->
                  <<high % N_EUD4COMB, high \div N_EUD4COMB>>]

(* ... and those of the rest, for the U and D edges and the permutation.   *)
EPnCubes == [high \in 0 .. N_EUD4COMB * N_E4PERM - 1 |->
               <<high \div N_E4PERM, high % N_E4PERM>>]

(* ecoord_rep::get.                                                        *)
RepOf(high, low, eo) ==
  [d |-> EPnCubes[high][1], p |-> EPnCubes[high][2], eo |-> eo, e4 |-> EP1Cubes[low]]

=============================================================================
