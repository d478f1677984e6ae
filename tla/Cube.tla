-------------------------------- MODULE Cube --------------------------------
(***************************************************************************)
(* The real cube: composition, inverse and parity (src/src/avx2_cube.h,    *)
(* src/src/sse_cube.h), turns and symmetries (src/src/cube.h and the       *)
(* tables of src/src/const-cubes.h that src/src/gen-const-cubes.cpp        *)
(* prints), and the six views of a cube (src/src/cube6.h).                 *)
(*                                                                         *)
(* A cube is, as in the code, a lane of twelve bytes for the edges and one *)
(* of eight for the corners.  The byte of a place says which cubie is      *)
(* there and, in its high half, how it is oriented.  The places of a lane  *)
(* that belong to no cubie are left out.                                   *)
(***************************************************************************)
EXTENDS Integers, Sequences, FiniteSets, SequencesExt

EdgePlaces   == 0..11
CornerPlaces == 0..7

Byte(cubie, twist) == cubie + 16 * twist
Cubie(byte) == byte % 16
Twist(byte) == byte \div 16

(* A lane is the sequence of its bytes, low byte first; places count from  *)
(* zero.  These two build one from the byte of each place.                 *)
EdgeLane(at(_)) == <<at(0), at(1), at(2), at(3), at(4), at(5), at(6), at(7),
                     at(8), at(9), at(10), at(11)>>
CornerLane(at(_)) == <<at(0), at(1), at(2), at(3), at(4), at(5), at(6), at(7)>>
At(lane, place) == lane[place + 1]

Literal(corners, edges) == [ev |-> edges, cv |-> corners]

Identity == [ev |-> EdgeLane(LAMBDA i : i), cv |-> CornerLane(LAMBDA i : i)]

-----------------------------------------------------------------------------
(* compose: b says where in a to look.  Flips are added modulo 2, twists   *)
(* modulo 3, unless a is mirrored: then the twists of b are subtracted.    *)
EdgeCompose(a, b) ==
  EdgeLane(LAMBDA i : LET byte == At(a, Cubie(At(b, i)))
                      IN  Byte(Cubie(byte), (Twist(byte) + Twist(At(b, i))) % 2))

CornerCompose(a, b, mirror) ==
  CornerLane(LAMBDA i : LET byte == At(a, Cubie(At(b, i)))
                            sign == IF mirror THEN 2 ELSE 1
                        IN  Byte(Cubie(byte), (Twist(byte) + sign * Twist(At(b, i))) % 3))

Compose(a, b, mirror) ==
  [ev |-> EdgeCompose(a.ev, b.ev), cv |-> CornerCompose(a.cv, b.cv, mirror)]

a ** b == Compose(a, b, FALSE)

(* invert: no cycle decomposition has an order that does not divide 27720, *)
(* so the 27719th power of a permutation is its inverse.  The chain of the *)
(* code gets there by way of the powers 3, 27, 433 and 13859.              *)
EdgeThen(p, q)   == EdgeLane(LAMBDA i : At(p, At(q, i)))
CornerThen(p, q) == CornerLane(LAMBDA i : At(p, At(q, i)))
EdgeSquared(p)   == EdgeThen(p, p)
CornerSquared(p) == CornerThen(p, p)

InverseBy(Then(_, _), Squared(_), p) ==
  LET p3     == Then(Squared(p), p)
      p27    == Then(Squared(Squared(Squared(p3))), p3)
      p433   == Then(Squared(Squared(Squared(Squared(p27)))), p)
      p13859 == Then(Squared(Squared(Squared(Squared(Squared(p433))))), p3)
  IN  Then(Squared(p13859), p)

(* The orientations are taken back and go where the cubies go.             *)
InverseEdges(ev) ==
  LET inverse == InverseBy(EdgeThen, EdgeSquared, EdgeLane(LAMBDA i : Cubie(At(ev, i))))
  IN  EdgeLane(LAMBDA i : Byte(At(inverse, i), Twist(At(ev, At(inverse, i)))))
InverseCorners(cv) ==
  LET inverse == InverseBy(CornerThen, CornerSquared, CornerLane(LAMBDA i : Cubie(At(cv, i))))
  IN  CornerLane(LAMBDA i : Byte(At(inverse, i), (2 * Twist(At(cv, At(inverse, i)))) % 3))

Invert(c) == [ev |-> InverseEdges(c.ev), cv |-> InverseCorners(c.cv)]

(* parity: whether the inversions of both permutations are odd in number.  *)
Inversions(lane) ==
  Cardinality({ij \in (DOMAIN lane) \X (DOMAIN lane) :
                 ij[1] < ij[2] /\ Cubie(lane[ij[1]]) > Cubie(lane[ij[2]])})
Parity(c) == (Inversions(c.ev) + Inversions(c.cv)) % 2

-----------------------------------------------------------------------------
(* Fundamental symmetries and the turn of the upper face.                  *)
S_URF3 == Literal(<<\h10, \h24, \h15, \h21, \h23, \h17, \h26, \h12>>,
                  <<\h11, \h08, \h15, \h09, \h13, \h0b, \h17, \h0a, \h10, \h14, \h16, \h12>>)
S_U4   == Literal(<<3, 0, 1, 2, 7, 4, 5, 6>>,
                  <<3, 0, 1, 2, 7, 4, 5, 6, \h1b, \h18, \h19, \h1a>>)
S_LR2  == Literal(<<1, 0, 3, 2, 5, 4, 7, 6>>, <<2, 1, 0, 3, 6, 5, 4, 7, 9, 8, 11, 10>>)
M_U    == Literal(<<3, 0, 1, 2, 4, 5, 6, 7>>, <<3, 0, 1, 2, 4, 5, 6, 7, 8, 9, 10, 11>>)

S_URF3i == Invert(S_URF3)
S_F2    == S_URF3 ** S_U4 ** S_U4 ** S_URF3i

Powers(c) == << Identity, c, c ** c, c ** c ** c >>

(* The symmetries: rotations about three axes after a reflection or none.  *)
sym == [s \in 0..47 |->
  At(Powers(S_URF3), s \div 16) ** At(Powers(S_U4), (s \div 4) % 4)
    ** At(Powers(S_F2), (s \div 2) % 2) ** At(Powers(S_LR2), s % 2)]

(* The turns: U, R, F, D, L, B, each by one, two and three quarters.       *)
FaceSym(face) == At(Powers(S_F2), face \div 3) ** At(Powers(S_URF3), face % 3)
Quarter(face) == Invert(FaceSym(face)) ** M_U ** FaceSym(face)
Moves == 0..17
Face(m) == m \div 3
Axis(m) == Face(m) % 3
moves == [m \in Moves |-> At(Powers(Quarter(Face(m))), (m % 3) + 1)]

(* Tables that were printed once and are kept with the code: the inverse   *)
(* of each symmetry, and what a turn is in each of the six views.          *)
sym_inv == <<
   0,  1,  2,  3, 12,  5,  6, 15,  8,  9, 10, 11,  4, 13, 14,  7,
  32, 35, 42, 41, 20, 21, 28, 29, 34, 33, 40, 43, 22, 23, 30, 31,
  16, 25, 24, 17, 38, 37, 36, 39, 26, 19, 18, 27, 44, 47, 46, 45 >>

move_sym6 == <<
  << 0,  6,  3,  2,  8,  5>>, << 1,  7,  4,  1,  7,  4>>, << 2,  8,  5,  0,  6,  3>>,
  << 3,  0,  6,  5,  2,  8>>, << 4,  1,  7,  4,  1,  7>>, << 5,  2,  8,  3,  0,  6>>,
  << 6,  3,  0,  8,  5,  2>>, << 7,  4,  1,  7,  4,  1>>, << 8,  5,  2,  6,  3,  0>>,
  << 9, 15, 12, 11, 17, 14>>, <<10, 16, 13, 10, 16, 13>>, <<11, 17, 14,  9, 15, 12>>,
  <<12,  9, 15, 14, 11, 17>>, <<13, 10, 16, 13, 10, 16>>, <<14, 11, 17, 12,  9, 15>>,
  <<15, 12,  9, 17, 14, 11>>, <<16, 13, 10, 16, 13, 10>>, <<17, 14, 11, 15, 12,  9>> >>

(* Defect: the turn is made before the others.                             *)
MutMove(c, m) == moves[m] ** c

(* move and premove.                                                       *)
Move(c, m) == c ** moves[m]
Premove(c, m) == moves[m] ** c

(* Defect: the first composition is not mirrored.                          *)
MutCornerConjugate(cv, s) ==
  CornerCompose(CornerCompose(sym[At(sym_inv, s)].cv, cv, FALSE), sym[s].cv, s % 2 = 1)

(* symConjugate; odd symmetries are mirrored.                              *)
EdgeConjugate(ev, s) == EdgeCompose(EdgeCompose(sym[At(sym_inv, s)].ev, ev), sym[s].ev)
CornerConjugate(cv, s) ==
  LET mirror == s % 2 = 1
  IN  CornerCompose(CornerCompose(sym[At(sym_inv, s)].cv, cv, mirror), sym[s].cv, mirror)
SymConjugate(c, s) == [ev |-> EdgeConjugate(c.ev, s), cv |-> CornerConjugate(c.cv, s)]

-----------------------------------------------------------------------------
(* cube6: a cube and its inverse, each as seen along the three axes.       *)
Views == 0..5

Cube6(c) ==
  LET tilted(d) == << d, S_URF3 ** d ** S_URF3i, S_URF3i ** d ** S_URF3 >>
  IN  tilted(c) \o tilted(Invert(c))

Product6(a, b) ==
  << a[1] ** b[1], a[2] ** b[2], a[3] ** b[3], b[4] ** a[4], b[5] ** a[5], b[6] ** a[6] >>

(* A turn is a turn of the views and a premove of the inverse ones, and    *)
(* the other way round.                                                    *)
Move6(a, m0) ==
  LET m == At(move_sym6, m0)
  IN  << Move(a[1], m0), Move(a[2], m[2]), Move(a[3], m[3]),
         Premove(a[4], m[4]), Premove(a[5], m[5]), Premove(a[6], m[6]) >>

(* Defect: the last view is premoved like the first ones.                  *)
MutPremove6(a, m0) ==
  LET m == At(move_sym6, m0)
  IN  << Premove(a[1], m0), Premove(a[2], m[2]), Premove(a[3], m[3]),
         Move(a[4], m[4]), Move(a[5], m[5]), Premove(a[6], m[6]) >>

Premove6(a, m0) ==
  LET m == At(move_sym6, m0)
  IN  << Premove(a[1], m0), Premove(a[2], m[2]), Premove(a[3], m[3]),
         Move(a[4], m[4]), Move(a[5], m[5]), Move(a[6], m[6]) >>

=============================================================================
