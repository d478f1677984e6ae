-------------------------- MODULE CubeCoordinates --------------------------
(***************************************************************************)
(* The coordinates of a cube and the cubes made from coordinates           *)
(* (src/src/cube.h, src/src/cube.cpp, src/src/util.h, corner_orient and    *)
(* unrank_corner_orient of the SIMD headers), and from them the entry of   *)
(* the pruning table that a cube is looked up in and the cube that the     *)
(* generator makes for an entry (src/src/nxprune.h).                       *)
(*                                                                         *)
(* A mask is the set of places that have a bit.                            *)
(***************************************************************************)
EXTENDS Cube, FiniteSetsExt, Functions

SumOfEight(at(_))  == at(0) + at(1) + at(2) + at(3) + at(4) + at(5) + at(6) + at(7)
SumOfTwelve(at(_)) == SumOfEight(at) + at(8) + at(9) + at(10) + at(11)

Number(mask) == SumOfTwelve(LAMBDA i : IF i \in mask THEN 2^i ELSE 0)
Mask(number) == {i \in 0..15 : (number \div 2^i) % 2 = 1}

(* pext and pdep: places counted among those of a layer.                   *)
Squeeze(mask, layer) == {Cardinality({j \in layer : j < i}) : i \in mask \intersect layer}
Spread(mask, layer)  == {i \in layer : Cardinality({j \in layer : j < i}) \in mask}

(* The combinations of r places out of n, from the largest number down,    *)
(* and the tables of their ranks, as sequences.                            *)
Combinations(n, r) == {number \in 0 .. 2^n - 1 : Cardinality(Mask(number)) = r}
CombinationRank(n, all) ==
  SubSeq([i \in 1 .. 2^n |->
            IF i - 1 \in all THEN Cardinality({other \in all : other > i - 1}) ELSE 0], 1, 2^n)
CombinationUnrank(all, rank) ==
  SubSeq([i \in 1 .. Cardinality(all) |->
            CHOOSE number \in all : At(rank, number) = i - 1], 1, Cardinality(all))

rank_8C4    == CombinationRank(8, Combinations(8, 4))
rank_12C4   == CombinationRank(12, Combinations(12, 4))
unrank_8C4  == CombinationUnrank(Combinations(8, 4), rank_8C4)
unrank_12C4 == CombinationUnrank(Combinations(12, 4), rank_12C4)

(* Permutations, as sequences, are numbered in lexical order.              *)
fc == <<39916800, 3628800, 362880, 40320, 5040, 720, 120, 24, 6, 2, 1, 1>>
Place(n, i) == fc[12 - n + i]
PermRank(perm) ==
  LET n == Len(perm)
  IN  SumFunction([i \in 1..n |->
        Place(n, i) * Cardinality({j \in i + 1 .. n : perm[j] < perm[i]})])

PermUnrank(n, rank) ==
  LET Take(acc, i) ==
        LET k == ((rank \div Place(n, i)) % (n + 1 - i)) + 1
        IN  [perm |-> Append(acc.perm, acc.left[k]), left |-> RemoveAt(acc.left, k)]
  IN  FoldLeft(Take, [perm |-> <<>>, left |-> [i \in 1..n |-> i - 1]], [i \in 1..n |-> i]).perm

-----------------------------------------------------------------------------
(* Layers and orientations.                                                *)
Marked(lane, Has(_)) == {i \in 0 .. Len(lane) - 1 : Has(At(lane, i))}
Equatorial(ev) == Marked(ev, LAMBDA byte : Cubie(byte) >= 8)
Flipped(ev)    == Marked(ev, LAMBDA byte : Twist(byte) = 1)
Others(ev)     == EdgePlaces \ Equatorial(ev)

(* Defect: the wrong bit of the cubie is tested.                           *)
MutBelow(lane) == Marked(lane, LAMBDA byte : (Cubie(byte) \div 2) % 2 = 1)

Below(lane) == Marked(lane, LAMBDA byte : Cubie(byte) \in 4..7)

(* getEdgeOrient, getEdge8Orient, getEdge4Orient.                          *)
GetEdgeOrient(ev)  == Number(Flipped(ev) \ {11})
GetEdge8Orient(ev) == Number(Squeeze(Flipped(ev), Others(ev)))
GetEdge4Orient(ev) == Number(Squeeze(Flipped(ev), Equatorial(ev)))

WithFlips(ev, flipped) ==
  EdgeLane(LAMBDA i : Byte(Cubie(At(ev, i)), IF i \in flipped THEN 1 ELSE 0))
Odd(mask) == Cardinality(mask) % 2 = 1

(* Defect: the twelfth edge is not turned.                                 *)
MutSetEdgeOrient(ev, eorient) == WithFlips(ev, Mask(eorient) \ {11})

(* setEdgeOrient: the twelfth edge keeps the parity that there was.        *)
SetEdgeOrient(ev, eorient) ==
  LET eleven == Mask(eorient) \ {11}
  IN  WithFlips(ev, eleven \union
        (IF Odd(eleven) # Odd(Flipped(ev)) THEN {11} ELSE {}))

(* setEdge8Orient, setEdge4Orient: the first place of the other layer      *)
(* makes the parity even.                                                  *)
SetEdge8Orient(ev, e8orient) ==
  WithFlips(ev, Spread(Mask(e8orient), Others(ev)) \union
    (IF Odd(Mask(e8orient)) THEN {Min(Equatorial(ev))} ELSE {}))

SetEdge4Orient(ev, e4orient) ==
  WithFlips(ev, Spread(Mask(e4orient), Equatorial(ev)) \union
    (IF Odd(Mask(e4orient)) THEN {Min(Others(ev))} ELSE {}))

(* getEdgePerm and getCornerPerm; the setters reset the orientation.       *)
GetPerm(lane) == PermRank([i \in 1 .. Len(lane) |-> Cubie(lane[i])])
SetEdgePerm(eperm)   == PermUnrank(12, eperm)
SetCornerPerm(cperm) == PermUnrank(8, cperm)

(* getEdge4Perm and setEdge4Perm: the equatorial edges among themselves.   *)
GetEdge4Perm(ev) ==
  PermRank(SelectSeq([i \in 1..12 |-> Cubie(ev[i])], LAMBDA cubie : cubie >= 8))
SetEdge4Perm(e4perm) == SetEdgePerm(e4perm)

(* The combinations: getEdgeUD4Comb, getEdge4Comb, getCorner4Comb, and     *)
(* cubes that have them, with the cubies of a layer in order.              *)
GetEdgeUD4Comb(ev) == At(rank_8C4, Number(Squeeze(Below(ev), Others(ev))))
GetEdge4Comb(ev)   == At(rank_12C4, Number(Equatorial(ev)))
GetCorner4Comb(cv) == At(rank_8C4, Number(Below(cv)))

InOrder(i, layer, first, rest) ==
  LET before(places) == Cardinality({j \in places : j < i})
  IN  IF i \in layer THEN first + before(layer) ELSE rest + before((0..11) \ layer)

SetEdgeUD4Comb(eud4comb) ==
  LET below == Mask(At(unrank_8C4, eud4comb))
  IN  EdgeLane(LAMBDA i : IF i >= 8 THEN i ELSE InOrder(i, below, 4, 0))
SetEdge4Comb(e4comb) ==
  LET equator == Mask(At(unrank_12C4, e4comb))
  IN  EdgeLane(LAMBDA i : InOrder(i, equator, 8, 0))
SetCorner4Comb(c4comb) ==
  LET below == Mask(At(unrank_8C4, c4comb))
  IN  CornerLane(LAMBDA i : InOrder(i, below, 4, 0))

-----------------------------------------------------------------------------
(* corner_orient: the first corner has no weight.                          *)
CornerOrient(cv) ==
  LET weight == <<0, 1, 3, 9, 27, 81, 243, 729>>
  IN  SumOfEight(LAMBDA i : At(weight, i) * Twist(At(cv, i)))

(* corner_orient_raw: two bits for each corner.                            *)
CornerOrientRaw(cv) == SumOfEight(LAMBDA i : 4^i * Twist(At(cv, i)))

MulHigh(a, b) == ((a * b) \div 65536) % 65536

(* Defect: the larger powers of three are not shifted back.                *)
MutUnrankCornerOrient(corient) ==
  LET digit(reciprocal, shift) == MulHigh(corient, reciprocal) % 3
      twists == << corient % 3, digit(21846, 0), digit(7282, 0), digit(38837, 4),
                   digit(12946, 4), digit(4316, 4), digit(1439, 4) >>
  IN  <<(3 - (SumFunction(twists) % 3)) % 3>> \o twists

(* unrank_corner_orient: division by the powers of three, and by three for *)
(* the remainder, is multiplication by 16-bit reciprocals; the first       *)
(* corner makes the sum a multiple of three.                               *)
UnrankCornerOrient(corient) ==
  LET remainder(v) == v - 3 * MulHigh(v, 21846)
      digit(reciprocal, shift) == remainder(MulHigh(corient, reciprocal) \div 2^shift)
      twists == << remainder(corient), digit(21846, 0), digit(7282, 0), digit(38837, 4),
                   digit(12946, 4), digit(4316, 4), digit(1439, 4) >>
  IN  <<(3 - (SumFunction(twists) % 3)) % 3>> \o twists

SetCornerOrient(cv, corient) ==
  LET twists == UnrankCornerOrient(corient)
  IN  CornerLane(LAMBDA i : Byte(Cubie(At(cv, i)), At(twists, i)))

-----------------------------------------------------------------------------
(* A variant of the table is the kind of its edge permutation and the      *)
(* number of the edges whose orientation it tells apart, EO4 to EO12.      *)
EPCounts(variant) == [d |-> variant.ep \in {"EP3", "EP4"}, p |-> variant.ep \in {"EP2", "EP4"}]

(* ecoord: the parts of the edge coordinate.                               *)
EdgeConfig(ev, variant) ==
  [d  |-> IF EPCounts(variant).d THEN GetEdgeUD4Comb(ev) ELSE 0,
   p  |-> IF EPCounts(variant).p THEN GetEdge4Perm(ev) ELSE 0,
   eo |-> CASE variant.eo = "EO4"  -> GetEdge4Orient(ev)
            [] variant.eo = "EO8"  -> GetEdge8Orient(ev)
            [] variant.eo = "EO12" -> GetEdgeOrient(ev),
   e4 |-> GetEdge4Comb(ev)]

(* applyEO, getEPnCubes and ecoord_rep::get: the edges the generator makes *)
(* for an entry.  A part that does not count is zero, the identity.        *)
ApplyEO(ev, eorient, variant) ==
  CASE variant.eo = "EO4"  -> SetEdge4Orient(ev, eorient)
    [] variant.eo = "EO8"  -> SetEdge8Orient(ev, eorient)
    [] variant.eo = "EO12" -> SetEdgeOrient(ev, eorient)
EPnCube(config) == EdgeCompose(SetEdgeUD4Comb(config.d), SetEdge4Perm(config.p))
EdgeRep(config, variant) ==
  ApplyEO(EdgeCompose(EPnCube(config), SetEdge4Comb(config.e4)), config.eo, variant)

(* ccoord, and ccoord::rep: the first of the sixteen symmetries that makes *)
(* the coordinate least.                                                   *)
CCoord(cv) == CornerOrientRaw(cv) * 256 + GetCorner4Comb(cv)
RepSym(cv) == Min({CCoord(CornerConjugate(cv, s)) * 16 + s : s \in 0..15}) % 16

N_CORNER_SYM        == 9930   \* rows of the table
N_UNIQUE_OFFSET_SYM == 139    \* places for arrays of offsets

(* getCornerRepresentatives.                                               *)
CornerRep(corient, c4comb) == SetCornerOrient(SetCorner4Comb(c4comb), corient)

(* get_sym: the symmetry kept for the corner coordinates of a cube.        *)
GetSym(cv) == RepSym(CornerRep(CornerOrient(cv), GetCorner4Comb(cv)))

(* prefetch: where the table is read for a cube.                           *)
Entry(c, variant) ==
  LET s == GetSym(c.cv)
  IN  [row |-> CCoord(CornerConjugate(c.cv, s)), edge |-> EdgeConfig(EdgeConjugate(c.ev, s), variant)]

(* The cube that the generator makes for the entry of a cube, and the cube *)
(* as seen where it stands for it.                                         *)
Seen(c) == SymConjugate(c, GetSym(c.cv))
Representative(c, variant) ==
  [cv |-> CornerRep(CornerOrient(c.cv), GetCorner4Comb(c.cv)),
   ev |-> EdgeRep(EdgeConfig(c.ev, variant), variant)]

(* All that the table can tell of a cube seen through a symmetry.          *)
Coordinates(c, s, variant) ==
  <<CCoord(CornerConjugate(c.cv, s)), EdgeConfig(EdgeConjugate(c.ev, s), variant)>>

=============================================================================
