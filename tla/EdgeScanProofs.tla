--------------------------- MODULE EdgeScanProofs ---------------------------
(***************************************************************************)
(* Theorems about the edge coordinate and about the scan over the bits of  *)
(* a pruning table, for every variant of the coordinate and every graph    *)
(* that the assumptions admit.                                             *)
(***************************************************************************)
EXTENDS EdgeScan, FiniteSetTheorems, WellFoundedInduction, TLAPS

-----------------------------------------------------------------------------
(***************************************************************************)
(* What EdgeScan relies on of the edge coordinate: coordinates are inside  *)
(* the table, none is a field of a stripe minimum, and decode followed by  *)
(* ecoord_rep::get gives back the configuration, so that no two            *)
(* configurations share an entry.                                          *)
(***************************************************************************)
(* Division with remainder by the number of orientations or permutations.  *)
LEMMA DivMod ==
  ASSUME NEW n \in Nat \ {0}, NEW a \in Nat, NEW b \in 0 .. n - 1
  PROVE  /\ (a * n + b) \div n = a
         /\ (a * n + b) % n = b
  BY SMT

(* A number below m with one below n make a number below m * n.            *)
LEMMA Packed ==
  ASSUME NEW m \in Nat \ {0}, NEW n \in Nat \ {0},
         NEW a \in 0 .. m - 1, NEW b \in 0 .. n - 1
  PROVE  a * n + b \in 0 .. m * n - 1
  BY SMT

(* The gaps leave the first two fields of each stripe free, and the last   *)
(* field of the eighth (ecomb += (ecomb + 63) * 33 / 2048 * 2).            *)
LEMMA GapRange ==
  ASSUME NEW i \in 0 .. N_E4COMB - 1
  PROVE  /\ Gap(i) \in 2..510
         /\ Gap(i) % 64 \in 2..63
  BY SMT DEF Gap, N_E4COMB

LEMMA GapInjective ==
  ASSUME NEW i \in 0 .. N_E4COMB - 1, NEW j \in 0 .. N_E4COMB - 1, Gap(i) = Gap(j)
  PROVE  i = j
  BY SMT DEF Gap, N_E4COMB

LEMMA FieldTypes ==
  ASSUME NEW c \in Config
  PROVE  /\ c.d \in 0 .. N_EUD4COMB - 1 /\ c.p \in 0 .. N_E4PERM - 1
         /\ c.eo \in 0 .. N_EO - 1 /\ c.e4 \in 0 .. N_E4COMB - 1
         /\ c = [d |-> c.d, p |-> c.p, eo |-> c.eo, e4 |-> c.e4]
  BY DEF Config

(* The parts of a coordinate: below 512 the equatorial part, above it the  *)
(* orientation and the rest.                                               *)
LEMMA Parts ==
  ASSUME NEW c \in Config
  PROVE  /\ EP(c) \in 0 .. N_EUD4COMB * N_E4PERM - 1
         /\ EP(c) * N_EO + c.eo \in 0 .. N_EUD4COMB * N_E4PERM * N_EO - 1
         /\ Coord(c) \div 512 = EP(c) * N_EO + c.eo
         /\ Coord(c) % 512 = Gap(c.e4)
<1>1. EP(c) \in 0 .. N_EUD4COMB * N_E4PERM - 1
  <2>1. c.d * N_E4PERM + c.p \in 0 .. N_EUD4COMB * N_E4PERM - 1
    BY Packed, FieldTypes, VariantAssumption
  <2>2. EP(c) = c.d * N_E4PERM + c.p
    BY FieldTypes, VariantAssumption DEF EP
  <2> QED BY <2>1, <2>2
<1>2. EP(c) * N_EO + c.eo \in 0 .. N_EUD4COMB * N_E4PERM * N_EO - 1
  <2> DEFINE m == N_EUD4COMB * N_E4PERM
  <2>1. m \in Nat \ {0}
    BY VariantAssumption
  <2> HIDE DEF m
  <2>2. EP(c) \in 0 .. m - 1
    BY <1>1 DEF m
  <2>3. EP(c) * N_EO + c.eo \in 0 .. m * N_EO - 1
    BY <2>1, <2>2, Packed, FieldTypes, VariantAssumption
  <2> QED BY <2>3 DEF m
<1>3. /\ Coord(c) \div 512 = EP(c) * N_EO + c.eo
      /\ Coord(c) % 512 = Gap(c.e4)
  <2> DEFINE x == EP(c) * N_EO + c.eo
  <2>1. x \in Nat
    BY <1>2
  <2>2. Gap(c.e4) \in 0..511
    BY GapRange, FieldTypes
  <2>3. Coord(c) = x * 512 + Gap(c.e4)
    BY DEF Coord
  <2> HIDE DEF x
  <2>4. (x * 512 + Gap(c.e4)) \div 512 = x /\ (x * 512 + Gap(c.e4)) % 512 = Gap(c.e4)
    <3>1. \A g \in 0..511 : (x * 512 + g) \div 512 = x /\ (x * 512 + g) % 512 = g
      BY <2>1
    <3> QED BY <2>2, <3>1, ZenonT(30)
  <2> QED BY <2>3, <2>4 DEF x
<1> QED BY <1>1, <1>2, <1>3

(* The coordinate of a configuration is an entry of the table, and never   *)
(* one of the two fields that hold the minimum of a stripe: storing an     *)
(* entry cannot change a minimum, nor a minimum be scanned as an entry.    *)
THEOREM EntriesAvoidMinima ==
  ASSUME NEW c \in Config
  PROVE  /\ Coord(c) \in 0 .. N_ECOORD - 1
         /\ Coord(c) % 64 \in 2..63
<1> DEFINE x == EP(c) * N_EO + c.eo
<1> DEFINE m == N_EUD4COMB * N_E4PERM * N_EO
<1>1. x \in 0 .. m - 1
  BY Parts
<1>2. m \in Nat /\ N_ECOORD = m * 512
  BY VariantAssumption DEF N_ECOORD
<1>3. Coord(c) = x * 512 + Gap(c.e4)
  BY DEF Coord
<1>4. Gap(c.e4) \in 2..510 /\ Gap(c.e4) % 64 \in 2..63
  BY GapRange, FieldTypes
<1> HIDE DEF x, m
<1> QED BY <1>1, <1>2, <1>3, <1>4

(* decode gives back the parts that the constructor of ecoord combined.    *)
THEOREM DecodeInverts ==
  ASSUME NEW c \in Config
  PROVE  /\ Low(Coord(c)) = Gap(c.e4)
         /\ Eo(Coord(c)) = c.eo
         /\ High(Coord(c)) = EP(c)
<1>1. EP(c) \in Nat
  BY Parts, VariantAssumption
<1>2. /\ (EP(c) * N_EO + c.eo) \div N_EO = EP(c)
      /\ (EP(c) * N_EO + c.eo) % N_EO = c.eo
  BY <1>1, DivMod, FieldTypes, VariantAssumption
<1> QED BY <1>2, Parts DEF Low, Eo, High

(* The representatives: what generateCornerPair turns for an entry is the  *)
(* configuration whose entry it is.                                        *)
THEOREM RepInvertsCoord ==
  ASSUME NEW c \in Config
  PROVE  RepOf(High(Coord(c)), Low(Coord(c)), Eo(Coord(c))) = c
<1>1. EPnCubes[EP(c)] = <<c.d, c.p>>
  <2>1. EP(c) \in 0 .. N_EUD4COMB * N_E4PERM - 1
    BY Parts
  <2>2. EP(c) = c.d * N_E4PERM + c.p
    BY FieldTypes, VariantAssumption DEF EP
  <2>3. EP(c) \div N_E4PERM = c.d /\ EP(c) % N_E4PERM = c.p
    BY <2>2, DivMod, FieldTypes, VariantAssumption
  <2> QED BY <2>1, <2>3 DEF EPnCubes
<1>2. EP1Cubes[Gap(c.e4)] = c.e4
  <2>1. Gap(c.e4) \in 0..511
    BY GapRange, FieldTypes
  <2>2. \A i \in 0 .. N_E4COMB - 1 : Gap(i) = Gap(c.e4) => i = c.e4
    BY GapInjective, FieldTypes
  <2>3. c.e4 \in 0 .. N_E4COMB - 1
    BY FieldTypes
  <2>4. (CHOOSE i \in 0 .. N_E4COMB - 1 : Gap(i) = Gap(c.e4)) = c.e4
    BY <2>2, <2>3
  <2> QED BY <2>1, <2>3, <2>4 DEF EP1Cubes
<1>3. RepOf(EP(c), Gap(c.e4), c.eo) = [d |-> c.d, p |-> c.p, eo |-> c.eo, e4 |-> c.e4]
  BY <1>1, <1>2 DEF RepOf
<1> QED BY <1>3, DecodeInverts, FieldTypes

(* No two configurations share an entry of the table.                      *)
COROLLARY CoordInjective ==
  ASSUME NEW b \in Config, NEW c \in Config, Coord(b) = Coord(c)
  PROVE  b = c
BY RepInvertsCoord

-----------------------------------------------------------------------------
(***************************************************************************)
(* The scan: the bits of a pruning table are right in every step of its    *)
(* generation.                                                             *)
(***************************************************************************)
LEMMA LeastNatural ==
  ASSUME NEW S \in SUBSET Nat, S # {}
  PROVE  \E n \in S : \A m \in S : n <= m
<1>1. PICK n \in S : \A m \in S : ~(<<m, n>> \in OpToRel(<, Nat))
  BY NatLessThanWellFounded, WFMin
<1>2. \A m \in S : ~(m < n)
  BY <1>1, Zenon DEF OpToRel
<1>3. QED
  BY <1>2

-----------------------------------------------------------------------------
(***************************************************************************)
(* Stripes and fields of a coordinate.                                     *)
(***************************************************************************)
LEMMA StripeField ==
  ASSUME NEW s \in Nat, NEW k \in Fields
  PROVE  s * 64 + k \in Nat /\ (s * 64 + k) \div 64 = s /\ (s * 64 + k) % 64 = k
BY SMT DEF Fields

LEMMA CoordParts ==
  ASSUME NEW c \in Config
  PROVE  /\ Coord(c) \in Nat
         /\ Coord(c) \div 64 \in Stripes /\ Coord(c) % 64 \in 2..63
         /\ Coord(c) = (Coord(c) \div 64) * 64 + (Coord(c) % 64)
<1> DEFINE m == N_EUD4COMB * N_E4PERM * N_EO
<1>1. Coord(c) \in 0 .. N_ECOORD - 1 /\ Coord(c) % 64 \in 2..63
  BY EntriesAvoidMinima
<1>2. m \in Nat /\ N_ECOORD = m * 512
  <2>1. N_EUD4COMB * N_E4PERM \in Nat
    BY VariantAssumption
  <2>2. QED
    BY <2>1, VariantAssumption DEF N_ECOORD
<1> HIDE DEF m
<1>3. N_EDGE_STRIPE = m * 8
  BY <1>2 DEF N_EDGE_STRIPE
<1>4. \A x \in 0..(m * 512 - 1) : x \div 64 \in 0..(m * 8 - 1) /\ x = (x \div 64) * 64 + (x % 64)
  BY <1>2
<1>5. QED
  BY <1>1, <1>2, <1>3, <1>4 DEF Stripes

LEMMA StripesType == Stripes \subseteq Nat /\ N_EDGE_STRIPE \in Nat /\ 0 \in Stripes
<1> DEFINE m == N_EUD4COMB * N_E4PERM * N_EO
<1>1. m \in Nat \ {0} /\ N_ECOORD = m * 512
  <2>1. N_EUD4COMB * N_E4PERM \in Nat \ {0}
    BY VariantAssumption
  <2>2. N_EUD4COMB * N_E4PERM * N_EO \in Nat \ {0}
    BY <2>1, VariantAssumption
  <2>3. QED
    BY <2>2 DEF N_ECOORD
<1> HIDE DEF m
<1>2. N_EDGE_STRIPE = m * 8
  BY <1>1 DEF N_EDGE_STRIPE
<1>3. QED
  BY <1>1, <1>2 DEF Stripes

(* The identity has the first entry of the first stripe.                   *)
LEMMA IdentityFirst == Identity \in Config /\ Coord(Identity) = 2
<1>1. Identity \in Config
  BY VariantAssumption DEF Identity, Config, N_E4COMB
<1>2. EP(Identity) = 0
  BY VariantAssumption DEF EP, Identity
<1>3. Gap(0) = 2
  BY DEF Gap
<1>4. Coord(Identity) = (0 * N_EO + 0) * 512 + 2
  BY <1>2, <1>3 DEF Coord, Identity
<1>5. QED
  BY <1>1, <1>4, VariantAssumption

(* The entries of configurations are searched, also in the last stripe of  *)
(* eight.                                                                  *)
LEMMA Searched ==
  ASSUME NEW c \in Config
  PROVE  Coord(c) % 64 \in ScanMask(Coord(c) \div 64)
<1>1. Coord(c) \in Nat /\ Coord(c) % 64 \in 2..63 /\ Coord(c) % 512 \in 2..510
  BY CoordParts, Parts, GapRange, FieldTypes
<1>2. ((Coord(c) \div 64) * 64) % 512 = 448 => Coord(c) % 64 <= 62
  BY <1>1
<1>3. QED
  BY <1>1, <1>2 DEF ScanMask, Low

(* What the scan makes of an entry is the configuration that it belongs to. *)
LEMMA ScanConfig ==
  ASSUME NEW c \in Config, NEW s \in Nat, NEW k \in Fields, Coord(c) = s * 64 + k
  PROVE  RepOf(High(s * 64), Low(s * 64) + k, Eo(s * 64)) = c
<1>1. (s * 64 + k) \div 512 = (s * 64) \div 512 /\ (s * 64 + k) % 512 = ((s * 64) % 512) + k
  BY SMT DEF Fields
<1>2. High(s * 64) = High(Coord(c)) /\ Low(s * 64) + k = Low(Coord(c)) /\ Eo(s * 64) = Eo(Coord(c))
  BY <1>1 DEF High, Low, Eo
<1>3. QED
  BY <1>2, RepInvertsCoord

-----------------------------------------------------------------------------
(***************************************************************************)
(* Fields, and the constants of a pass.                                    *)
(***************************************************************************)
LEMMA XorFacts ==
  /\ \A v \in 0..3, m \in 0..2 : Xor(v, 3 - m) = 3 <=> v = m
  /\ \A x \in 0..3 : Xor(x, 3) \in 0..3 /\ Xor(3, Xor(x, 3)) = x
<1>1. \A a, b \in 0..3 : /\ a \in {0, 1, 2, 3} /\ b \in {0, 1, 2, 3}
                         /\ a \div 2 = (IF a < 2 THEN 0 ELSE 1) /\ b \div 2 = (IF b < 2 THEN 0 ELSE 1)
  BY SMT
<1>2. \A a, b \in 0..3 :
        Xor(a, b) = ((a + b) % 2) + 2 * (((IF a < 2 THEN 0 ELSE 1) + (IF b < 2 THEN 0 ELSE 1)) % 2)
  BY <1>1 DEF Xor
<1>3. \A v \in 0..3, m \in 0..2 : Xor(v, 3 - m) = 3 <=> v = m
  BY <1>1, <1>2
<1>4. \A x \in 0..3 : Xor(x, 3) = 3 - x
  BY <1>1, <1>2
<1>5. \A x \in 0..3 : Xor(3, 3 - x) = x
  BY <1>1, <1>2
<1>6. QED
  BY <1>3, <1>4, <1>5

LEMMA PassConstants ==
  ASSUME NEW d \in 0..(BASE + 1)
  PROVE  /\ Mod3(d) \in 0..2
         /\ \A v \in 0..3 : Xor(v, Mod3Mask(d)) = 3 <=> v = Mod3(d)
         /\ Xor(3, Mod3NextXor(d)) = (Mod3(d) + 1) % 3
         /\ DepthXor(d) \in (0..3) \X (0..3)
         /\ Xor(3, DepthXor(d)[1]) = (d + 1) % 4 /\ Xor(3, DepthXor(d)[2]) = (d + 1) \div 4
<1>1. BASE \in 1..12 /\ d \in 0..13
  BY BaseAssumption
<1>2. Mod3(d) \in 0..2
  BY <1>1 DEF Mod3
<1>3. (d + 1) % 4 \in 0..3 /\ (d + 1) \div 4 \in 0..3 /\ (Mod3(d) + 1) % 3 \in 0..3
  BY <1>1, <1>2
<1>4. QED
  BY <1>2, <1>3, XorFacts DEF Mod3Mask, Mod3NextXor, DepthXor

-----------------------------------------------------------------------------
(***************************************************************************)
(* The graph of the turns.                                                 *)
(***************************************************************************)
LEMMA Graph ==
  /\ \A m \in Moves, c \in Config : Image[m][c] \in Config
  /\ \A c \in Config : Dist[c] \in Nat /\ (Dist[c] = 0 <=> c = Identity)
  /\ \A m \in Moves, c \in Config : Dist[Image[m][c]] <= Dist[c] + 1
  /\ \A m \in Moves, c \in Config : \E n \in Moves : Image[n][Image[m][c]] = c
  /\ \A c \in Config \ {Identity} : \E m \in Moves : Dist[Image[m][c]] = Dist[c] - 1
BY ImageAssumption

(* A configuration of the next layer is led to by one of this layer.       *)
LEMMA LedTo ==
  ASSUME NEW q \in Config, NEW d \in Nat, Dist[q] = d + 1
  PROVE  \E c \in Config, m \in Moves : Dist[c] = d /\ Image[m][c] = q
<1>1. q # Identity
  BY Graph
<1>2. PICK m \in Moves : Dist[Image[m][q]] = Dist[q] - 1
  BY <1>1, Graph
<1>3. PICK n \in Moves : Image[n][Image[m][q]] = q
  BY Graph
<1>4. Image[m][q] \in Config /\ Dist[Image[m][q]] = d
  BY <1>2, Graph
<1>5. QED
  BY <1>3, <1>4

-----------------------------------------------------------------------------
(***************************************************************************)
(* The inductive invariant.                                                *)
(***************************************************************************)
Val(c)       == Field(Coord(c))
InStripe(s)  == {c \in Config : Coord(c) \div 64 = s}
ReachedIn(s) == {c \in InStripe(s) : Val(c) # 3}

(* The loops.                                                              *)
Loop ==
  /\ move = -1 => bits = {}
  /\ move # -1 => depth <= BASE + 1
  /\ bits # {} => stripe \in Stripes

(* The entry of every configuration, and the fields of none.               *)
Codes ==
  \A c \in Config :
    IF Dist[c] <= depth THEN Val(c) = ValueOf(Dist[c])
    ELSE Val(c) = 3 \/ (move # -1 /\ Dist[c] = depth + 1 /\ Val(c) = ValueOf(depth + 1))
Gaps == \A s \in Stripes, k \in 2..63 : s * 64 + k \notin Used => mem[s][k] = 3

(* The minimum of a stripe is all ones, or the least distance of what is   *)
(* reached in it.                                                          *)
Minima ==
  \A s \in Stripes :
    /\ ReachedIn(s) = {} => mem[s][0] = 3 /\ mem[s][1] = 3
    /\ ReachedIn(s) # {} => \E c \in ReachedIn(s) : /\ StripeMin(s) = Dist[c]
                                                    /\ \A b \in ReachedIn(s) : Dist[c] <= Dist[b]

(* The bits that are left are entries of configurations that are reached,  *)
(* and what the scan has behind it has been turned.                        *)
Frontier == \A k \in bits : \E c \in Config : Coord(c) = stripe * 64 + k /\ Dist[c] <= depth
Behind(c, m) ==
  \/ m < move
  \/ m = move /\ Coord(c) \div 64 < stripe
  \/ m = move /\ Coord(c) \div 64 = stripe /\ Coord(c) % 64 \notin bits
Covered ==
  move # -1 =>
    \A c \in Config, m \in Moves : Dist[c] = depth /\ Behind(c, m) => Val(Image[m][c]) # 3

Counted == IsFiniteSet(Visited) /\ found = Cardinality(Visited)

ScanInv == TypeOK /\ Loop /\ Codes /\ Gaps /\ Minima /\ Frontier /\ Covered /\ Counted

-----------------------------------------------------------------------------
(***************************************************************************)
(* What the invariant says of single fields.                               *)
(***************************************************************************)
LEMMA Base == BASE \in Nat /\ BASE \in 1..12 /\ Moves \subseteq Nat /\ Moves # {} /\ -1 \notin Moves
BY BaseAssumption

LEMMA FieldType ==
  ASSUME TypeOK, NEW c \in Config
  PROVE  Val(c) = mem[Coord(c) \div 64][Coord(c) % 64] /\ Val(c) \in 0..3
<1>1. Coord(c) \div 64 \in Stripes /\ Coord(c) % 64 \in Fields
  BY CoordParts DEF Fields
<1>2. QED
  BY <1>1 DEF Val, Field, TypeOK

LEMMA ValueRange ==
  ASSUME NEW n \in 0..(BASE + 2)
  PROVE  /\ (~Zeroed \/ n <= BASE + 2) => ValueOf(n) \in 0..2
         /\ ~Zeroed => ValueOf(n) = n % 3
         /\ Zeroed => ValueOf(n) = IF n <= BASE THEN 0 ELSE n - BASE
BY Base DEF ValueOf

(* Reached means: of a layer that is done, or found in this pass.          *)
LEMMA ReachedMeans ==
  ASSUME TypeOK, Loop, Codes, NEW c \in Config
  PROVE  /\ Dist[c] <= depth => Val(c) # 3
         /\ Val(c) # 3 => /\ Dist[c] <= depth + 1 /\ Dist[c] <= BASE + 2
                          /\ Val(c) = ValueOf(Dist[c])
                          /\ Dist[c] > depth => move # -1
<1>1. depth \in 0..(BASE + 2) /\ Dist[c] \in Nat /\ BASE \in Nat
  BY Base, Graph DEF TypeOK
<1>2. Dist[c] <= depth => ValueOf(Dist[c]) \in 0..2 /\ Val(c) = ValueOf(Dist[c])
  BY <1>1, ValueRange DEF Codes
<1>3. Val(c) # 3 /\ ~(Dist[c] <= depth) =>
        move # -1 /\ Dist[c] = depth + 1 /\ Val(c) = ValueOf(depth + 1) /\ depth <= BASE + 1
  BY DEF Codes, Loop
<1>4. QED
  BY <1>1, <1>2, <1>3

(* In a pass the frontier are the values that the mask selects: the layer  *)
(* of the depth is among them, and nothing found in this pass.             *)
LEMMA FrontierValue ==
  ASSUME TypeOK, Loop, Codes, move # -1, NEW c \in Config
  PROVE  /\ Dist[c] = depth => Val(c) = Mod3(depth)
         /\ Val(c) = Mod3(depth) => Dist[c] <= depth
         /\ ValueOf(depth + 1) = (Mod3(depth) + 1) % 3
<1>1. /\ depth \in 0..(BASE + 1) /\ Dist[c] \in Nat /\ BASE \in Nat
      /\ Zeroed <=> depth >= BASE
  BY Base, Graph DEF TypeOK, Loop, Zeroed
<1>2. ValueOf(depth) = Mod3(depth)
  BY <1>1 DEF ValueOf, Mod3
<1>3. ValueOf(depth + 1) = (Mod3(depth) + 1) % 3 /\ ValueOf(depth + 1) # Mod3(depth)
  <2>1. CASE depth < BASE
    <3>1. ValueOf(depth + 1) = (depth + 1) % 3 /\ Mod3(depth) = depth % 3
      BY <1>1, <2>1 DEF ValueOf, Mod3
    <3>2. (depth + 1) % 3 = ((depth % 3) + 1) % 3 /\ (depth + 1) % 3 # depth % 3
      BY <1>1
    <3>3. QED
      BY <3>1, <3>2
  <2>2. CASE depth >= BASE
    <3>1. depth = BASE \/ depth = BASE + 1
      BY <1>1, <2>2
    <3>2. Mod3(depth) = depth - BASE /\ ValueOf(depth + 1) = depth + 1 - BASE
      BY <1>1, <2>2 DEF ValueOf, Mod3
    <3>3. Mod3(depth) \in {0, 1} /\ ValueOf(depth + 1) = Mod3(depth) + 1
      BY <1>1, <3>1, <3>2
    <3>4. QED
      BY <3>3
  <2>3. QED
    BY <1>1, <2>1, <2>2
<1>4. Mod3(depth) # 3
  BY <1>1, PassConstants
<1>5. QED
  BY <1>1, <1>2, <1>3, <1>4 DEF Codes

(* Bits finds the configurations whose value is that of the frontier.      *)
LEMMA BitsFound ==
  ASSUME ScanInv, move # -1, NEW s \in Stripes
  PROVE  /\ Bits(s) \subseteq Fields
         /\ \A k \in Bits(s) : \E c \in Config : Coord(c) = s * 64 + k /\ Dist[c] <= depth
         /\ \A c \in InStripe(s) : Dist[c] = depth => Coord(c) % 64 \in Bits(s)
<1>0. TypeOK /\ Loop /\ Codes /\ Gaps /\ Minima /\ depth \in 0..(BASE + 1) /\ s \in Nat
  BY Base, StripesType DEF ScanInv, TypeOK, Loop
<1>1. /\ Mod3(depth) \in 0..2
      /\ \A v \in 0..3 : Xor(v, Mod3Mask(depth)) = 3 <=> v = Mod3(depth)
  BY <1>0, PassConstants
<1>2. \A k \in Fields : mem[s][k] \in 0..3
  BY <1>0 DEF TypeOK
<1>3. ASSUME NEW k \in Bits(s)
      PROVE  k \in Fields /\ \E c \in Config : Coord(c) = s * 64 + k /\ Dist[c] <= depth
  <2>1. k \in 2..63 /\ k \in Fields /\ Xor(mem[s][k], Mod3Mask(depth)) = 3
    BY DEF Bits, ScanMask, Fields
  <2>2. mem[s][k] = Mod3(depth)
    BY <1>1, <1>2, <2>1
  <2>3. s * 64 + k \in Used
    <3>1. s * 64 + k \notin Used => mem[s][k] = 3
      BY <1>0, <2>1, Zenon DEF Gaps
    <3>2. QED
      BY <1>1, <2>2, <3>1
  <2>4. PICK c \in Config : Coord(c) = s * 64 + k
    BY <2>3 DEF Used
  <2>5. Val(c) = mem[s][k]
    BY <1>0, <2>1, <2>4, StripeField DEF Val, Field
  <2>6. Dist[c] <= depth
    BY <1>0, <2>2, <2>5, FrontierValue
  <2>7. QED
    BY <2>1, <2>4, <2>6
<1>4. ASSUME NEW c \in InStripe(s), Dist[c] = depth
      PROVE  Coord(c) % 64 \in Bits(s)
  <2>1. c \in Config /\ Coord(c) \div 64 = s
    BY DEF InStripe
  <2>2. Val(c) = Mod3(depth) /\ Val(c) = mem[s][Coord(c) % 64]
    BY <1>0, <1>4, <2>1, FrontierValue, FieldType
  <2>3. StripeMin(s) # 15
    <3>1. c \in ReachedIn(s)
      BY <1>1, <2>2 DEF ReachedIn
    <3>2. PICK b \in ReachedIn(s) : StripeMin(s) = Dist[b]
      BY <1>0, <3>1 DEF Minima
    <3>3. Dist[b] <= BASE + 2 /\ Dist[b] \in Nat
      BY <1>0, ReachedMeans, Graph DEF ReachedIn, InStripe
    <3>4. QED
      BY <3>2, <3>3, Base
  <2>4. Coord(c) % 64 \in ScanMask(s) /\ Coord(c) % 64 \in Fields
    BY <2>1, Searched, CoordParts DEF Fields
  <2>5. QED
    BY <1>1, <1>2, <2>2, <2>3, <2>4 DEF Bits
<1>5. QED
  BY <1>3, <1>4

-----------------------------------------------------------------------------
(***************************************************************************)
(* The steps.                                                              *)
(***************************************************************************)
LEMMA InitScan == Init => ScanInv
<1> SUFFICES ASSUME Init PROVE ScanInv
  OBVIOUS
<1>1. /\ depth = 0 /\ found = 1 /\ move = -1 /\ stripe = 0 /\ bits = {}
      /\ mem = [s \in Stripes |-> [k \in Fields |-> IF s = 0 /\ k \in 0..2 THEN 0 ELSE 3]]
  BY DEF Init
<1>2. TypeOK
  BY <1>1, Base, StripesType DEF TypeOK
<1>3. Loop /\ Frontier /\ Covered
  BY <1>1 DEF Loop, Frontier, Covered
<1>4. ASSUME NEW c \in Config PROVE Val(c) = IF c = Identity THEN 0 ELSE 3
  <2>1. /\ Coord(c) \div 64 \in Stripes /\ Coord(c) % 64 \in 2..63
        /\ Coord(c) = (Coord(c) \div 64) * 64 + (Coord(c) % 64)
        /\ Val(c) = mem[Coord(c) \div 64][Coord(c) % 64]
    BY <1>2, CoordParts, FieldType
  <2>2. Val(c) = IF Coord(c) \div 64 = 0 /\ Coord(c) % 64 = 2 THEN 0 ELSE 3
    BY <1>1, <2>1 DEF Fields
  <2>3. Coord(c) \div 64 = 0 /\ Coord(c) % 64 = 2 => Coord(c) = 2
    BY <2>1
  <2>4. Coord(c) = 2 => c = Identity
    BY IdentityFirst, CoordInjective
  <2>5. c = Identity => Coord(c) \div 64 = 0 /\ Coord(c) % 64 = 2
    BY IdentityFirst
  <2>6. QED
    BY <2>2, <2>3, <2>4, <2>5
<1>5. Codes
  <2>1. ValueOf(0) = 0
    BY <1>1, Base DEF ValueOf, Zeroed
  <2>2. ASSUME NEW c \in Config
        PROVE  IF Dist[c] <= 0 THEN Val(c) = ValueOf(Dist[c]) ELSE Val(c) = 3
    BY <1>4, <2>1, Graph
  <2>3. QED
    BY <1>1, <2>2 DEF Codes
<1>6. Gaps
  <2> SUFFICES ASSUME NEW s \in Stripes, NEW k \in 2..63, s * 64 + k \notin Used
               PROVE  mem[s][k] = 3
    BY DEF Gaps
  <2>1. 2 \in Used
    BY IdentityFirst DEF Used
  <2>2. ~(s = 0 /\ k = 2)
    BY <2>1
  <2>3. QED
    BY <1>1, <2>2 DEF Fields
<1>7. Minima
  <2> SUFFICES ASSUME NEW s \in Stripes
               PROVE  /\ ReachedIn(s) = {} => mem[s][0] = 3 /\ mem[s][1] = 3
                      /\ ReachedIn(s) # {} => \E c \in ReachedIn(s) : /\ StripeMin(s) = Dist[c]
                                                                      /\ \A b \in ReachedIn(s) : Dist[c] <= Dist[b]
    BY DEF Minima
  <2>1. ReachedIn(s) = IF s = 0 THEN {Identity} ELSE {}
    <3>1. \A c \in InStripe(s) : c \in Config
      BY DEF InStripe
    <3>2. \A c \in InStripe(s) : Val(c) # 3 <=> c = Identity
      BY <1>4, <3>1
    <3>3. Identity \in InStripe(s) <=> s = 0
      BY IdentityFirst DEF InStripe
    <3>4. QED
      BY <3>2, <3>3 DEF ReachedIn
  <2>2. CASE s = 0
    <3>1. mem[s][0] = 0 /\ mem[s][1] = 0
      BY <1>1, <2>2 DEF Fields
    <3>2. StripeMin(s) = Dist[Identity] /\ Dist[Identity] <= Dist[Identity]
      BY <3>1, Graph, IdentityFirst DEF StripeMin
    <3>3. QED
      BY <2>1, <2>2, <3>2
  <2>3. CASE s # 0
    BY <1>1, <2>1, <2>3 DEF Fields
  <2>4. QED
    BY <2>2, <2>3
<1>8. Counted
  <2>1. Visited = {2}
    <3>1. \A c \in Config : Field(Coord(c)) # 3 <=> c = Identity
      BY <1>4 DEF Val
    <3>2. QED
      BY <3>1, IdentityFirst DEF Visited, Used
  <2>2. QED
    BY <1>1, <2>1, FS_Singleton DEF Counted
<1>9. QED
  BY <1>2, <1>3, <1>5, <1>6, <1>7, <1>8 DEF ScanInv

(* A step that leaves the table as it is.                                  *)
LEMMA TableKept ==
  ASSUME ScanInv, UNCHANGED <<mem, found>>
  PROVE  /\ \A c : Val(c)' = Val(c)
         /\ Gaps' /\ Minima' /\ Counted'
         /\ mem' \in [Stripes -> [Fields -> 0..3]] /\ found' \in Nat
<1>1. \A x : Field(x)' = Field(x) /\ StripeMin(x)' = StripeMin(x)
  BY DEF Field, StripeMin
<1>2. \A c : Val(c)' = Val(c)
  BY <1>1 DEF Val
<1>3. Visited' = Visited /\ \A s : ReachedIn(s)' = ReachedIn(s)
  BY <1>1, <1>2 DEF Visited, ReachedIn
<1>4. Gaps' /\ Counted'
  BY <1>3 DEF ScanInv, Gaps, Counted
<1>5. Minima'
  BY <1>1, <1>3 DEF ScanInv, Minima
<1>6. QED
  BY <1>2, <1>4, <1>5 DEF ScanInv, TypeOK

LEMMA StepStripe ==
  ASSUME ScanInv, NextStripe
  PROVE  ScanInv'
<1>0. /\ TypeOK /\ Loop /\ Codes /\ Frontier /\ Covered
      /\ move # -1 /\ bits = {} /\ stripe < N_EDGE_STRIPE
      /\ stripe' = Stop(stripe + 1)
      /\ bits' = IF stripe' = N_EDGE_STRIPE THEN {} ELSE Bits(stripe')
      /\ UNCHANGED <<depth, mem, found, move>>
  BY DEF ScanInv, NextStripe
<1>1. stripe \in -1..N_EDGE_STRIPE /\ N_EDGE_STRIPE \in Nat /\ Stripes = 0..(N_EDGE_STRIPE - 1)
  BY <1>0, StripesType DEF TypeOK, Stripes
<1>2. /\ stripe' \in Stripes \union {N_EDGE_STRIPE} /\ stripe' > stripe
      /\ \A s \in Stripes : stripe < s /\ s < stripe' => Bits(s) = {}
  <2>1. CASE \A s \in Stripes : s >= stripe + 1 => Bits(s) = {}
    <3>1. stripe' = N_EDGE_STRIPE
      BY <1>0, <2>1 DEF Stop
    <3>2. \A s \in Stripes : stripe < s => s >= stripe + 1
      BY <1>1
    <3>3. QED
      BY <1>0, <2>1, <3>1, <3>2
  <2>2. CASE \E s \in Stripes : s >= stripe + 1 /\ Bits(s) # {}
    <3> DEFINE S == {s \in Stripes : s >= stripe + 1 /\ Bits(s) # {}}
    <3>1. S \in SUBSET Nat /\ S # {}
      BY <2>2, StripesType
    <3>2. \E s \in S : \A r \in S : s <= r
      BY <3>1, LeastNatural
    <3>3. Stop(stripe + 1) = CHOOSE s \in Stripes : /\ s >= stripe + 1 /\ Bits(s) # {}
                                                   /\ \A r \in Stripes : r >= stripe + 1 /\ Bits(r) # {} => s <= r
      BY <2>2 DEF Stop
    <3>4. /\ stripe' \in Stripes /\ stripe' >= stripe + 1 /\ Bits(stripe') # {}
          /\ \A r \in Stripes : r >= stripe + 1 /\ Bits(r) # {} => stripe' <= r
      BY <1>0, <3>2, <3>3
    <3>5. ASSUME NEW s \in Stripes, stripe < s, s < stripe' PROVE Bits(s) = {}
      BY <1>1, <3>4, <3>5
    <3>6. stripe' > stripe
      BY <1>1, <3>4
    <3>7. QED
      BY <3>4, <3>5, <3>6
  <2>3. QED
    BY <2>1, <2>2
<1>3. stripe' \in Stripes => bits' = Bits(stripe')
  BY <1>0, <1>1
<1>4. stripe' \notin Stripes => bits' = {}
  BY <1>0, <1>2
<1>5. TypeOK'
  <2>1. bits' \subseteq Fields
    BY <1>0, <1>3, <1>4, BitsFound
  <2>2. stripe' \in -1..N_EDGE_STRIPE
    BY <1>1, <1>2
  <2>3. QED
    BY <1>0, <2>1, <2>2 DEF TypeOK
<1>6. Loop'
  BY <1>0, <1>4 DEF Loop
<1>7. Codes'
  <2>1. \A n : ValueOf(n)' = ValueOf(n)
    BY <1>0 DEF ValueOf, Zeroed
  <2>2. QED
    BY <1>0, <2>1, TableKept DEF Codes
<1>8. Frontier'
  BY <1>0, <1>3, <1>4, BitsFound DEF Frontier
<1>9. Covered'
  <2> SUFFICES ASSUME NEW c \in Config, NEW m \in Moves, Dist[c] = depth, Behind(c, m)'
               PROVE  Val(Image[m][c])' # 3
    BY <1>0 DEF Covered
  <2>1. Behind(c, m)
    <3>1. Coord(c) \div 64 \in Stripes /\ c \in InStripe(Coord(c) \div 64)
      BY CoordParts DEF InStripe
    <3>2. Coord(c) % 64 \in Bits(Coord(c) \div 64)
      BY <1>0, <3>1, BitsFound
    <3>3. CASE m < move
      BY <3>3 DEF Behind
    <3>4. CASE m = move /\ Coord(c) \div 64 < stripe'
      <4>1. ~(stripe < Coord(c) \div 64)
        BY <1>2, <3>1, <3>2, <3>4
      <4>2. QED
        BY <1>0, <1>1, <3>1, <3>4, <4>1 DEF Behind
    <3>5. CASE m = move /\ Coord(c) \div 64 = stripe' /\ Coord(c) % 64 \notin bits'
      BY <1>3, <3>1, <3>2, <3>5
    <3>6. QED
      BY <1>0, <3>3, <3>4, <3>5 DEF Behind
  <2>2. Val(Image[m][c]) # 3
    BY <1>0, <2>1 DEF Covered
  <2>3. QED
    BY <1>0, <2>2, TableKept
<1>10. QED
  BY <1>0, <1>5, <1>6, <1>7, <1>8, <1>9, TableKept DEF ScanInv

LEMMA StepMove ==
  ASSUME ScanInv, NextMove
  PROVE  ScanInv'
<1> DEFINE left == {m \in Moves : m > move}
<1>0. /\ TypeOK /\ Loop /\ Codes /\ Covered
      /\ move # -1 /\ stripe = N_EDGE_STRIPE
      /\ left # {} => /\ move' = CHOOSE m \in left : \A n \in left : m <= n
                      /\ stripe' = -1 /\ depth' = depth
      /\ left = {} => move' = -1 /\ stripe' = 0 /\ depth' = depth + 1
      /\ UNCHANGED <<mem, found, bits>>
  BY DEF ScanInv, NextMove
<1>1. /\ bits = {} /\ move \in Moves /\ depth \in 0..(BASE + 1)
      /\ N_EDGE_STRIPE \in Nat /\ Moves \subseteq Nat /\ -1 \notin Moves
  <2>1. stripe \notin Stripes
    BY <1>0, StripesType DEF Stripes
  <2>2. QED
    BY <1>0, <2>1, Base, StripesType DEF Loop, TypeOK
<1>2. \A c \in Config, m \in Moves : Dist[c] = depth /\ ~(m > move) => Val(Image[m][c]) # 3
  <2>1. ASSUME NEW c \in Config, NEW m \in Moves, Dist[c] = depth, ~(m > move)
        PROVE  Behind(c, m)
    <3>1. Coord(c) \div 64 < stripe
      BY <1>0, <1>1, CoordParts DEF Stripes
    <3>2. m < move \/ m = move
      BY <1>1, <2>1
    <3>3. QED
      BY <3>1, <3>2 DEF Behind
  <2>2. QED
    BY <1>0, <2>1 DEF Covered
<1>3. CASE left # {}
  <2>1. move' \in left /\ \A n \in left : move' <= n
    <3>1. left \in SUBSET Nat
      BY <1>1
    <3>2. \E m \in left : \A n \in left : m <= n
      BY <1>3, <3>1, LeastNatural
    <3> HIDE DEF left
    <3>3. QED
      BY <1>0, <1>3, <3>2
  <2>2. TypeOK'
    BY <1>0, <1>1, <1>3, <2>1 DEF TypeOK
  <2>3. Loop'
    BY <1>0, <1>1, <1>3, <2>1 DEF Loop
  <2>4. Codes'
    <3>1. \A n : ValueOf(n)' = ValueOf(n)
      BY <1>0, <1>1, <1>3, <2>1 DEF ValueOf, Zeroed
    <3>2. move' # -1 /\ depth' = depth
      BY <1>0, <1>1, <1>3, <2>1
    <3>3. QED
      BY <1>0, <3>1, <3>2, TableKept DEF Codes
  <2>5. Frontier'
    BY <1>0, <1>1 DEF Frontier
  <2>6. Covered'
    <3> SUFFICES ASSUME NEW c \in Config, NEW m \in Moves, Dist[c] = depth, Behind(c, m)'
                 PROVE  Val(Image[m][c])' # 3
      BY <1>0, <1>3 DEF Covered
    <3>1. m < move'
      BY <1>0, <1>3, CoordParts DEF Behind, Stripes
    <3>2. ~(m > move)
      BY <1>1, <2>1, <3>1
    <3>3. QED
      BY <1>0, <1>2, <3>2, TableKept
  <2>7. QED
    BY <1>0, <2>2, <2>3, <2>4, <2>5, <2>6, TableKept DEF ScanInv
<1>4. CASE left = {}
  <2>1. move' = -1 /\ stripe' = 0 /\ depth' = depth + 1 /\ depth' \in 0..(BASE + 2)
    BY <1>0, <1>1, <1>4, Base
  <2>2. TypeOK'
    BY <1>0, <1>1, <2>1 DEF TypeOK
  <2>3. Loop' /\ Frontier' /\ Covered'
    BY <1>0, <1>1, <2>1 DEF Loop, Frontier, Covered
  <2>4. \A n : ValueOf(n)' = ValueOf(n)
    <3>1. Zeroed' <=> Zeroed
      BY <1>0, <1>1, <2>1, Base DEF Zeroed
    <3>2. QED
      BY <3>1 DEF ValueOf
  <2>5. ASSUME NEW c \in Config
        PROVE  IF Dist[c] <= depth + 1 THEN Val(c) = ValueOf(Dist[c]) ELSE Val(c) = 3
    <3>1. Dist[c] \in Nat /\ depth \in Nat
      BY <1>1, Graph
    <3>2. CASE Dist[c] <= depth
      BY <1>0, <3>1, <3>2 DEF Codes
    <3>3. CASE Dist[c] = depth + 1
      <4>1. PICK b \in Config, m \in Moves : Dist[b] = depth /\ Image[m][b] = c
        BY <3>1, <3>3, LedTo
      <4>2. Val(c) # 3
        BY <1>2, <1>4, <4>1
      <4>3. QED
        BY <1>0, <3>1, <3>3, <4>2 DEF Codes
    <3>4. CASE Dist[c] > depth + 1
      BY <1>0, <3>1, <3>4 DEF Codes
    <3>5. QED
      BY <3>1, <3>2, <3>3, <3>4
  <2>6. Codes'
    BY <1>0, <2>1, <2>4, <2>5, TableKept DEF Codes
  <2>7. QED
    BY <1>0, <2>2, <2>3, <2>6, TableKept DEF ScanInv
<1>5. QED
  BY <1>3, <1>4

LEMMA StepBegin ==
  ASSUME ScanInv, BeginPass
  PROVE  ScanInv'
<1>0. /\ TypeOK /\ Loop /\ Codes /\ Gaps /\ Minima /\ Counted
      /\ move = -1 /\ bits = {} /\ depth <= BASE + 1
      /\ mem' = IF depth = BASE THEN [s \in Stripes |-> ZeroVisited(mem[s])] ELSE mem
      /\ stripe' = -1 /\ UNCHANGED <<depth, found, bits>>
  BY DEF ScanInv, BeginPass, Loop
<1>1. move' \in Moves /\ \A m \in Moves : move' <= m
  <2>1. Moves \in SUBSET Nat /\ Moves # {}
    BY Base
  <2>2. \E m \in Moves : \A n \in Moves : m <= n
    BY <2>1, LeastNatural
  <2>3. move' = CHOOSE m \in Moves : \A n \in Moves : m <= n
    BY DEF BeginPass
  <2>4. QED
    BY <2>2, <2>3
<1>2. /\ move' # -1 /\ depth \in 0..(BASE + 1) /\ BASE \in Nat
      /\ mem \in [Stripes -> [Fields -> 0..3]]
  BY <1>0, <1>1, Base DEF TypeOK
<1>3. Loop' /\ Frontier'
  BY <1>0, <1>2 DEF Loop, Frontier
<1>4. Covered'
  <2> SUFFICES ASSUME NEW c \in Config, NEW m \in Moves, Behind(c, m)' PROVE FALSE
    BY DEF Covered
  <2>1. Coord(c) \div 64 \in Nat
    BY CoordParts, StripesType
  <2>2. m < move'
    BY <1>0, <2>1 DEF Behind
  <2>3. QED
    BY <1>1, <2>2, Base
<1>5. Zeroed' <=> depth >= BASE
  BY <1>0, <1>2 DEF Zeroed
<1>6. CASE depth # BASE
  <2>1. mem' = mem /\ (Zeroed' <=> Zeroed)
    BY <1>0, <1>2, <1>5, <1>6 DEF Zeroed
  <2>2. \A n : ValueOf(n)' = ValueOf(n)
    BY <2>1 DEF ValueOf
  <2>3. TypeOK'
    BY <1>0, <1>1, <2>1, StripesType DEF TypeOK
  <2>4. Codes'
    BY <1>0, <2>1, <2>2, TableKept DEF Codes
  <2>5. QED
    BY <1>0, <1>3, <1>4, <2>1, <2>3, <2>4, TableKept DEF ScanInv
<1>7. CASE depth = BASE
  <2>1. \A s \in Stripes : mem'[s] = [k \in Fields |-> IF mem[s][k] = 3 \/ k < 2 THEN mem[s][k] ELSE 0]
    BY <1>0, <1>7 DEF ZeroVisited
  <2>2. mem' \in [Stripes -> [Fields -> 0..3]]
    <3>1. ASSUME NEW s \in Stripes PROVE mem'[s] \in [Fields -> 0..3]
      <4>1. \A k \in Fields : mem[s][k] \in 0..3
        BY <1>2
      <4>2. \A k \in Fields : (IF mem[s][k] = 3 \/ k < 2 THEN mem[s][k] ELSE 0) \in 0..3
        BY <4>1
      <4>3. mem'[s] = [k \in Fields |-> IF mem[s][k] = 3 \/ k < 2 THEN mem[s][k] ELSE 0]
        BY <2>1, Zenon
      <4>4. QED
        BY <4>2, <4>3, Zenon
    <3>2. QED
      BY <1>0, <1>7, <3>1
  <2>3. /\ \A s \in Stripes, k \in 2..63 : mem'[s][k] = IF mem[s][k] = 3 THEN 3 ELSE 0
        /\ \A s \in Stripes, k \in 0..1 : mem'[s][k] = mem[s][k]
    <3>1. \A s \in Stripes, k \in Fields : mem'[s][k] = IF mem[s][k] = 3 \/ k < 2 THEN mem[s][k] ELSE 0
      <4> SUFFICES ASSUME NEW s \in Stripes, NEW k \in Fields
                   PROVE  mem'[s][k] = IF mem[s][k] = 3 \/ k < 2 THEN mem[s][k] ELSE 0
        OBVIOUS
      <4>1. mem'[s] = [l \in Fields |-> IF mem[s][l] = 3 \/ l < 2 THEN mem[s][l] ELSE 0]
        BY <2>1, Zenon
      <4>2. QED
        BY <4>1, Zenon
    <3>2. (\A k \in 2..63 : k \in Fields /\ ~(k < 2)) /\ (\A k \in 0..1 : k \in Fields /\ k < 2)
      BY DEF Fields
    <3>3. QED
      BY <3>1, <3>2
  <2>4. TypeOK'
    BY <1>0, <1>1, <2>2, StripesType DEF TypeOK
  <2>5. ASSUME NEW c \in Config PROVE Val(c)' = IF Val(c) = 3 THEN 3 ELSE 0
    <3>1. Coord(c) \div 64 \in Stripes /\ Coord(c) % 64 \in 2..63
      BY CoordParts
    <3>2. Val(c) = mem[Coord(c) \div 64][Coord(c) % 64] /\ Val(c)' = mem'[Coord(c) \div 64][Coord(c) % 64]
      BY DEF Val, Field
    <3>3. QED
      BY <2>3, <3>1, <3>2
  <2>6. \A n : ValueOf(n)' = IF n <= BASE THEN 0 ELSE n - BASE
    BY <1>5, <1>7, <1>2 DEF ValueOf
  <2>7. Codes'
    <3>1. ASSUME NEW c \in Config
          PROVE  IF Dist[c] <= depth THEN Val(c)' = ValueOf(Dist[c])' ELSE Val(c)' = 3
      <4>1. CASE Dist[c] <= depth
        BY <1>0, <1>7, <2>5, <2>6, <4>1, ReachedMeans
      <4>2. CASE ~(Dist[c] <= depth)
        BY <1>0, <2>5, <4>2 DEF Codes
      <4>3. QED
        BY <4>1, <4>2
    <3>2. QED
      BY <1>0, <3>1 DEF Codes
  <2>8. Visited' = Visited /\ \A s : ReachedIn(s)' = ReachedIn(s)
    <3>1. \A c \in Config : Val(c)' = 3 <=> Val(c) = 3
      BY <2>5
    <3>2. \A s : ReachedIn(s)' = ReachedIn(s)
      BY <3>1 DEF ReachedIn, InStripe
    <3>3. Visited' = Visited
      BY <3>1 DEF Visited, Used, Val
    <3>4. QED
      BY <3>2, <3>3
  <2>9. Counted'
    BY <1>0, <2>8 DEF Counted
  <2>10. Gaps'
    BY <1>0, <2>3 DEF Gaps
  <2>11. Minima'
    <3>1. \A s \in Stripes : StripeMin(s)' = StripeMin(s) /\ mem'[s][0] = mem[s][0] /\ mem'[s][1] = mem[s][1]
      BY <2>3 DEF StripeMin
    <3>2. QED
      BY <1>0, <2>8, <3>1 DEF Minima
  <2>12. QED
    BY <1>3, <1>4, <2>4, <2>7, <2>9, <2>10, <2>11 DEF ScanInv
<1>8. QED
  BY <1>6, <1>7

(* The entry that a turn of the scan leads to.                             *)
LEMMA ScannedEntry ==
  ASSUME ScanInv, bits # {}
  PROVE  /\ move \in Moves /\ stripe \in Stripes /\ FirstBit \in bits /\ FirstBit \in Fields
         /\ depth \in 0..(BASE + 1)
         /\ Scanned(FirstBit) \in Config /\ Dist[Scanned(FirstBit)] <= depth
         /\ Coord(Scanned(FirstBit)) = stripe * 64 + FirstBit
<1>0. TypeOK /\ Loop /\ Frontier
  BY DEF ScanInv
<1>1. move \in Moves /\ stripe \in Stripes /\ depth \in 0..(BASE + 1) /\ bits \subseteq Fields
  BY <1>0, Base DEF TypeOK, Loop
<1>2. FirstBit \in bits
  <2>1. bits \in SUBSET Nat
    BY <1>1 DEF Fields
  <2>2. \E k \in bits : \A l \in bits : k <= l
    BY <2>1, LeastNatural
  <2>3. QED
    BY <2>2 DEF FirstBit
<1>3. PICK c \in Config : Coord(c) = stripe * 64 + FirstBit /\ Dist[c] <= depth
  BY <1>0, <1>2 DEF Frontier
<1>4. Scanned(FirstBit) = c
  BY <1>1, <1>2, <1>3, ScanConfig, StripesType DEF Scanned
<1>5. QED
  BY <1>1, <1>2, <1>3, <1>4

(* An entry is marked: its value is the next one, and the minimum of an    *)
(* untouched stripe the next depth.                                        *)
Marked(q) ==
  /\ \A c \in Config \ {q} : Val(c)' = Val(c)
  /\ Val(q)' = ValueOf(depth + 1)
  /\ \A s \in Stripes \ {Coord(q) \div 64} : mem'[s] = mem[s]
  /\ LET s == Coord(q) \div 64
     IN  /\ \A k \in 2..63 : k # Coord(q) % 64 => mem'[s][k] = mem[s][k]
         /\ mem'[s][0] = IF StripeMin(s) = 15 THEN Xor(mem[s][0], DepthXor(depth)[1]) ELSE mem[s][0]
         /\ mem'[s][1] = IF StripeMin(s) = 15 THEN Xor(mem[s][1], DepthXor(depth)[2]) ELSE mem[s][1]
  /\ mem' \in [Stripes -> [Fields -> 0..3]]

(* Fields of the minimum are all ones when it is 15.                       *)
LEMMA AllOnes ==
  ASSUME TypeOK, NEW s \in Stripes
  PROVE  /\ mem[s][0] \in 0..3 /\ mem[s][1] \in 0..3
         /\ StripeMin(s) = 15 <=> mem[s][0] = 3 /\ mem[s][1] = 3
<1>1. mem[s][0] \in 0..3 /\ mem[s][1] \in 0..3
  BY DEF TypeOK, Fields
<1>2. QED
  BY <1>1 DEF StripeMin

LEMMA MarkEntry ==
  ASSUME ScanInv, NextBit, NEW q, q = Image[move][Scanned(FirstBit)], Val(q) = 3
  PROVE  Marked(q) /\ found' = found + 1
<1>0. TypeOK /\ Loop /\ Codes /\ bits # {} /\ move # -1
  BY DEF ScanInv, NextBit, Loop
<1>1. /\ q \in Config /\ depth \in 0..(BASE + 1)
  BY <1>0, ScannedEntry, Graph
<1>2. PICK s \in Stripes : s = Coord(q) \div 64
  BY <1>1, CoordParts
<1>3. PICK k \in 2..63 : k = Coord(q) % 64
  BY <1>1, CoordParts
<1>4. mem[s][k] = 3
  BY <1>0, <1>1, <1>2, <1>3, FieldType
<1>5. /\ mem' = [mem EXCEPT ![s] = [l \in Fields |->
                   CASE l = k -> Xor(mem[s][k], Mod3NextXor(depth))
                     [] l \in {0, 1} /\ StripeMin(s) = 15 -> Xor(mem[s][l], DepthXor(depth)[l + 1])
                     [] OTHER -> mem[s][l]]]
      /\ found' = found + 1
  BY <1>2, <1>3, <1>4, ScannedEntry DEF NextBit
<1>6. /\ \A r \in Stripes \ {s} : mem'[r] = mem[r]
      /\ mem'[s] = [l \in Fields |->
                   CASE l = k -> Xor(mem[s][k], Mod3NextXor(depth))
                     [] l \in {0, 1} /\ StripeMin(s) = 15 -> Xor(mem[s][l], DepthXor(depth)[l + 1])
                     [] OTHER -> mem[s][l]]
  BY <1>0, <1>5 DEF TypeOK
<1>7. mem'[s][k] = ValueOf(depth + 1) /\ mem'[s][k] \in 0..3
  <2>1. mem'[s][k] = Xor(3, Mod3NextXor(depth))
    BY <1>4, <1>6 DEF Fields
  <2>2. Xor(3, Mod3NextXor(depth)) = (Mod3(depth) + 1) % 3 /\ Mod3(depth) \in 0..2
    BY <1>1, PassConstants
  <2>3. ValueOf(depth + 1) = (Mod3(depth) + 1) % 3
    BY <1>0, <1>1, FrontierValue
  <2>4. QED
    BY <2>1, <2>2, <2>3
<1> DEFINE minimum(l) == Xor(mem[s][l], DepthXor(depth)[l + 1])
           marked(l)  == CASE l = k -> Xor(mem[s][k], Mod3NextXor(depth))
                           [] l \in {0, 1} /\ StripeMin(s) = 15 -> minimum(l)
                           [] OTHER -> mem[s][l]
<1>a. \A l \in Fields : mem'[s][l] = marked(l)
  BY <1>6
<1>b. \A l \in 2..63 : l \in Fields /\ l \notin {0, 1}
  BY DEF Fields
<1>c. 0 \in Fields /\ 1 \in Fields /\ k # 0 /\ k # 1
  BY <1>3 DEF Fields
<1>8. \A l \in 2..63 : l # k => mem'[s][l] = mem[s][l]
  <2>1. ASSUME NEW l, l \notin {0, 1}, l # k PROVE marked(l) = mem[s][l]
    BY <2>1
  <2> HIDE DEF marked
  <2>2. QED
    BY <1>a, <1>b, <2>1
<1>9. /\ mem'[s][0] = IF StripeMin(s) = 15 THEN Xor(mem[s][0], DepthXor(depth)[1]) ELSE mem[s][0]
      /\ mem'[s][1] = IF StripeMin(s) = 15 THEN Xor(mem[s][1], DepthXor(depth)[2]) ELSE mem[s][1]
  <2>1. /\ marked(0) = IF StripeMin(s) = 15 THEN minimum(0) ELSE mem[s][0]
        /\ marked(1) = IF StripeMin(s) = 15 THEN minimum(1) ELSE mem[s][1]
    <3> HIDE DEF minimum
    <3> QED
      BY <1>c
  <2>2. minimum(0) = Xor(mem[s][0], DepthXor(depth)[1]) /\ minimum(1) = Xor(mem[s][1], DepthXor(depth)[2])
    OBVIOUS
  <2> HIDE DEF marked, minimum
  <2>3. mem'[s][0] = marked(0) /\ mem'[s][1] = marked(1)
    BY <1>a, <1>c
  <2>4. QED
    BY <2>1, <2>2, <2>3
<1> HIDE DEF marked, minimum
<1>10. mem' \in [Stripes -> [Fields -> 0..3]]
  <2>1. mem'[s][0] \in 0..3 /\ mem'[s][1] \in 0..3
    <3>1. /\ Xor(3, DepthXor(depth)[1]) = (depth + 1) % 4 /\ Xor(3, DepthXor(depth)[2]) = (depth + 1) \div 4
          /\ (depth + 1) % 4 \in 0..3 /\ (depth + 1) \div 4 \in 0..3
      BY <1>1, PassConstants, Base
    <3>2. QED
      BY <1>0, <1>9, <3>1, AllOnes
  <2>2. \A l \in Fields : mem'[s][l] \in 0..3
    <3>1. \A l \in Fields : l = 0 \/ l = 1 \/ l \in 2..63
      BY DEF Fields
    <3>2. \A l \in 2..63 : mem[s][l] \in 0..3
      BY <1>0 DEF TypeOK, Fields
    <3>3. QED
      BY <1>7, <1>8, <2>1, <3>1, <3>2
  <2>3. mem'[s] \in [Fields -> 0..3]
    BY <1>6, <2>2
  <2>4. QED
    BY <1>0, <1>5, <2>3 DEF TypeOK
<1>11. Val(q)' = ValueOf(depth + 1)
  BY <1>2, <1>3, <1>7 DEF Val, Field
<1>12. ASSUME NEW c \in Config \ {q} PROVE Val(c)' = Val(c)
  <2>1. /\ Coord(c) \div 64 \in Stripes /\ Coord(c) % 64 \in 2..63
        /\ Val(c)' = mem'[Coord(c) \div 64][Coord(c) % 64] /\ Val(c) = mem[Coord(c) \div 64][Coord(c) % 64]
    BY CoordParts DEF Val, Field
  <2>2. ~(Coord(c) \div 64 = s /\ Coord(c) % 64 = k)
    <3>1. Coord(c) # Coord(q)
      BY <1>1, CoordInjective
    <3>2. Coord(c) = (Coord(c) \div 64) * 64 + (Coord(c) % 64)
      BY CoordParts
    <3>3. Coord(q) = s * 64 + k
      BY <1>1, <1>2, <1>3, CoordParts
    <3>4. QED
      BY <3>1, <3>2, <3>3
  <2>3. QED
    BY <1>6, <1>8, <2>1, <2>2
<1>13. \A r \in Stripes \ {Coord(q) \div 64} : mem'[r] = mem[r]
  BY <1>2, <1>6
<1>14. LET r == Coord(q) \div 64
       IN  /\ \A l \in 2..63 : l # Coord(q) % 64 => mem'[r][l] = mem[r][l]
           /\ mem'[r][0] = IF StripeMin(r) = 15 THEN Xor(mem[r][0], DepthXor(depth)[1]) ELSE mem[r][0]
           /\ mem'[r][1] = IF StripeMin(r) = 15 THEN Xor(mem[r][1], DepthXor(depth)[2]) ELSE mem[r][1]
  BY <1>2, <1>3, <1>8, <1>9, Zenon
<1>15. found' = found + 1
  BY <1>5
<1>16. Marked(q)
  BY <1>10, <1>11, <1>12, <1>13, <1>14, Zenon DEF Marked
<1>17. QED
  BY <1>15, <1>16

LEMMA StepBit ==
  ASSUME ScanInv, NextBit
  PROVE  ScanInv'
<1>0. /\ TypeOK /\ Loop /\ Codes /\ Gaps /\ Minima /\ Frontier /\ Covered /\ Counted
      /\ bits # {} /\ bits' = bits \ {FirstBit} /\ UNCHANGED <<depth, move, stripe>>
  BY DEF ScanInv, NextBit
<1>1. PICK c0 : c0 = Scanned(FirstBit)
  OBVIOUS
<1>2. PICK q : q = Image[move][c0]
  OBVIOUS
<1>3. /\ move \in Moves /\ stripe \in Stripes /\ FirstBit \in Fields /\ depth \in 0..(BASE + 1)
      /\ c0 \in Config /\ Dist[c0] <= depth /\ Coord(c0) = stripe * 64 + FirstBit
  BY <1>0, <1>1, ScannedEntry
<1>4. q \in Config /\ Dist[q] \in Nat /\ Dist[q] <= depth + 1 /\ move # -1 /\ BASE \in 1..12
  <2>1. Dist[c0] \in Nat
    BY <1>3, Graph
  <2>2. q \in Config /\ Dist[q] <= Dist[c0] + 1 /\ Dist[q] \in Nat
    BY <1>2, <1>3, Graph
  <2>3. QED
    BY <1>3, <2>1, <2>2, Base
<1>5. ASSUME Val(q) # 3 PROVE UNCHANGED <<mem, found>>
  <2>1. mem[Coord(q) \div 64][Coord(q) % 64] # 3
    BY <1>0, <1>4, <1>5, FieldType
  <2>2. QED
    BY <1>1, <1>2, <2>1 DEF NextBit
<1>6. ASSUME Val(q) = 3 PROVE Marked(q) /\ found' = found + 1
  BY <1>1, <1>2, <1>6, MarkEntry
<1>7. \A n : ValueOf(n)' = ValueOf(n)
  BY <1>0 DEF ValueOf, Zeroed
<1>8. /\ Val(q)' # 3
      /\ \A c \in Config : Val(c)' = Val(c) \/ c = q
  <2>1. CASE Val(q) # 3
    BY <1>5, <2>1, TableKept
  <2>2. CASE Val(q) = 3
    <3>1. ValueOf(depth + 1) \in 0..2
      BY <1>3, Base, ValueRange
    <3>2. QED
      BY <1>6, <2>2, <3>1 DEF Marked
  <2>3. QED
    BY <2>1, <2>2
<1>9. Loop' /\ Frontier'
  BY <1>0 DEF Loop, Frontier
<1>10. Covered'
  <2> SUFFICES ASSUME NEW c \in Config, NEW m \in Moves, Dist[c] = depth, Behind(c, m)'
               PROVE  Val(Image[m][c])' # 3
    BY <1>0 DEF Covered
  <2>1. Behind(c, m) \/ (m = move /\ c = c0)
    <3>1. CASE Behind(c, m)
      BY <3>1
    <3>2. CASE ~Behind(c, m)
      <4>1. m = move /\ Coord(c) \div 64 = stripe /\ Coord(c) % 64 \in bits /\ Coord(c) % 64 \notin bits'
        BY <1>0, <3>2 DEF Behind
      <4>2. Coord(c) % 64 = FirstBit
        BY <1>0, <4>1
      <4>3. Coord(c) = Coord(c0)
        BY <1>3, <4>1, <4>2, CoordParts
      <4>4. QED
        BY <1>3, <4>1, <4>3, CoordInjective
    <3>3. QED
      BY <3>1, <3>2
  <2>2. CASE Behind(c, m)
    <3>1. Image[m][c] \in Config /\ Val(Image[m][c]) # 3
      BY <1>0, <1>4, <2>2, Graph DEF Covered
    <3>2. QED
      BY <1>8, <3>1
  <2>3. CASE m = move /\ c = c0
    BY <1>2, <1>8, <2>3
  <2>4. QED
    BY <2>1, <2>2, <2>3
<1>11. CASE Val(q) # 3
  <2>1. UNCHANGED <<mem, found>>
    BY <1>5, <1>11
  <2>2. TypeOK'
    BY <1>0, <2>1 DEF TypeOK
  <2>3. Codes'
    BY <1>0, <1>7, <2>1, TableKept DEF Codes
  <2>4. QED
    BY <1>9, <1>10, <2>1, <2>2, <2>3, TableKept DEF ScanInv
<1>12. CASE Val(q) = 3
  <2>0. /\ \A c \in Config \ {q} : Val(c)' = Val(c)
        /\ Val(q)' = ValueOf(depth + 1)
        /\ \A s \in Stripes \ {Coord(q) \div 64} : mem'[s] = mem[s]
        /\ mem' \in [Stripes -> [Fields -> 0..3]]
        /\ found' = found + 1
    BY <1>6, <1>12 DEF Marked
  <2>1. TypeOK'
    BY <1>0, <2>0 DEF TypeOK
  <2>2. Dist[q] = depth + 1
    BY <1>0, <1>3, <1>4, <1>12, ReachedMeans
  <2>3. Codes'
    <3>1. ASSUME NEW c \in Config
          PROVE  IF Dist[c] <= depth THEN Val(c)' = ValueOf(Dist[c])
                 ELSE Val(c)' = 3 \/ (move # -1 /\ Dist[c] = depth + 1 /\ Val(c)' = ValueOf(depth + 1))
      <4>1. CASE c = q
        BY <1>3, <1>4, <2>0, <2>2, <4>1
      <4>2. CASE c # q
        BY <1>0, <2>0, <4>2 DEF Codes
      <4>3. QED
        BY <4>1, <4>2
    <3>2. QED
      BY <1>0, <1>7, <3>1 DEF Codes
  <2>4. PICK t \in Stripes : t = Coord(q) \div 64
    BY <1>4, CoordParts
  <2>5. Gaps'
    <3> SUFFICES ASSUME NEW s \in Stripes, NEW k \in 2..63, s * 64 + k \notin Used
                 PROVE  mem'[s][k] = 3
      BY DEF Gaps
    <3>1. mem[s][k] = 3
      BY <1>0 DEF Gaps
    <3>2. CASE s # t
      BY <2>0, <2>4, <3>1, <3>2
    <3>3. CASE s = t
      <4>1. Coord(q) = t * 64 + (Coord(q) % 64) /\ Coord(q) \in Used
        BY <1>4, <2>4, CoordParts DEF Used
      <4>2. k # Coord(q) % 64
        BY <3>3, <4>1
      <4>3. mem'[t][k] = mem[t][k]
        BY <1>6, <1>12, <2>4, <4>2 DEF Marked
      <4>4. QED
        BY <3>1, <3>3, <4>3
    <3>4. QED
      BY <3>2, <3>3
  <2>6. Minima'
    <3>1. \A s \in Stripes \ {t} : ReachedIn(s)' = ReachedIn(s)
      BY <1>4, <2>0, <2>4 DEF ReachedIn, InStripe
    <3>2. ReachedIn(t)' = ReachedIn(t) \union {q}
      <4>1. q \in InStripe(t) /\ InStripe(t) \subseteq Config
        BY <1>4, <2>4 DEF InStripe
      <4>2. \A c \in InStripe(t) : Val(c)' # 3 <=> Val(c) # 3 \/ c = q
        BY <1>8, <2>0, <4>1
      <4>3. ReachedIn(t)' = {c \in InStripe(t) : Val(c)' # 3}
        BY DEF ReachedIn, InStripe
      <4>4. QED
        BY <4>1, <4>2, <4>3 DEF ReachedIn
    <3>3. ASSUME NEW s \in Stripes \ {t}
          PROVE  /\ ReachedIn(s)' = {} => mem'[s][0] = 3 /\ mem'[s][1] = 3
                 /\ ReachedIn(s)' # {} => \E c \in ReachedIn(s)' : /\ StripeMin(s)' = Dist[c]
                                                                   /\ \A b \in ReachedIn(s)' : Dist[c] <= Dist[b]
      <4>1. mem'[s] = mem[s] /\ ReachedIn(s)' = ReachedIn(s) /\ StripeMin(s)' = StripeMin(s)
        BY <2>0, <2>4, <3>1 DEF StripeMin
      <4>2. QED
        BY <1>0, <4>1 DEF Minima
    <3>4. \E c \in ReachedIn(t) \union {q} :
            /\ StripeMin(t)' = Dist[c]
            /\ \A b \in ReachedIn(t) \union {q} : Dist[c] <= Dist[b]
      <4>0. /\ mem'[t][0] = IF StripeMin(t) = 15 THEN Xor(mem[t][0], DepthXor(depth)[1]) ELSE mem[t][0]
            /\ mem'[t][1] = IF StripeMin(t) = 15 THEN Xor(mem[t][1], DepthXor(depth)[2]) ELSE mem[t][1]
        BY <1>6, <1>12, <2>4 DEF Marked
      <4>1. \A b \in ReachedIn(t) : Dist[b] \in Nat /\ Dist[b] <= depth + 1 /\ Dist[b] <= BASE + 2
        BY <1>0, ReachedMeans, Graph DEF ReachedIn, InStripe
      <4>2. CASE ReachedIn(t) = {}
        <5>1. mem[t][0] = 3 /\ mem[t][1] = 3 /\ StripeMin(t) = 15
          BY <1>0, <4>2, AllOnes DEF Minima
        <5>2. mem'[t][0] = (depth + 1) % 4 /\ mem'[t][1] = (depth + 1) \div 4
          BY <1>3, <4>0, <5>1, PassConstants
        <5>3. StripeMin(t)' = depth + 1
          BY <1>3, <1>4, <5>2 DEF StripeMin
        <5>4. QED
          BY <1>4, <2>2, <4>2, <5>3
      <4>3. CASE ReachedIn(t) # {}
        <5>1. PICK c \in ReachedIn(t) : StripeMin(t) = Dist[c] /\ \A b \in ReachedIn(t) : Dist[c] <= Dist[b]
          BY <1>0, <4>3 DEF Minima
        <5>2. StripeMin(t) # 15
          BY <1>4, <4>1, <5>1
        <5>3. StripeMin(t)' = StripeMin(t)
          BY <4>0, <5>2 DEF StripeMin
        <5>4. QED
          BY <2>2, <4>1, <5>1, <5>3
      <4>4. QED
        BY <4>2, <4>3
    <3>5. ASSUME NEW s \in Stripes
          PROVE  /\ ReachedIn(s)' = {} => mem'[s][0] = 3 /\ mem'[s][1] = 3
                 /\ ReachedIn(s)' # {} => \E c \in ReachedIn(s)' : /\ StripeMin(s)' = Dist[c]
                                                                   /\ \A b \in ReachedIn(s)' : Dist[c] <= Dist[b]
      <4>1. CASE s # t
        BY <3>3, <4>1
      <4>2. CASE s = t
        BY <3>2, <3>4, <4>2
      <4>3. QED
        BY <4>1, <4>2
    <3>6. QED
      BY <3>5 DEF Minima
  <2>7. Counted'
    <3>1. Coord(q) \in Used /\ Coord(q) \notin Visited /\ Visited \subseteq Used
      BY <1>4, <1>12 DEF Used, Visited, Val
    <3>2. Visited' = Visited \union {Coord(q)}
      <4>1. ASSUME NEW x \in Used PROVE Field(x)' # 3 <=> Field(x) # 3 \/ x = Coord(q)
        <5>1. PICK c \in Config : x = Coord(c)
          BY DEF Used
        <5>2. Field(x)' = Val(c)' /\ Field(x) = Val(c)
          BY <5>1 DEF Val, Field
        <5>3. x = Coord(q) => c = q
          BY <1>4, <5>1, CoordInjective
        <5>4. QED
          BY <1>8, <1>12, <2>0, <5>1, <5>2, <5>3
      <4>2. Used' = Used
        BY DEF Used
      <4>3. QED
        BY <3>1, <4>1, <4>2 DEF Visited
    <3>3. IsFiniteSet(Visited) /\ found = Cardinality(Visited)
      BY <1>0 DEF Counted
    <3>4. IsFiniteSet(Visited \union {Coord(q)}) /\ Cardinality(Visited \union {Coord(q)}) = found + 1
      BY <3>1, <3>3, FS_AddElement
    <3>5. QED
      BY <2>0, <3>2, <3>4 DEF Counted
  <2>8. QED
    BY <1>9, <1>10, <2>1, <2>3, <2>5, <2>6, <2>7 DEF ScanInv
<1>13. QED
  BY <1>11, <1>12

LEMMA ScanInvariant == Spec => []ScanInv
<1>1. Init => ScanInv
  BY InitScan
<1>2. ScanInv /\ [Next]_vars => ScanInv'
  <2> SUFFICES ASSUME ScanInv, [Next]_vars PROVE ScanInv'
    OBVIOUS
  <2>1. CASE BeginPass
    BY <2>1, StepBegin
  <2>2. CASE NextStripe
    BY <2>2, StepStripe
  <2>3. CASE NextBit
    BY <2>3, StepBit
  <2>4. CASE NextMove
    BY <2>4, StepMove
  <2>5. CASE UNCHANGED vars
    <3>1. UNCHANGED <<depth, mem, found, move, stripe, bits>>
      BY <2>5 DEF vars
    <3>2. \A n : ValueOf(n)' = ValueOf(n)
      BY <3>1 DEF ValueOf, Zeroed
    <3>3. TypeOK' /\ Loop' /\ Frontier'
      BY <3>1 DEF ScanInv, TypeOK, Loop, Frontier
    <3>4. Codes'
      BY <3>1, <3>2, TableKept DEF ScanInv, Codes
    <3>5. Covered'
      <4>1. \A c, m : Behind(c, m)' <=> Behind(c, m)
        BY <3>1 DEF Behind
      <4>2. QED
        BY <3>1, <4>1, TableKept DEF ScanInv, Covered
    <3>6. QED
      BY <3>1, <3>3, <3>4, <3>5, TableKept DEF ScanInv
  <2>6. QED
    BY <2>1, <2>2, <2>3, <2>4, <2>5 DEF Next, Generated
<1>3. QED
  BY <1>1, <1>2, PTL DEF Spec

-----------------------------------------------------------------------------
(***************************************************************************)
(* The results.                                                            *)
(***************************************************************************)
(* Fields are two bits, whatever is written by exclusive or.               *)
THEOREM ScanTypeCorrect == Spec => []TypeOK
<1>1. ScanInv => TypeOK
  BY DEF ScanInv
<1>2. QED
  BY <1>1, ScanInvariant, PTL

(* decode inverts the coordinate for every entry that a scan finds: the    *)
(* gaps are never taken for entries.                                       *)
THEOREM ScanFindsConfigurations == Spec => []ScanFaithful
<1>1. ScanInv => ScanFaithful
  <2> SUFFICES ASSUME ScanInv, NEW k \in bits PROVE Coord(Scanned(k)) = stripe * 64 + k
    BY DEF ScanFaithful
  <2>1. stripe \in Stripes /\ k \in Fields
    BY DEF ScanInv, TypeOK, Loop
  <2>2. PICK c \in Config : Coord(c) = stripe * 64 + k
    BY DEF ScanInv, Frontier
  <2>3. Scanned(k) = c
    BY <2>1, <2>2, ScanConfig, StripesType DEF Scanned
  <2>4. QED
    BY <2>2, <2>3
<1>2. QED
  BY <1>1, ScanInvariant, PTL

(* The two bits of every configuration are the code of its distance, in    *)
(* every step of the generation.                                           *)
THEOREM ScanEncodesDistance == Spec => []EntriesEncodeDistance
<1>1. ScanInv => EntriesEncodeDistance
  <2> SUFFICES ASSUME ScanInv PROVE EntriesEncodeDistance
    OBVIOUS
  <2>0. /\ TypeOK /\ Loop /\ Codes /\ Gaps /\ Counted
        /\ depth \in 0..(BASE + 2) /\ BASE \in Nat
    BY Base DEF ScanInv, TypeOK
  <2> DEFINE beyond == Visited \ UNION {Layer[n] : n \in 0..depth}
  <2>1. \A n \in 0..(BASE + 2) : Layer[n] = {Coord(c) : c \in {b \in Config : Dist[b] = n}}
    BY DEF Layer
  <2>2. ASSUME NEW n \in 0..depth, NEW coord \in Layer[n] PROVE Field(coord) = ValueOf(n)
    <3>1. PICK c \in Config : Dist[c] = n /\ coord = Coord(c)
      BY <2>0, <2>1
    <3>2. Val(c) = ValueOf(n)
      BY <2>0, <3>1 DEF Codes
    <3>3. QED
      BY <3>1, <3>2 DEF Val
  <2>3. ASSUME NEW coord \in beyond
        PROVE  move # -1 /\ coord \in Layer[depth + 1] /\ Field(coord) = ValueOf(depth + 1)
    <3>1. PICK c \in Config : coord = Coord(c) /\ Val(c) # 3
      BY DEF Visited, Used, Val
    <3>2. Dist[c] \in Nat /\ Dist[c] <= depth + 1 /\ Dist[c] <= BASE + 2 /\ Val(c) = ValueOf(Dist[c])
          /\ (Dist[c] > depth => move # -1)
      BY <2>0, <3>1, ReachedMeans, Graph
    <3>3. ~(Dist[c] <= depth)
      <4>1. SUFFICES ASSUME Dist[c] <= depth PROVE FALSE
        OBVIOUS
      <4>2. Dist[c] \in 0..depth /\ Dist[c] \in 0..(BASE + 2)
        BY <2>0, <3>2, <4>1
      <4>3. coord \in Layer[Dist[c]]
        BY <2>1, <3>1, <4>2
      <4>4. QED
        BY <4>2, <4>3
    <3>4. Dist[c] = depth + 1 /\ depth + 1 \in 0..(BASE + 2)
      BY <2>0, <3>2, <3>3
    <3>5. coord \in Layer[depth + 1]
      BY <2>1, <3>1, <3>4
    <3>6. QED
      BY <2>0, <3>1, <3>2, <3>3, <3>4, <3>5 DEF Val
  <2>4. \A s \in Stripes, k \in 2..63 : s * 64 + k \notin Used => mem[s][k] = 3
    BY <2>0 DEF Gaps
  <2>5. found = Cardinality(Visited)
    BY <2>0 DEF Counted
  <2> HIDE DEF beyond
  <2>6. beyond # {} => move # -1
    BY <2>3
  <2>7. QED
    BY <2>2, <2>3, <2>4, <2>5, <2>6 DEF EntriesEncodeDistance, beyond
<1>2. QED
  BY <1>1, ScanInvariant, PTL

(* The value that the search fetches is the least distance of the stripe   *)
(* up to BASE, and the distance itself for the two depths beyond it.       *)
THEOREM FetchedValues == Spec => []ValuesEncodeDistance
<1>1. ScanInv => ValuesEncodeDistance
  <2> SUFFICES ASSUME ScanInv, depth = BASE + 2, NEW c \in Config
               PROVE  Fetch(Coord(c)) =
                        IF Dist[c] <= BASE
                        THEN [s \in Stripes |-> Least({Dist[b] : b \in {a \in Config : Coord(a) \div 64 = s}})][Coord(c) \div 64]
                        ELSE IF Dist[c] <= BASE + 2 THEN Dist[c] ELSE BASE + 3
    BY DEF ValuesEncodeDistance
  <2>0. /\ TypeOK /\ Loop /\ Codes /\ Minima /\ BASE \in Nat /\ Zeroed /\ move = -1
        /\ Dist[c] \in Nat
    BY Base, Graph DEF ScanInv, TypeOK, Loop, Zeroed
  <2>1. Fetch(Coord(c)) = IF Val(c) # 0 THEN BASE + Val(c) ELSE StripeMin(Coord(c) \div 64)
    BY DEF Fetch, Val
  <2>2. CASE Dist[c] <= BASE
    <3>1. Val(c) = 0
      BY <2>0, <2>2 DEF Codes, ValueOf
    <3>2. PICK s \in Stripes : s = Coord(c) \div 64
      BY CoordParts
    <3>3. c \in ReachedIn(s)
      BY <3>1, <3>2 DEF ReachedIn, InStripe
    <3>4. PICK a \in ReachedIn(s) : StripeMin(s) = Dist[a] /\ \A b \in ReachedIn(s) : Dist[a] <= Dist[b]
      BY <2>0, <3>3 DEF Minima
    <3> DEFINE S == {Dist[b] : b \in {b \in Config : Coord(b) \div 64 = s}}
    <3>5. \A b \in InStripe(s) : b \in Config /\ Dist[b] \in Nat /\ Dist[a] <= Dist[b]
      <4>1. Dist[a] \in Nat /\ Dist[c] \in Nat /\ Dist[a] <= Dist[c]
        BY <3>3, <3>4, Graph DEF ReachedIn, InStripe
      <4>2. ASSUME NEW b \in InStripe(s), b \notin ReachedIn(s) PROVE Dist[a] <= Dist[b]
        <5>1. b \in Config /\ Val(b) = 3 /\ Dist[b] \in Nat
          BY <4>2, Graph DEF ReachedIn, InStripe
        <5>2. ~(Dist[b] <= depth)
          BY <2>0, <5>1, ReachedMeans
        <5>3. QED
          BY <2>0, <2>2, <4>1, <5>1, <5>2
      <4>3. QED
        BY <3>4, <4>2, Graph DEF InStripe
    <3>6. Dist[a] \in S /\ \A n \in S : n \in Nat /\ Dist[a] <= n
      BY <3>5 DEF InStripe, ReachedIn
    <3> HIDE DEF S
    <3>7. Least(S) = Dist[a]
      <4>1. \E n \in S : \A k \in S : n <= k
        BY <3>6
      <4>2. Least(S) \in S /\ \A k \in S : Least(S) <= k
        BY <4>1 DEF Least
      <4>3. QED
        BY <3>6, <4>2
    <3>8. Fetch(Coord(c)) = Least(S)
      BY <2>1, <3>1, <3>2, <3>4, <3>7
    <3>9. QED
      BY <2>2, <3>2, <3>8 DEF S
  <2>3. CASE Dist[c] = BASE + 1 \/ Dist[c] = BASE + 2
    <3>1. Val(c) = Dist[c] - BASE
      BY <2>0, <2>3 DEF Codes, ValueOf
    <3>2. QED
      BY <2>0, <2>1, <2>3, <3>1
  <2>4. CASE Dist[c] > BASE + 2
    <3>1. Val(c) = 3
      BY <2>0, <2>4 DEF Codes
    <3>2. QED
      BY <2>0, <2>1, <2>4, <3>1
  <2>5. QED
    BY <2>0, <2>2, <2>3, <2>4
<1>2. QED
  BY <1>1, ScanInvariant, PTL

=============================================================================
