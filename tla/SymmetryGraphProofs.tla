------------------------ MODULE SymmetryGraphProofs ------------------------
(***************************************************************************)
(* Theorems about CornerIndex, for every group of symmetries of every      *)
(* number of orientations and combinations that its assumptions admit, and *)
(* then about SymmetryGraph: the reduction by symmetry is exact, for every *)
(* puzzle whose symmetries and turns are as assumed.                       *)
(***************************************************************************)
EXTENDS SymmetryGraph, FiniteSetTheorems, WellFoundedInduction, TLAPS

(* A set of natural numbers that is not empty has a least element.         *)
LEMMA LeastNatural ==
  ASSUME NEW S \in SUBSET Nat, S # {}
  PROVE  \E n \in S : \A m \in S : n <= m
<1>1. PICK n \in S : \A m \in S : ~(<<m, n>> \in OpToRel(<, Nat))
  BY NatLessThanWellFounded, WFMin
<1>2. \A m \in S : ~(m < n)
  BY <1>1, Zenon DEF OpToRel
<1>3. QED
  BY <1>2

-----------------------------------------------------------------------------
(***************************************************************************)
(* The symmetries.                                                         *)
(***************************************************************************)
LEMMA CornerPairs ==
  /\ \A x \in Corners : x[1] \in Orients /\ x[2] \in Combs /\ x = <<x[1], x[2]>>
  /\ \A o \in Orients, c \in Combs : <<o, c>> \in Corners
  /\ Orients \subseteq Nat /\ Combs \subseteq Nat /\ Syms \subseteq Nat
  /\ 0 \in Orients /\ 0 \in Combs /\ 0 \in Syms
BY SizeAssumption DEF Corners, Orients, Combs, Syms

LEMMA ConjType ==
  ASSUME NEW s \in Syms, NEW x \in Corners
  PROVE  /\ Conj(s, x) \in Corners
         /\ Conj(s, x)[1] = ConjOrient[s][x[1]] /\ Conj(s, x)[2] = ConjComb[s][x[2]]
<1>1. ConjOrient \in [Syms -> [Orients -> Orients]] /\ ConjComb \in [Syms -> [Combs -> Combs]]
  BY SymmetryAssumption
<1>2. x[1] \in Orients /\ x[2] \in Combs
  BY CornerPairs
<1>3. ConjOrient[s][x[1]] \in Orients /\ ConjComb[s][x[2]] \in Combs
  BY <1>1, <1>2
<1>4. QED
  BY <1>3, CornerPairs DEF Conj

(* The symmetries of a position form a group.                              *)
LEMMA ConjGroup ==
  /\ \A x \in Corners : Conj(0, x) = x
  /\ \A s, t \in Syms : \E u \in Syms : \A x \in Corners : Conj(t, Conj(s, x)) = Conj(u, x)
  /\ \A s \in Syms : \E t \in Syms : \A x \in Corners : Conj(t, Conj(s, x)) = x
<1>1. ASSUME NEW x \in Corners PROVE Conj(0, x) = x
  BY CornerPairs, SymmetryAssumption, ZenonT(30) DEF Conj
<1>2. ASSUME NEW s \in Syms, NEW t \in Syms
      PROVE  \E u \in Syms : \A x \in Corners : Conj(t, Conj(s, x)) = Conj(u, x)
  <2>1. PICK u \in Syms :
          /\ \A o \in Orients : ConjOrient[t][ConjOrient[s][o]] = ConjOrient[u][o]
          /\ \A c \in Combs : ConjComb[t][ConjComb[s][c]] = ConjComb[u][c]
    <3>1. \A v, w \in Syms : \E u \in Syms :
            /\ \A o \in Orients : ConjOrient[w][ConjOrient[v][o]] = ConjOrient[u][o]
            /\ \A c \in Combs : ConjComb[w][ConjComb[v][c]] = ConjComb[u][c]
      BY SymmetryAssumption
    <3> QED
      BY <3>1, Zenon
  <2>2. ASSUME NEW x \in Corners PROVE Conj(t, Conj(s, x)) = Conj(u, x)
    BY <2>1, CornerPairs DEF Conj
  <2>3. QED
    BY <2>2
<1>3. ASSUME NEW s \in Syms
      PROVE  \E t \in Syms : \A x \in Corners : Conj(t, Conj(s, x)) = x
  <2>1. PICK t \in Syms :
          /\ \A o \in Orients : ConjOrient[t][ConjOrient[s][o]] = o
          /\ \A c \in Combs : ConjComb[t][ConjComb[s][c]] = c
    BY SymmetryAssumption
  <2>2. ASSUME NEW x \in Corners PROVE Conj(t, Conj(s, x)) = x
    BY <2>1, CornerPairs DEF Conj
  <2>3. QED
    BY <2>2
<1>4. QED
  BY <1>1, <1>2, <1>3

(* Positions are totally ordered.                                          *)
LEMMA LessOrder ==
  ASSUME NEW x \in Corners, NEW y \in Corners
  PROVE  /\ ~Less(x, x)
         /\ x = y \/ Less(x, y) \/ Less(y, x)
         /\ ~(Less(x, y) /\ Less(y, x))
<1>1. x = <<x[1], x[2]>> /\ y = <<y[1], y[2]>>
      /\ x[1] \in Nat /\ x[2] \in Nat /\ y[1] \in Nat /\ y[2] \in Nat
  BY CornerPairs
<1>2. QED
  BY <1>1 DEF Less

(* One symmetry is the first of those that lead to the least position.     *)
LEMMA FirstSymmetry ==
  ASSUME NEW x \in Corners
  PROVE  \E s \in Syms : \A t \in Syms \ {s} :
           Less(Conj(s, x), Conj(t, x)) \/ (Conj(s, x) = Conj(t, x) /\ s < t)
<1> DEFINE A == {Conj(s, x)[1] : s \in Syms}
<1>1. PICK a \in A : \A m \in A : a <= m
  <2>1. A \in SUBSET Nat /\ A # {}
    BY ConjType, CornerPairs
  <2>2. QED
    BY <2>1, LeastNatural
<1> DEFINE B == {Conj(s, x)[2] : s \in {t \in Syms : Conj(t, x)[1] = a}}
<1>2. PICK b \in B : \A m \in B : b <= m
  <2>1. B \in SUBSET Nat /\ B # {}
    BY ConjType, CornerPairs
  <2>2. QED
    BY <2>1, LeastNatural
<1> DEFINE C == {s \in Syms : Conj(s, x)[1] = a /\ Conj(s, x)[2] = b}
<1>3. PICK s \in C : \A m \in C : s <= m
  <2>1. C \in SUBSET Nat /\ C # {}
    BY CornerPairs
  <2>2. QED
    BY <2>1, LeastNatural
<1>4. ASSUME NEW t \in Syms \ {s}
      PROVE  Less(Conj(s, x), Conj(t, x)) \/ (Conj(s, x) = Conj(t, x) /\ s < t)
  <2>1. /\ Conj(s, x) \in Corners /\ Conj(t, x) \in Corners
        /\ Conj(s, x)[1] = a /\ Conj(s, x)[2] = b
    BY ConjType
  <2>2. a <= Conj(t, x)[1]
    BY <1>1
  <2>3. Conj(t, x)[1] = a => b <= Conj(t, x)[2]
    BY <1>2
  <2>4. Conj(t, x)[1] = a /\ Conj(t, x)[2] = b => Conj(s, x) = Conj(t, x) /\ s < t
    <3>1. Conj(t, x)[1] = a /\ Conj(t, x)[2] = b => s <= t /\ s # t
      BY <1>3
    <3>2. QED
      BY <2>1, <3>1, CornerPairs
  <2>5. QED
    BY <2>1, <2>2, <2>3, <2>4, CornerPairs DEF Less
<1>5. QED
  BY <1>4

(* SymOf leads to the least position of the orbit, the representative.     *)
LEMMA RepProperty ==
  ASSUME NEW x \in Corners
  PROVE  /\ SymOf(x) \in Syms
         /\ \A t \in Syms \ {SymOf(x)} :
              Less(Rep(x), Conj(t, x)) \/ (Rep(x) = Conj(t, x) /\ SymOf(x) < t)
         /\ Rep(x) \in Corners
<1>1. /\ SymOf(x) \in Syms
      /\ \A t \in Syms \ {SymOf(x)} :
           Less(Conj(SymOf(x), x), Conj(t, x)) \/ (Conj(SymOf(x), x) = Conj(t, x) /\ SymOf(x) < t)
  BY FirstSymmetry DEF SymOf
<1>2. QED
  BY <1>1, ConjType DEF Rep

(* No position of the orbit is below the representative.                   *)
LEMMA RepLeast ==
  ASSUME NEW x \in Corners
  PROVE  /\ \A t \in Syms : Less(Rep(x), Conj(t, x)) \/ Rep(x) = Conj(t, x)
         /\ Less(Rep(x), x) \/ Rep(x) = x
<1>1. \A t \in Syms : Less(Rep(x), Conj(t, x)) \/ Rep(x) = Conj(t, x)
  BY RepProperty DEF Rep
<1>2. Conj(0, x) = x /\ 0 \in Syms
  BY ConjGroup, CornerPairs
<1>3. QED
  BY <1>1, <1>2

(* Symmetric positions have the same symmetric positions, hence the same   *)
(* representative.                                                         *)
LEMMA RepOfSymmetric ==
  ASSUME NEW x \in Corners, NEW s \in Syms
  PROVE  Rep(Conj(s, x)) = Rep(x)
<1> DEFINE y == Conj(s, x)
<1>1. y \in Corners /\ Rep(x) \in Corners /\ Rep(y) \in Corners
  BY ConjType, RepProperty
<1>2. PICK t \in Syms : Conj(t, y) = x
  BY ConjGroup
<1>3. \E u \in Syms : Rep(y) = Conj(u, x)
  <2>1. Rep(y) = Conj(SymOf(y), y) /\ SymOf(y) \in Syms
    BY <1>1, RepProperty DEF Rep
  <2>2. QED
    BY <2>1, ConjGroup
<1>4. \E u \in Syms : Rep(x) = Conj(u, y)
  <2>1. Rep(x) = Conj(SymOf(x), x) /\ SymOf(x) \in Syms
    BY RepProperty DEF Rep
  <2>2. PICK u \in Syms : Conj(SymOf(x), Conj(t, y)) = Conj(u, y)
    BY <1>1, <2>1, ConjGroup
  <2>3. QED
    BY <1>2, <2>1, <2>2
<1>5. Less(Rep(x), Rep(y)) \/ Rep(x) = Rep(y)
  BY <1>3, RepLeast
<1>6. Less(Rep(y), Rep(x)) \/ Rep(x) = Rep(y)
  BY <1>1, <1>4, RepLeast
<1>7. QED
  BY <1>1, <1>5, <1>6, LessOrder

LEMMA RepOfRep ==
  ASSUME NEW x \in Corners
  PROVE  Rep(Rep(x)) = Rep(x)
BY RepProperty, RepOfSymmetric DEF Rep

(* The identity leads from representatives, and from them only.            *)
LEMMA IdentityAtRep ==
  ASSUME NEW x \in Corners
  PROVE  SymOf(x) = 0 <=> Rep(x) = x
<1>1. Conj(0, x) = x /\ 0 \in Syms
  BY ConjGroup, CornerPairs
<1>2. SymOf(x) = 0 => Rep(x) = x
  BY <1>1 DEF Rep
<1>3. ASSUME Rep(x) = x, SymOf(x) # 0 PROVE FALSE
  <2>1. Less(x, x) \/ SymOf(x) < 0
    BY <1>1, <1>3, RepProperty
  <2>2. QED
    BY <2>1, RepProperty, LessOrder, CornerPairs
<1>4. QED
  BY <1>2, <1>3

(* The representative of an orientation does not depend on the combination *)
(* that it is found with.                                                  *)
LEMMA OrientOfRep ==
  ASSUME NEW o \in Orients, NEW c \in Combs, NEW d \in Combs
  PROVE  Rep(<<o, c>>)[1] = Rep(<<o, d>>)[1]
<1>1. ASSUME NEW a \in Combs, NEW b \in Combs
      PROVE  Rep(<<o, a>>)[1] <= Rep(<<o, b>>)[1]
  <2> DEFINE s == SymOf(<<o, b>>)
  <2>1. /\ s \in Syms /\ <<o, a>> \in Corners /\ <<o, b>> \in Corners
        /\ Rep(<<o, b>>) = Conj(s, <<o, b>>)
    BY CornerPairs, RepProperty DEF Rep
  <2>2. Conj(s, <<o, a>>)[1] = ConjOrient[s][o] /\ Conj(s, <<o, b>>)[1] = ConjOrient[s][o]
    BY <2>1, ConjType
  <2>3. Less(Rep(<<o, a>>), Conj(s, <<o, a>>)) \/ Rep(<<o, a>>) = Conj(s, <<o, a>>)
    BY <2>1, RepLeast
  <2>4. /\ Rep(<<o, a>>)[1] \in Nat /\ Conj(s, <<o, a>>)[1] \in Nat
    BY <2>1, RepProperty, ConjType, CornerPairs
  <2>5. QED
    BY <2>1, <2>2, <2>3, <2>4 DEF Less
<1>2. Rep(<<o, c>>)[1] \in Nat /\ Rep(<<o, d>>)[1] \in Nat
  BY CornerPairs, RepProperty
<1>3. QED
  BY <1>1, <1>2

(* Two positions with one representative are symmetric.                    *)
LEMMA OrbitByRep ==
  ASSUME NEW x \in Corners, NEW y \in Corners
  PROVE  y \in Orbit[x] <=> Rep(x) = Rep(y)
<1>1. Orbit[x] = {Conj(s, x) : s \in Syms}
  BY DEF Orbit
<1>2. y \in Orbit[x] => Rep(x) = Rep(y)
  BY <1>1, RepOfSymmetric
<1>3. ASSUME Rep(x) = Rep(y) PROVE y \in Orbit[x]
  <2>1. Rep(y) = Conj(SymOf(y), y) /\ SymOf(y) \in Syms /\ Rep(x) = Conj(SymOf(x), x) /\ SymOf(x) \in Syms
    BY RepProperty DEF Rep
  <2>2. PICK t \in Syms : Conj(t, Conj(SymOf(y), y)) = y
    BY <2>1, ConjGroup
  <2>3. PICK u \in Syms : Conj(t, Conj(SymOf(x), x)) = Conj(u, x)
    BY <2>1, ConjGroup
  <2>4. QED
    BY <1>1, <1>3, <2>1, <2>2, <2>3
<1>4. QED
  BY <1>2, <1>3

-----------------------------------------------------------------------------
(***************************************************************************)
(* The shape of the index while it is built.                               *)
(***************************************************************************)
Entry == [offset : 0..255, sym : Syms]

Shape ==
  /\ phase \in {"orient", "comb", "built"}
  /\ corient \in 0..N_CORIENT
  /\ c4comb \in 0..N_C4COMB
  /\ nextSymcoord \in Nat
  /\ offset \in 0..N_C4COMB
  /\ base \in [Orients -> Nat]
  /\ osTmp \in [Combs -> Entry]
  /\ osUnique \in Seq([Combs -> Entry])
  /\ os \in [Orients -> 0..Len(osUnique)]

(* Every orientation that is done has an array, and no more rows are given *)
(* in an orientation than combinations are gone through.                   *)
Loops ==
  /\ corient < N_CORIENT <=> phase # "built"
  /\ \A o \in Orients : o < corient => os[o] # 0
  /\ phase = "comb" => offset <= c4comb

(* The row and the symmetry of a position that has them so far; the rows   *)
(* that are given.                                                         *)
RowAt(x) == IF x[1] < corient THEN SymCoord(x) ELSE base[corient] + osTmp[x[2]].offset
SymAt(x) == IF x[1] < corient THEN GetSym(x) ELSE osTmp[x[2]].sym
Total    == nextSymcoord + (IF phase = "comb" THEN offset ELSE 0)

(* The base of an orientation whose offsets are taken over is that of the  *)
(* orientation they are taken from.                                        *)
BaseOf ==
  phase = "comb" =>
    IF OrientRep = corient THEN base[corient] = nextSymcoord
    ELSE base[corient] = base[OrientRep] /\ offset = 0

(* A position has the row of its representative; the rows of the           *)
(* representatives are consecutive and follow their order.                 *)
SymStored == \A x \in Indexed : SymAt(x) = SymOf(x)
RowOfRep  == \A x \in Indexed : RowAt(x) = RowAt(Rep(x))
RowsUsed  ==
  /\ \A x \in Indexed : RowAt(x) \in 0..(Total - 1)
  /\ \A n \in 0..(Total - 1) : \E x \in Indexed : Rep(x) = x /\ RowAt(x) = n
RowsInOrder ==
  \A x, y \in Indexed : Rep(x) = x /\ Rep(y) = y /\ Less(x, y) => RowAt(x) < RowAt(y)

IndexInv == Shape /\ Loops /\ BaseOf /\ SymStored /\ RowOfRep /\ RowsUsed /\ RowsInOrder

LEMMA Sizes ==
  /\ N_CORIENT \in Nat \ {0} /\ N_C4COMB \in 1..256
  /\ Orients = 0..(N_CORIENT - 1) /\ Combs = 0..(N_C4COMB - 1)
BY SizeAssumption DEF Orients, Combs

LEMMA InitIndex == Init => IndexInv
<1> SUFFICES ASSUME Init PROVE IndexInv
  OBVIOUS
<1>1. Indexed = {}
  BY CornerPairs DEF Init, Indexed
<1>2. osTmp \in [Combs -> Entry]
  <2>1. PICK g \in Garbage : osTmp = [c \in Combs |-> [offset |-> g, sym |-> g % N_SYM]]
    BY DEF Init
  <2>2. g \in 0..255 /\ N_SYM \in Nat \ {0}
    BY SizeAssumption
  <2>3. g % N_SYM \in 0..(N_SYM - 1)
    BY <2>2
  <2>4. QED
    BY <2>1, <2>2, <2>3 DEF Entry, Syms
<1>3. Shape
  <2>1. os \in [Orients -> 0..0] /\ base \in [Orients -> {0}] /\ Len(osUnique) = 0
    BY DEF Init
  <2>2. osUnique \in Seq([Combs -> Entry])
    BY DEF Init
  <2>3. QED
    BY <1>2, <2>1, <2>2, Sizes DEF Init, Shape
<1>4. Loops /\ BaseOf
  BY Sizes DEF Init, Loops, BaseOf
<1>5. SymStored /\ RowOfRep /\ RowsUsed /\ RowsInOrder
  BY <1>1 DEF SymStored, RowOfRep, RowsUsed, RowsInOrder, Init, Total
<1>6. QED
  BY <1>3, <1>4, <1>5 DEF IndexInv

(* At the end of an orientation its array is among the different ones, and *)
(* those that are there stay.                                              *)
LEMMA ArrayKept ==
  ASSUME Shape, Loops, CloseOrient
  PROVE  /\ osUnique' \in Seq([Combs -> Entry])
         /\ Len(osUnique) <= Len(osUnique')
         /\ \A k \in 1..Len(osUnique) : osUnique'[k] = osUnique[k]
         /\ corient \in Orients
         /\ \E k \in 1..Len(osUnique') : /\ os' = [os EXCEPT ![corient] = k]
                                         /\ SameArray(osUnique'[k], osTmp)
<1> DEFINE known == {k \in DOMAIN osUnique : SameArray(osUnique[k], osTmp)}
<1>0. /\ osUnique \in Seq([Combs -> Entry]) /\ osTmp \in [Combs -> Entry] /\ Len(osUnique) \in Nat
      /\ DOMAIN osUnique = 1..Len(osUnique)
  <2>1. osUnique \in Seq([Combs -> Entry]) /\ osTmp \in [Combs -> Entry]
    BY DEF Shape
  <2>2. QED
    BY <2>1
<1>1. corient \in Orients
  BY Sizes DEF CloseOrient, Shape, Loops
<1>2. CASE known = {}
  <2>1. osUnique' = Append(osUnique, osTmp) /\ os' = [os EXCEPT ![corient] = Len(osUnique) + 1]
    BY <1>2 DEF CloseOrient
  <2>2. /\ osUnique' \in Seq([Combs -> Entry]) /\ Len(osUnique') = Len(osUnique) + 1
        /\ osUnique'[Len(osUnique) + 1] = osTmp
        /\ \A k \in 1..Len(osUnique) : osUnique'[k] = osUnique[k]
    BY <1>0, <2>1
  <2>3. SameArray(osUnique'[Len(osUnique) + 1], osTmp)
    BY <2>2 DEF SameArray
  <2>4. \E k \in 1..Len(osUnique') : /\ os' = [os EXCEPT ![corient] = k]
                                    /\ SameArray(osUnique'[k], osTmp)
    <3>1. Len(osUnique) + 1 \in 1..Len(osUnique')
      BY <1>0, <2>2
    <3>2. QED
      BY <2>1, <2>3, <3>1, Zenon
  <2>5. Len(osUnique) <= Len(osUnique')
    BY <1>0, <2>2
  <2>6. QED
    BY <1>1, <2>2, <2>4, <2>5, Zenon
<1>3. CASE known # {}
  <2>1. known \in SUBSET Nat
    BY <1>0
  <2>2. \E k \in known : \A l \in known : k <= l
    BY <1>3, <2>1, LeastNatural
  <2>3. /\ osUnique' = osUnique
        /\ os' = [os EXCEPT ![corient] = CHOOSE k \in known : \A l \in known : k <= l]
    BY <1>3 DEF CloseOrient
  <2>4. PICK k \in known : os' = [os EXCEPT ![corient] = k]
    BY <2>2, <2>3
  <2>5. k \in 1..Len(osUnique') /\ SameArray(osUnique'[k], osTmp)
    BY <1>0, <2>3, <2>4
  <2>6. Len(osUnique) <= Len(osUnique')
    BY <1>0, <2>3
  <2>7. QED
    BY <1>0, <1>1, <2>3, <2>4, <2>5, <2>6, Zenon
<1>4. QED
  BY <1>2, <1>3

LEMMA NextShape == Shape /\ Loops /\ BaseOf /\ [Build]_vars => (Shape /\ Loops /\ BaseOf)'
<1> SUFFICES ASSUME Shape, Loops, BaseOf, [Build]_vars PROVE (Shape /\ Loops /\ BaseOf)'
  OBVIOUS
<1>1. CASE NewOrient
  <2>1. corient \in Orients
    BY <1>1, Sizes DEF NewOrient, Shape, Loops
  <2>2. OrientRep \in Orients
    BY <2>1, CornerPairs, RepProperty DEF OrientRep
  <2>3. base' \in [Orients -> Nat]
    BY <1>1, <2>2 DEF NewOrient, Shape
  <2>4. Shape'
    <3>1. /\ phase' = "comb" /\ c4comb' = 0 /\ offset' = 0
          /\ UNCHANGED <<corient, nextSymcoord, osTmp, osUnique, os>>
      BY <1>1 DEF NewOrient
    <3>2. c4comb' \in 0..N_C4COMB /\ offset' \in 0..N_C4COMB
      BY <3>1, Sizes
    <3>3. QED
      BY <2>3, <3>1, <3>2 DEF Shape
  <2>5. Loops'
    BY <1>1 DEF NewOrient, Loops
  <2>6. BaseOf'
    <3>1. OrientRep' = OrientRep
      BY <1>1 DEF NewOrient, OrientRep
    <3>2. QED
      BY <1>1, <2>1, <2>2, <3>1 DEF NewOrient, BaseOf, Shape
  <2>7. QED
    BY <2>4, <2>5, <2>6
<1>2. CASE FillOffset
  <2>1. corient \in Orients /\ c4comb \in Combs /\ <<corient, c4comb>> \in Corners
    <3>1. corient \in Orients /\ c4comb \in Combs
      BY <1>2, Sizes DEF FillOffset, Shape, Loops
    <3>2. QED
      BY <3>1, CornerPairs
  <2>2. Rep(<<corient, c4comb>>)[2] \in Combs /\ OrientRep \in Orients
    BY <2>1, CornerPairs, RepProperty DEF OrientRep
  <2>3. OrientRep = Rep(<<corient, c4comb>>)[1]
    BY <2>1, CornerPairs, OrientOfRep DEF OrientRep
  <2>4. OffsetFor(c4comb) \in 0..255
    <3>1. CASE OrientRep # corient
      <4>1. OrientRep < corient
        <5>1. Less(Rep(<<corient, c4comb>>), <<corient, c4comb>>) \/ Rep(<<corient, c4comb>>) = <<corient, c4comb>>
          BY <2>1, RepLeast
        <5>2. QED
          BY <2>1, <2>2, <2>3, <3>1, <5>1, CornerPairs DEF Less
      <4>2. os[OrientRep] \in 1..Len(osUnique)
        BY <2>2, <4>1 DEF Shape, Loops
      <4>3. osUnique[os[OrientRep]] \in [Combs -> Entry]
        BY <4>2 DEF Shape
      <4>4. QED
        BY <2>2, <3>1, <4>3 DEF OffsetFor, Entry
    <3>2. CASE OrientRep = corient /\ c4comb # Rep(<<corient, c4comb>>)[2]
      BY <2>2, <3>2 DEF OffsetFor, Shape, Entry
    <3>3. CASE OrientRep = corient /\ c4comb = Rep(<<corient, c4comb>>)[2]
      <4>1. offset \in Nat /\ offset <= c4comb /\ c4comb < N_C4COMB /\ c4comb \in Nat
        BY <1>2, Sizes DEF FillOffset, Shape, Loops
      <4>2. offset \in 0..255
        BY <4>1, Sizes
      <4>3. QED
        BY <3>3, <4>2 DEF OffsetFor
    <3>4. QED
      BY <3>1, <3>2, <3>3
  <2>5. SymOf(<<corient, c4comb>>) \in Syms
    BY <2>1, RepProperty
  <2>6. osTmp' \in [Combs -> Entry]
    BY <1>2, <2>1, <2>4, <2>5 DEF FillOffset, Shape, Entry
  <2>7. /\ offset' \in 0..N_C4COMB /\ c4comb' \in 0..N_C4COMB /\ offset' <= c4comb'
        /\ OrientRep # corient => offset' = offset
    BY <1>2, <2>3, Sizes DEF FillOffset, Shape, Loops
  <2>8. Shape'
    BY <1>2, <2>6, <2>7 DEF FillOffset, Shape
  <2>9. Loops'
    BY <1>2, <2>7 DEF FillOffset, Loops
  <2>10. BaseOf'
    <3>1. OrientRep' = OrientRep
      BY <1>2 DEF FillOffset, OrientRep
    <3>2. QED
      BY <1>2, <2>7, <3>1 DEF FillOffset, BaseOf
  <2>11. QED
    BY <2>8, <2>9, <2>10
<1>3. CASE CloseOrient
  <2>1. PICK k \in 1..Len(osUnique') : os' = [os EXCEPT ![corient] = k]
    BY <1>3, ArrayKept
  <2>2. /\ osUnique' \in Seq([Combs -> Entry]) /\ Len(osUnique) <= Len(osUnique') /\ corient \in Orients
        /\ Len(osUnique) \in Nat /\ Len(osUnique') \in Nat
    <3>1. osUnique' \in Seq([Combs -> Entry]) /\ Len(osUnique) <= Len(osUnique') /\ corient \in Orients
      BY <1>3, ArrayKept
    <3>2. osUnique \in Seq([Combs -> Entry])
      BY DEF Shape
    <3>3. QED
      BY <3>1, <3>2
  <2>3. os' \in [Orients -> 0..Len(osUnique')]
    BY <2>1, <2>2 DEF Shape
  <2>4. /\ corient' = corient + 1 /\ corient' \in 0..N_CORIENT
        /\ phase' = IF corient + 1 = N_CORIENT THEN "built" ELSE "orient"
        /\ nextSymcoord' = nextSymcoord + offset
        /\ UNCHANGED <<c4comb, offset, base, osTmp>>
    BY <1>3, <2>2, Sizes DEF CloseOrient
  <2>5. Shape'
    BY <2>2, <2>3, <2>4 DEF Shape
  <2>6. Loops'
    <3>1. corient' < N_CORIENT <=> phase' # "built"
      BY <2>2, <2>4, Sizes
    <3>2. ASSUME NEW o \in Orients, o < corient' PROVE os'[o] # 0
      BY <2>1, <2>2, <2>4, <3>2, Sizes DEF Loops, Shape
    <3>3. QED
      BY <2>4, <3>1, <3>2 DEF Loops
  <2>7. BaseOf'
    BY <2>4 DEF BaseOf
  <2>8. QED
    BY <2>5, <2>6, <2>7
<1>4. CASE UNCHANGED vars
  BY <1>4 DEF vars, Shape, Loops, BaseOf, OrientRep
<1>5. QED
  BY <1>1, <1>2, <1>3, <1>4 DEF Build

-----------------------------------------------------------------------------
(***************************************************************************)
(* The rows.  A turn of the inner loop gives the next position a row; the  *)
(* other steps leave the rows as they are.                                 *)
(***************************************************************************)
LEMMA RepIndexed ==
  ASSUME Shape, NEW x \in Indexed
  PROVE  x \in Corners /\ Rep(x) \in Indexed
<1>1. x \in Corners /\ (x[1] < corient \/ (phase = "comb" /\ x[1] = corient /\ x[2] < c4comb))
  BY DEF Indexed
<1>2. Rep(x) \in Corners /\ (Less(Rep(x), x) \/ Rep(x) = x)
  BY <1>1, RepProperty, RepLeast
<1>3. /\ x[1] \in Nat /\ x[2] \in Nat /\ Rep(x)[1] \in Nat /\ Rep(x)[2] \in Nat
      /\ corient \in Nat /\ c4comb \in Nat
  BY <1>1, <1>2, CornerPairs, Sizes DEF Shape
<1>4. Rep(x) \in Indexed
  BY <1>1, <1>2, <1>3 DEF Less, Indexed
<1>5. QED
  BY <1>1, <1>4

(* The next position is greater than all that have rows.                   *)
LEMMA NextPosition ==
  ASSUME Shape, Loops, FillOffset
  PROVE  /\ <<corient, c4comb>> \in Corners \ Indexed
         /\ \A y \in Corners : y \in Indexed <=> Less(y, <<corient, c4comb>>)
         /\ Indexed' = Indexed \union {<<corient, c4comb>>}
<1> DEFINE x == <<corient, c4comb>>
<1>1. corient \in Orients /\ c4comb \in Combs /\ phase = "comb"
  BY Sizes DEF FillOffset, Shape, Loops
<1>2. x \in Corners
  BY <1>1, CornerPairs
<1>3. ASSUME NEW y \in Corners PROVE y \in Indexed <=> Less(y, x)
  BY <1>1 DEF Indexed, Less
<1>4. x \notin Indexed
  BY <1>2, <1>3, LessOrder
<1>5. corient' = corient /\ phase' = phase /\ c4comb' = c4comb + 1
  BY DEF FillOffset
<1>6. Indexed' = {y \in Corners : y[1] < corient \/ (y[1] = corient /\ y[2] < c4comb + 1)}
  BY <1>1, <1>5 DEF Indexed
<1>7. ASSUME NEW y \in Corners
      PROVE  y[1] = corient /\ y[2] < c4comb + 1 <=> (y[1] = corient /\ y[2] < c4comb) \/ y = x
  <2>1. y = <<y[1], y[2]>> /\ y[2] \in Nat /\ c4comb \in Nat
    BY <1>1, CornerPairs
  <2>2. QED
    BY <2>1
<1>8. QED
  BY <1>1, <1>2, <1>3, <1>4, <1>6, <1>7 DEF Indexed

(* What a turn of the inner loop does to rows and symmetries.              *)
LEMMA FillRow ==
  ASSUME IndexInv, FillOffset, NEW x, x = <<corient, c4comb>>
  PROVE  /\ \A y \in Indexed : RowAt(y)' = RowAt(y) /\ SymAt(y)' = SymAt(y)
         /\ SymAt(x)' = SymOf(x)
         /\ Rep(x) = x => RowAt(x)' = Total /\ Total' = Total + 1
         /\ Rep(x) # x => Rep(x) \in Indexed /\ RowAt(x)' = RowAt(Rep(x)) /\ Total' = Total
<1>0. Shape /\ Loops /\ BaseOf
  BY DEF IndexInv
<1>1. /\ corient \in Orients /\ c4comb \in Combs /\ phase = "comb" /\ phase' = "comb"
      /\ UNCHANGED <<corient, nextSymcoord, base, osUnique, os>>
      /\ osTmp \in [Combs -> Entry]
      /\ osTmp' = [osTmp EXCEPT ![c4comb] = [offset |-> OffsetFor(c4comb), sym |-> SymOf(x)]]
      /\ offset' = IF Rep(x) = x THEN offset + 1 ELSE offset
  BY <1>0, Sizes DEF FillOffset, Shape, Loops
<1>2. x \in Corners /\ x[1] = corient /\ x[2] = c4comb
  BY <1>1, CornerPairs
<1>3. ASSUME NEW y \in Indexed
      PROVE  RowAt(y)' = RowAt(y) /\ SymAt(y)' = SymAt(y)
  <2>1. /\ y[1] \in Orients /\ y[2] \in Combs
        /\ y[1] < corient \/ (y[1] = corient /\ y[2] < c4comb)
    BY CornerPairs DEF Indexed
  <2>2. CASE y[1] < corient
    BY <1>1, <2>2 DEF RowAt, SymAt, SymCoord, GetSym
  <2>3. CASE ~(y[1] < corient)
    <3>1. y[2] # c4comb
      BY <1>1, <2>1, <2>3, CornerPairs
    <3>2. osTmp'[y[2]] = osTmp[y[2]]
      BY <1>1, <2>1, <3>1
    <3>3. QED
      BY <1>1, <2>1, <2>3, <3>2 DEF RowAt, SymAt
  <2>4. QED
    BY <2>2, <2>3
<1>4. osTmp'[c4comb] = [offset |-> OffsetFor(c4comb), sym |-> SymOf(x)]
  BY <1>1
<1>5. ~(corient < corient)
  BY <1>1, CornerPairs
<1>6. SymAt(x)' = SymOf(x) /\ RowAt(x)' = base[corient] + OffsetFor(c4comb)
  BY <1>1, <1>2, <1>4, <1>5 DEF SymAt, RowAt
<1>7. OrientRep = Rep(x)[1] /\ Rep(x) \in Corners /\ Rep(x) = <<Rep(x)[1], Rep(x)[2]>>
  <2>1. Rep(<<corient, 0>>)[1] = Rep(x)[1]
    BY <1>1, CornerPairs, OrientOfRep
  <2>2. QED
    BY <1>2, <2>1, RepProperty, CornerPairs DEF OrientRep
<1>8. CASE Rep(x) = x
  <2>1. OffsetFor(c4comb) = offset
    BY <1>2, <1>7, <1>8 DEF OffsetFor
  <2>2. base[corient] = nextSymcoord
    BY <1>0, <1>1, <1>2, <1>7, <1>8 DEF BaseOf
  <2>3. QED
    BY <1>0, <1>1, <1>3, <1>6, <1>8, <2>1, <2>2, Sizes DEF Total, Shape
<1>9. CASE Rep(x) # x
  <2>1. Less(Rep(x), x)
    BY <1>2, <1>9, RepLeast
  <2>2. Rep(x) \in Indexed
    BY <1>0, <1>7, <2>1, NextPosition
  <2>3. Total' = Total
    BY <1>1, <1>9 DEF Total
  <2>4. RowAt(Rep(x)) = base[corient] + OffsetFor(c4comb)
    <3>1. CASE OrientRep # corient
      <4>1. Rep(x)[1] < corient
        BY <1>2, <1>7, <2>1, <3>1 DEF Less
      <4>2. base[corient] = base[OrientRep]
        BY <1>0, <1>1, <3>1 DEF BaseOf
      <4>3. QED
        BY <1>7, <3>1, <4>1, <4>2 DEF RowAt, SymCoord, OffsetFor
    <3>2. CASE OrientRep = corient
      <4>1. Rep(x)[2] # c4comb
        BY <1>2, <1>7, <1>9, <3>2
      <4>2. QED
        BY <1>5, <1>7, <3>2, <4>1 DEF RowAt, OffsetFor
    <3>3. QED
      BY <3>1, <3>2
  <2>5. QED
    BY <1>3, <1>6, <1>9, <2>2, <2>3, <2>4
<1>10. QED
  BY <1>8, <1>9

(* The other steps change neither rows nor symmetries: a base is set       *)
(* before its orientation has rows, and an array is the same whether it is *)
(* the one being filled or one of the different ones.                      *)
LEMMA RowsKept ==
  ASSUME IndexInv, NewOrient \/ CloseOrient \/ UNCHANGED vars
  PROVE  /\ Indexed' = Indexed /\ Total' = Total
         /\ \A y \in Indexed : RowAt(y)' = RowAt(y) /\ SymAt(y)' = SymAt(y)
<1>0. Shape /\ Loops
  BY DEF IndexInv
<1>1. CASE NewOrient
  <2>1. /\ phase = "orient" /\ phase' = "comb" /\ c4comb' = 0 /\ offset' = 0
        /\ UNCHANGED <<corient, nextSymcoord, osTmp, osUnique, os>>
        /\ \A o \in Orients \ {corient} : base'[o] = base[o]
    BY <1>0, <1>1 DEF NewOrient, Shape
  <2>2. Indexed' = Indexed
    BY <2>1, CornerPairs DEF Indexed
  <2>3. Total' = Total
    BY <1>0, <2>1 DEF Total, Shape
  <2>4. ASSUME NEW y \in Indexed PROVE RowAt(y)' = RowAt(y) /\ SymAt(y)' = SymAt(y)
    <3>1. y[1] < corient /\ y[1] \in Orients /\ y[1] # corient
      BY <1>0, <2>1, CornerPairs DEF Indexed, Shape
    <3>2. base'[y[1]] = base[y[1]]
      BY <2>1, <3>1
    <3>3. QED
      BY <2>1, <3>1, <3>2 DEF RowAt, SymAt, SymCoord, GetSym
  <2>5. QED
    BY <2>2, <2>3, <2>4
<1>2. CASE CloseOrient
  <2>1. PICK k \in 1..Len(osUnique') : /\ os' = [os EXCEPT ![corient] = k]
                                       /\ SameArray(osUnique'[k], osTmp)
    BY <1>0, <1>2, ArrayKept
  <2>2. /\ \A i \in 1..Len(osUnique) : osUnique'[i] = osUnique[i]
        /\ corient \in Orients /\ phase = "comb" /\ c4comb = N_C4COMB
        /\ corient' = corient + 1 /\ phase' \in {"orient", "built"}
        /\ nextSymcoord' = nextSymcoord + offset /\ UNCHANGED <<base, osTmp>>
    BY <1>0, <1>2, ArrayKept DEF CloseOrient
  <2>3. ASSUME NEW y \in Corners PROVE y \in Indexed' <=> y \in Indexed
    <3>1. y[1] \in Nat /\ y[2] \in 0..(N_C4COMB - 1) /\ corient \in Nat
      BY <2>2, CornerPairs, Sizes
    <3>2. y \in Indexed' <=> y[1] < corient + 1
      BY <2>2 DEF Indexed
    <3>3. y \in Indexed <=> y[1] < corient \/ y[1] = corient
      BY <2>2, <3>1, Sizes DEF Indexed
    <3>4. QED
      BY <3>1, <3>2, <3>3
  <2>4. Indexed' = Indexed
    BY <2>3 DEF Indexed
  <2>5. Total' = Total
    BY <1>0, <2>2 DEF Total, Shape
  <2>6. ASSUME NEW y \in Indexed PROVE RowAt(y)' = RowAt(y) /\ SymAt(y)' = SymAt(y)
    <3>1. /\ y[1] \in Orients /\ y[2] \in Combs /\ y[1] \in Nat /\ corient \in Nat
          /\ y[1] < corient \/ y[1] = corient
      BY <2>2, CornerPairs DEF Indexed
    <3>2. CASE y[1] < corient
      <4>1. os'[y[1]] = os[y[1]] /\ os[y[1]] \in 1..Len(osUnique)
        BY <1>0, <2>1, <3>1, <3>2 DEF Shape, Loops
      <4>2. osUnique'[os'[y[1]]] = osUnique[os[y[1]]]
        BY <2>2, <4>1
      <4>3. y[1] < corient'
        BY <2>2, <3>1, <3>2
      <4>4. QED
        BY <2>2, <3>2, <4>2, <4>3 DEF RowAt, SymAt, SymCoord, GetSym
    <3>3. CASE y[1] = corient
      <4>1. os'[y[1]] = k
        BY <1>0, <2>1, <2>2, <3>3 DEF Shape
      <4>2. /\ osUnique'[k][y[2]].offset = osTmp[y[2]].offset
            /\ osUnique'[k][y[2]].sym = osTmp[y[2]].sym
        BY <2>1, <3>1 DEF SameArray
      <4>3. y[1] < corient' /\ ~(y[1] < corient)
        BY <2>2, <3>1, <3>3
      <4>4. QED
        BY <2>2, <3>3, <4>1, <4>2, <4>3 DEF RowAt, SymAt, SymCoord, GetSym
    <3>4. QED
      BY <3>1, <3>2, <3>3
  <2>7. QED
    BY <2>4, <2>5, <2>6
<1>3. CASE UNCHANGED vars
  BY <1>3 DEF vars, Indexed, Total, RowAt, SymAt, SymCoord, GetSym
<1>4. QED
  BY <1>1, <1>2, <1>3

LEMMA TotalType == Shape => Total \in Nat
BY Sizes DEF Shape, Total

LEMMA NextRows == IndexInv /\ [Build]_vars => (SymStored /\ RowOfRep /\ RowsUsed /\ RowsInOrder)'
<1> SUFFICES ASSUME IndexInv, [Build]_vars PROVE (SymStored /\ RowOfRep /\ RowsUsed /\ RowsInOrder)'
  OBVIOUS
<1>0. Shape /\ Loops /\ SymStored /\ RowOfRep /\ RowsUsed /\ RowsInOrder /\ Total \in Nat
  BY TotalType DEF IndexInv
<1>1. CASE NewOrient \/ CloseOrient \/ UNCHANGED vars
  <2>1. /\ Indexed' = Indexed /\ Total' = Total
        /\ \A y \in Indexed : RowAt(y)' = RowAt(y) /\ SymAt(y)' = SymAt(y)
    BY <1>1, RowsKept
  <2>2. \A y \in Indexed : Rep(y) \in Indexed
    BY <1>0, RepIndexed
  <2>3. SymStored' /\ RowOfRep'
    BY <1>0, <2>1, <2>2 DEF SymStored, RowOfRep
  <2>4. RowsUsed' /\ RowsInOrder'
    BY <1>0, <2>1 DEF RowsUsed, RowsInOrder
  <2>5. QED
    BY <2>3, <2>4
<1>2. CASE FillOffset
  <2>0. PICK x : x = <<corient, c4comb>>
    OBVIOUS
  <2>1. /\ \A y \in Indexed : RowAt(y)' = RowAt(y) /\ SymAt(y)' = SymAt(y)
        /\ SymAt(x)' = SymOf(x)
        /\ Rep(x) = x => RowAt(x)' = Total /\ Total' = Total + 1
        /\ Rep(x) # x => Rep(x) \in Indexed /\ RowAt(x)' = RowAt(Rep(x)) /\ Total' = Total
    BY <1>2, <2>0, FillRow
  <2>2. /\ x \in Corners \ Indexed /\ Indexed' = Indexed \union {x}
        /\ \A y \in Corners : y \in Indexed <=> Less(y, x)
    BY <1>0, <1>2, <2>0, NextPosition
  <2>3. \A y \in Indexed : y \in Corners /\ Rep(y) \in Indexed
    BY <1>0, RepIndexed
  <2>4. SymStored'
    BY <1>0, <2>1, <2>2 DEF SymStored
  <2>5. RowOfRep'
    BY <1>0, <2>1, <2>2, <2>3 DEF RowOfRep
  <2>6. RowsUsed'
    <3>1. CASE Rep(x) = x
      <4>1. \A y \in Indexed' : RowAt(y)' \in 0..(Total' - 1)
        BY <1>0, <2>1, <2>2, <3>1 DEF RowsUsed
      <4>2. ASSUME NEW n \in 0..(Total' - 1)
            PROVE  \E y \in Indexed' : Rep(y) = y /\ RowAt(y)' = n
        <5>1. CASE n = Total
          BY <2>1, <2>2, <3>1, <5>1
        <5>2. CASE n # Total
          <6>1. n \in 0..(Total - 1)
            BY <1>0, <2>1, <3>1, <5>2
          <6>2. PICK y \in Indexed : Rep(y) = y /\ RowAt(y) = n
            BY <1>0, <6>1 DEF RowsUsed
          <6>3. QED
            BY <2>1, <2>2, <6>2
        <5>3. QED
          BY <5>1, <5>2
      <4>3. QED
        BY <4>1, <4>2 DEF RowsUsed
    <3>2. CASE Rep(x) # x
      <4>1. \A y \in Indexed' : RowAt(y)' \in 0..(Total' - 1)
        BY <1>0, <2>1, <2>2, <3>2 DEF RowsUsed
      <4>2. ASSUME NEW n \in 0..(Total' - 1)
            PROVE  \E y \in Indexed' : Rep(y) = y /\ RowAt(y)' = n
        <5>1. PICK y \in Indexed : Rep(y) = y /\ RowAt(y) = n
          BY <1>0, <2>1, <3>2 DEF RowsUsed
        <5>2. QED
          BY <2>1, <2>2, <5>1
      <4>3. QED
        BY <4>1, <4>2 DEF RowsUsed
    <3>3. QED
      BY <3>1, <3>2
  <2>7. RowsInOrder'
    <3>1. ASSUME NEW y \in Indexed', NEW z \in Indexed', Rep(y) = y, Rep(z) = z, Less(y, z)
          PROVE  RowAt(y)' < RowAt(z)'
      <4>1. y \in Corners /\ z \in Corners
        BY <2>2, <2>3
      <4>2. y \in Indexed
        <5>1. CASE z = x
          BY <2>2, <3>1, <4>1, <5>1
        <5>2. CASE z # x
          <6>1. Less(z, x)
            BY <2>2, <4>1, <5>2
          <6>2. y # x
            BY <3>1, <4>1, <6>1, LessOrder
          <6>3. QED
            BY <2>2, <6>2
        <5>3. QED
          BY <5>1, <5>2
      <4>3. CASE z = x
        BY <1>0, <2>1, <3>1, <4>2, <4>3 DEF RowsUsed
      <4>4. CASE z # x
        BY <1>0, <2>1, <2>2, <3>1, <4>2, <4>4 DEF RowsInOrder
      <4>5. QED
        BY <4>3, <4>4
    <3>2. QED
      BY <3>1 DEF RowsInOrder
  <2>8. QED
    BY <2>4, <2>5, <2>6, <2>7
<1>3. QED
  BY <1>1, <1>2 DEF Build

LEMMA IndexInvariant == Spec => []IndexInv
<1>1. Init => IndexInv
  BY InitIndex
<1>2. IndexInv /\ [Build]_vars => IndexInv'
  BY NextShape, NextRows DEF IndexInv
<1>3. QED
  BY <1>1, <1>2, PTL DEF Spec

-----------------------------------------------------------------------------
(* The rows given so far are as many as the abstract specification counts. *)
LEMMA RowsCounted ==
  ASSUME IndexInv
  PROVE  Numbering!RowsGiven = 0..(Total - 1) /\ Cardinality(Numbering!RowsGiven) = Total
<1>1. Total \in Nat /\ RowsUsed
  BY TotalType DEF IndexInv
<1>2. DOMAIN Row = Indexed /\ \A x \in Indexed : Row[x] = RowAt(x)
  BY DEF Row, RowAt
<1>3. Numbering!RowsGiven = {Row[x] : x \in Indexed}
  BY <1>2 DEF Numbering!RowsGiven
<1>4. Numbering!RowsGiven = 0..(Total - 1)
  BY <1>1, <1>2, <1>3 DEF RowsUsed
<1>5. Cardinality(0..(Total - 1)) = Total
  <2>1. 0 \in Int /\ Total - 1 \in Int
    BY <1>1
  <2>2. Cardinality(0..(Total - 1)) = IF 0 > Total - 1 THEN 0 ELSE Total - 1 - 0 + 1
    BY <2>1, FS_Interval
  <2>3. QED
    BY <1>1, <2>2
<1>6. QED
  BY <1>4, <1>5

(* A turn of the inner loop numbers one more position.                     *)
LEMMA FillNumbers ==
  ASSUME IndexInv, FillOffset
  PROVE  Numbering!Next
<1>0. Shape /\ Loops /\ RowOfRep
  BY DEF IndexInv
<1>1. PICK x : x = <<corient, c4comb>>
  OBVIOUS
<1>2. /\ \A y \in Indexed : RowAt(y)' = RowAt(y)
      /\ Rep(x) = x => RowAt(x)' = Total
      /\ Rep(x) # x => Rep(x) \in Indexed /\ RowAt(x)' = RowAt(Rep(x))
  BY <1>1, FillRow
<1>3. /\ x \in Corners \ Indexed /\ Indexed' = Indexed \union {x}
      /\ \A y \in Corners : y \in Indexed <=> Less(y, x)
  BY <1>0, <1>1, NextPosition
<1>4. /\ DOMAIN Row = Indexed /\ \A y \in Indexed : Row[y] = RowAt(y)
      /\ Row' = [y \in Indexed' |-> RowAt(y)']
  BY DEF Row, RowAt
<1>5. Numbering!RowFor(x) = RowAt(x)'
  <2>1. CASE Rep(x) = x
    <3>1. ASSUME NEW y \in Orbit[x] \intersect Indexed PROVE FALSE
      <4>1. y \in Corners /\ Rep(y) = x
        BY <1>0, <1>3, <2>1, OrbitByRep, RepIndexed
      <4>2. Less(y, x) /\ (Less(x, y) \/ x = y)
        BY <1>3, <4>1, RepLeast
      <4>3. QED
        BY <1>3, <4>1, <4>2, LessOrder
    <3>2. Orbit[x] \intersect DOMAIN Row = {}
      BY <1>4, <3>1
    <3>3. Numbering!RowFor(x) = Cardinality(Numbering!RowsGiven)
      BY <3>2, Zenon DEF Numbering!RowFor, Numbering!Cardinality, Cardinality
    <3>4. Cardinality(Numbering!RowsGiven) = Total
      BY RowsCounted
    <3>5. QED
      BY <1>2, <2>1, <3>3, <3>4
  <2>2. CASE Rep(x) # x
    <3>1. Rep(x) \in Orbit[x] \intersect DOMAIN Row
      BY <1>2, <1>3, <1>4, <2>2, OrbitByRep, RepProperty, RepOfRep
    <3>2. PICK y \in Orbit[x] \intersect DOMAIN Row : Numbering!RowFor(x) = Row[y]
      BY <3>1 DEF Numbering!RowFor
    <3>3. y \in Indexed /\ y \in Corners /\ Rep(y) = Rep(x)
      BY <1>0, <1>3, <1>4, <3>2, OrbitByRep, RepIndexed
    <3>4. Row[y] = RowAt(Rep(x))
      BY <1>0, <1>4, <3>3 DEF RowOfRep
    <3>5. QED
      BY <1>2, <2>2, <3>2, <3>4
  <2>3. QED
    BY <2>1, <2>2
<1>6. Row' = [y \in DOMAIN Row \union {x} |-> IF y = x THEN Numbering!RowFor(x) ELSE Row[y]]
  <2> DEFINE r == Numbering!RowFor(x)
  <2>1. r = RowAt(x)'
    BY <1>5
  <2> HIDE DEF r
  <2>2. \A y \in Indexed' : RowAt(y)' = IF y = x THEN r ELSE Row[y]
    BY <1>2, <1>3, <1>4, <2>1
  <2>3. Row' = [y \in DOMAIN Row \union {x} |-> IF y = x THEN r ELSE Row[y]]
    BY <1>3, <1>4, <2>2
  <2>4. QED
    BY <2>3 DEF r
<1>7. Numbering!Number(x)
  BY <1>3, <1>4, <1>6 DEF Numbering!Number
<1>8. QED
  BY <1>3, <1>7 DEF Numbering!Next

(* The constructor of the table implements the numbering of the orbits:    *)
(* bases, offsets that are taken over and arrays that are shared give each *)
(* position the row of its orbit, and each new orbit the next row.         *)
THEOREM IndexNumbersOrbits == Spec => OrbitsNumbered
<1>1. Init => Numbering!Init
  <2> SUFFICES ASSUME Init PROVE Numbering!Init
    OBVIOUS
  <2>1. Indexed = {}
    BY CornerPairs DEF Init, Indexed
  <2>2. QED
    BY <2>1 DEF Numbering!Init, Row
<1>2. IndexInv /\ [Build]_vars => [Numbering!Next]_Row
  <2> SUFFICES ASSUME IndexInv, [Build]_vars PROVE Numbering!Next \/ Row' = Row
    OBVIOUS
  <2>1. CASE FillOffset
    BY <2>1, FillNumbers
  <2>2. CASE NewOrient \/ CloseOrient \/ UNCHANGED vars
    <3>1. Indexed' = Indexed /\ \A y \in Indexed : RowAt(y)' = RowAt(y)
      BY <2>2, RowsKept
    <3>2. Row = [y \in Indexed |-> RowAt(y)] /\ Row' = [y \in Indexed' |-> RowAt(y)']
      BY DEF Row, RowAt
    <3>3. QED
      BY <3>1, <3>2
  <2>3. QED
    BY <2>1, <2>2 DEF Build
<1>3. QED
  BY <1>1, <1>2, IndexInvariant, PTL DEF Spec, OrbitsNumbered, Numbering!Spec

-----------------------------------------------------------------------------
(***************************************************************************)
(* The width of rows: there are no more of them than orbits.               *)
(***************************************************************************)
Orbits == {Orbit[x] : x \in Corners}

LEMMA FinitelyManyOrbits == IsFiniteSet(Orbits)
<1>1. IsFiniteSet(Corners)
  <2>1. 0 \in Int /\ N_CORIENT - 1 \in Int /\ N_C4COMB - 1 \in Int
    BY Sizes
  <2>2. IsFiniteSet(Orients) /\ IsFiniteSet(Combs)
    BY <2>1, FS_Interval DEF Orients, Combs
  <2>3. QED
    BY <2>2, FS_Product DEF Corners
<1>2. Orbit \in Surjection(Corners, Orbits)
  <2>1. DOMAIN Orbit = Corners /\ \A x \in Corners : Orbit[x] \in Orbits
    BY DEF Orbit, Orbits
  <2>2. Orbit \in [Corners -> Orbits]
    BY <2>1 DEF Orbit
  <2>3. \A t \in Orbits : \E x \in Corners : Orbit[x] = t
    BY DEF Orbits
  <2>4. QED
    BY <2>2, <2>3 DEF Surjection
<1>3. QED
  BY <1>1, <1>2, FS_Surjection

(* Different rows belong to different orbits.                              *)
LEMMA RowsFit ==
  ASSUME IndexInv
  PROVE  Total \in 0..MaxBase
<1>0. Total \in Nat /\ Shape /\ RowsUsed /\ RowOfRep
  BY TotalType DEF IndexInv
<1> DEFINE Rows == 0..(Total - 1)
           first == [n \in Rows |-> CHOOSE x \in Indexed : Rep(x) = x /\ RowAt(x) = n]
           f == [n \in Rows |-> Orbit[first[n]]]
<1>1. ASSUME NEW n \in Rows
      PROVE  first[n] \in Indexed /\ Rep(first[n]) = first[n] /\ RowAt(first[n]) = n
  <2>1. \E x \in Indexed : Rep(x) = x /\ RowAt(x) = n
    BY <1>0 DEF RowsUsed
  <2>2. QED
    BY <2>1
<1>2. \A n \in Rows : first[n] \in Corners
  BY <1>1 DEF Indexed
<1> HIDE DEF first
<1>3. f \in [Rows -> Orbits]
  BY <1>2 DEF Orbits
<1>4. ASSUME NEW m \in Rows, NEW n \in Rows, f[m] = f[n]
      PROVE  m = n
  <2>1. first[n] \in Orbit[first[n]]
    BY <1>2, OrbitByRep
  <2>2. first[n] \in Orbit[first[m]]
    BY <1>4, <2>1
  <2>3. first[m] = first[n]
    BY <1>1, <1>2, <2>2, OrbitByRep
  <2>4. QED
    BY <1>1, <2>3
<1>5. f \in Injection(Rows, Orbits)
  BY <1>3, <1>4 DEF Injection, IsInjective
<1> HIDE DEF f
<1>6. Cardinality(Rows) <= Cardinality(Orbits)
  BY <1>5, FinitelyManyOrbits, FS_Injection
<1>7. Cardinality(Rows) = Total
  <2>1. 0 \in Int /\ Total - 1 \in Int
    BY <1>0
  <2>2. Cardinality(Rows) = IF 0 > Total - 1 THEN 0 ELSE Total - 1 - 0 + 1
    BY <2>1, FS_Interval
  <2>3. QED
    BY <1>0, <2>2
<1>8. Cardinality(Orbits) <= MaxBase /\ Cardinality(Orbits) \in Nat
  BY SizeAssumption, FinitelyManyOrbits, FS_CardinalityType DEF Orbits
<1>9. MaxBase \in Nat
  BY DEF MaxBase
<1>10. QED
  BY <1>0, <1>6, <1>7, <1>8, <1>9

(* No base is beyond the next row.                                         *)
BaseBelow == \A o \in Orients : base[o] <= nextSymcoord

LEMMA BasesBelow == Spec => []BaseBelow
<1>1. Init => BaseBelow
  BY DEF Init, BaseBelow
<1>2. IndexInv /\ BaseBelow /\ [Build]_vars => BaseBelow'
  <2> SUFFICES ASSUME IndexInv, BaseBelow, [Build]_vars PROVE BaseBelow'
    OBVIOUS
  <2>0. Shape /\ Loops
    BY DEF IndexInv
  <2>1. CASE NewOrient
    <3>1. corient \in Orients
      BY <2>0, <2>1, Sizes DEF NewOrient, Shape, Loops
    <3>2. OrientRep \in Orients
      BY <3>1, CornerPairs, RepProperty DEF OrientRep
    <3>3. base \in [Orients -> Nat] /\ nextSymcoord \in Nat
      BY <2>0 DEF Shape
    <3>4. QED
      BY <2>1, <3>1, <3>2, <3>3 DEF NewOrient, BaseBelow
  <2>2. CASE FillOffset
    BY <2>2 DEF FillOffset, BaseBelow
  <2>3. CASE CloseOrient
    BY <2>0, <2>3, Sizes DEF CloseOrient, BaseBelow, Shape
  <2>4. CASE UNCHANGED vars
    BY <2>4 DEF vars, BaseBelow
  <2>5. QED
    BY <2>1, <2>2, <2>3, <2>4 DEF Build
<1>3. QED
  BY <1>1, <1>2, IndexInvariant, PTL DEF Spec

(* Rows, bases and offsets keep within 16 and 8 bits, and no step reads an *)
(* array that is not there.                                                *)
THEOREM IndexTypeCorrect == Spec => []TypeOK
<1>1. IndexInv /\ BaseBelow => TypeOK
  <2> SUFFICES ASSUME IndexInv, BaseBelow PROVE TypeOK
    OBVIOUS
  <2>1. Shape
    BY DEF IndexInv
  <2>2. nextSymcoord \in 0..MaxBase
    <3>1. Total \in 0..MaxBase /\ nextSymcoord \in Nat /\ offset \in Nat
      BY <2>1, RowsFit, Sizes DEF Shape
    <3>2. QED
      <4>1. nextSymcoord <= Total /\ Total <= MaxBase
        BY <3>1 DEF Total
      <4>2. MaxBase \in Nat
        BY DEF MaxBase
      <4>3. QED
        BY <3>1, <4>1, <4>2
  <2>3. base \in [Orients -> 0..MaxBase]
    <3>1. MaxBase \in Nat
      BY DEF MaxBase
    <3>2. \A o \in Orients : base[o] \in 0..MaxBase
      BY <2>1, <2>2, <3>1 DEF Shape, BaseBelow
    <3>3. QED
      BY <2>1, <3>2 DEF Shape
  <2>4. QED
    BY <2>1, <2>2, <2>3 DEF Shape, Entry, TypeOK
<1>2. QED
  BY <1>1, IndexInvariant, BasesBelow, PTL

-----------------------------------------------------------------------------
(***************************************************************************)
(* The index when it is built, and the list of representatives.            *)
(***************************************************************************)
LEMMA BuiltIndex ==
  ASSUME IndexInv, phase = "built"
  PROVE  /\ nextSymcoord \in Nat
         /\ \A x \in Corners : /\ SymCoord(x) \in 0..(nextSymcoord - 1)
                               /\ SymCoord(x) = SymCoord(Rep(x))
                               /\ GetSym(x) = SymOf(x)
         /\ AtIdentity = {x \in Corners : Rep(x) = x}
         /\ \A n \in 0..(nextSymcoord - 1) : \E x \in AtIdentity : SymCoord(x) = n
         /\ \A x, y \in AtIdentity : Less(x, y) => SymCoord(x) < SymCoord(y)
<1>0. Shape /\ Loops /\ SymStored /\ RowOfRep /\ RowsUsed /\ RowsInOrder
  BY DEF IndexInv
<1>1. corient = N_CORIENT /\ nextSymcoord \in Nat /\ Total = nextSymcoord
  BY <1>0, Sizes DEF Shape, Loops, Total
<1>2. \A x \in Corners : x[1] < corient
  BY <1>1, CornerPairs, Sizes
<1>3. Indexed = Corners
  BY <1>2 DEF Indexed
<1>4. \A x \in Corners : RowAt(x) = SymCoord(x) /\ SymAt(x) = GetSym(x)
  BY <1>2 DEF RowAt, SymAt
<1>5. \A x \in Corners : GetSym(x) = SymOf(x)
  BY <1>0, <1>3, <1>4 DEF SymStored
<1>6. AtIdentity = {x \in Corners : Rep(x) = x}
  BY <1>5, IdentityAtRep DEF AtIdentity
<1>7. \A x \in Corners : SymCoord(x) \in 0..(nextSymcoord - 1)
  BY <1>0, <1>1, <1>3, <1>4 DEF RowsUsed
<1>8. \A x \in Corners : SymCoord(x) = SymCoord(Rep(x))
  BY <1>0, <1>3, <1>4, RepProperty DEF RowOfRep
<1>9. \A n \in 0..(nextSymcoord - 1) : \E x \in AtIdentity : SymCoord(x) = n
  BY <1>0, <1>1, <1>3, <1>4, <1>6 DEF RowsUsed
<1>10. \A x, y \in AtIdentity : Less(x, y) => SymCoord(x) < SymCoord(y)
  BY <1>0, <1>3, <1>4, <1>6 DEF RowsInOrder
<1>11. QED
  BY <1>1, <1>5, <1>6, <1>7, <1>8, <1>9, <1>10

(* The rows below n are n rows, each of one representative.                *)
LEMMA RowsBelow ==
  ASSUME IndexInv, phase = "built", NEW n \in 0..nextSymcoord
  PROVE  Cardinality({y \in AtIdentity : SymCoord(y) < n}) = n
<1> DEFINE B == {y \in AtIdentity : SymCoord(y) < n}
           f == [y \in B |-> SymCoord(y)]
<1>0. n \in Nat /\ nextSymcoord \in Nat /\ n <= nextSymcoord
  BY BuiltIndex
<1>1. AtIdentity \subseteq Corners
  BY BuiltIndex
<1>2. f \in [B -> 0..(n - 1)]
  BY <1>0, <1>1, BuiltIndex
<1>3. \A t \in 0..(n - 1) : \E y \in B : f[y] = t
  <2> SUFFICES ASSUME NEW t \in 0..(n - 1) PROVE \E y \in B : f[y] = t
    OBVIOUS
  <2>1. t \in 0..(nextSymcoord - 1) /\ t < n
    BY <1>0
  <2>2. PICK y \in AtIdentity : SymCoord(y) = t
    BY <2>1, BuiltIndex
  <2>3. QED
    BY <2>1, <2>2
<1>4. ASSUME NEW y \in B, NEW z \in B, f[y] = f[z] PROVE y = z
  <2>1. y \in Corners /\ z \in Corners /\ SymCoord(y) = SymCoord(z) /\ SymCoord(y) \in Nat
    BY <1>1, <1>4, BuiltIndex
  <2>2. ~Less(y, z) /\ ~Less(z, y)
    BY <2>1, BuiltIndex
  <2>3. QED
    BY <2>1, <2>2, LessOrder
<1>5. f \in Bijection(B, 0..(n - 1))
  BY <1>2, <1>3, <1>4 DEF Bijection, Injection, Surjection, IsInjective
<1>6. IsFiniteSet(0..(n - 1)) /\ Cardinality(0..(n - 1)) = n
  <2>1. 0 \in Int /\ n - 1 \in Int
    BY <1>0
  <2>2. IsFiniteSet(0..(n - 1)) /\ Cardinality(0..(n - 1)) = IF 0 > n - 1 THEN 0 ELSE n - 1 - 0 + 1
    BY <2>1, FS_Interval
  <2>3. QED
    BY <1>0, <2>2
<1> HIDE DEF f, B
<1>7. Cardinality(B) = n
  <2>1. f \in Injection(B, 0..(n - 1)) /\ f \in Surjection(B, 0..(n - 1))
    BY <1>5 DEF Bijection
  <2>2. Cardinality(B) = Cardinality(0..(n - 1))
    BY <1>6, <2>1, FS_Injection
  <2>3. QED
    BY <1>6, <2>2
<1>8. QED
  BY <1>7 DEF B

(* The list of representatives: the k-th of them has row k - 1, and every  *)
(* position leads to the representative of its row.                        *)
LEMMA ListOfRepresentatives ==
  ASSUME IndexInv, phase = "built"
  PROVE  /\ CornerRepresentatives \in Seq(Corners)
         /\ Len(CornerRepresentatives) = nextSymcoord
         /\ \A k \in 1..nextSymcoord : SymCoord(CornerRepresentatives[k]) = k - 1
         /\ \A x \in Corners : Rep(x) = CornerRepresentatives[SymCoord(x) + 1]
<1> DEFINE reps == CornerRepresentatives
<1>0. nextSymcoord \in Nat /\ AtIdentity \subseteq Corners
  BY BuiltIndex
<1>1. Cardinality(AtIdentity) = nextSymcoord
  <2>1. AtIdentity = {y \in AtIdentity : SymCoord(y) < nextSymcoord}
    BY <1>0, BuiltIndex
  <2>2. Cardinality({y \in AtIdentity : SymCoord(y) < nextSymcoord}) = nextSymcoord
    BY <1>0, RowsBelow
  <2>3. QED
    BY <2>1, <2>2
<1>2. ASSUME NEW x \in AtIdentity
      PROVE  Cardinality({y \in AtIdentity : Less(y, x)}) = SymCoord(x)
  <2>0. x \in Corners /\ SymCoord(x) \in 0..nextSymcoord /\ SymCoord(x) \in Nat
    BY <1>0, BuiltIndex
  <2>1. ASSUME NEW y \in AtIdentity PROVE Less(y, x) <=> SymCoord(y) < SymCoord(x)
    <3>1. y \in Corners /\ SymCoord(y) \in Nat
      BY <1>0, BuiltIndex
    <3>2. x = y \/ Less(x, y) \/ Less(y, x)
      BY <2>0, <3>1, LessOrder
    <3>3. Less(y, x) => SymCoord(y) < SymCoord(x)
      BY BuiltIndex
    <3>4. Less(x, y) => SymCoord(x) < SymCoord(y)
      BY BuiltIndex
    <3>5. QED
      BY <2>0, <3>1, <3>2, <3>3, <3>4
  <2>2. {y \in AtIdentity : Less(y, x)} = {y \in AtIdentity : SymCoord(y) < SymCoord(x)}
    BY <2>1
  <2>3. Cardinality({y \in AtIdentity : SymCoord(y) < SymCoord(x)}) = SymCoord(x)
    BY <2>0, RowsBelow
  <2>4. QED
    BY <2>2, <2>3
<1>3. ASSUME NEW k \in 1..nextSymcoord
      PROVE  reps[k] \in AtIdentity /\ SymCoord(reps[k]) = k - 1
  <2>1. reps[k] = CHOOSE x \in AtIdentity : Cardinality({y \in AtIdentity : Less(y, x)}) = k - 1
    BY <1>1 DEF CornerRepresentatives
  <2>2. \E x \in AtIdentity : Cardinality({y \in AtIdentity : Less(y, x)}) = k - 1
    <3>1. k - 1 \in 0..(nextSymcoord - 1)
      BY <1>0
    <3>2. PICK x \in AtIdentity : SymCoord(x) = k - 1
      BY <3>1, BuiltIndex
    <3>3. QED
      BY <1>2, <3>2
  <2>3. reps[k] \in AtIdentity /\ Cardinality({y \in AtIdentity : Less(y, reps[k])}) = k - 1
    BY <2>1, <2>2
  <2>4. QED
    BY <1>2, <2>3
<1>4. reps \in Seq(Corners) /\ Len(reps) = nextSymcoord
  <2>1. reps = [k \in 1..nextSymcoord |->
                  CHOOSE x \in AtIdentity : Cardinality({y \in AtIdentity : Less(y, x)}) = k - 1]
    BY <1>1, Zenon DEF CornerRepresentatives
  <2>2. reps \in [1..nextSymcoord -> Corners]
    <3>1. ASSUME NEW k \in 1..nextSymcoord PROVE reps[k] \in Corners
      BY <1>0, <1>3
    <3> HIDE DEF reps
    <3>2. QED
      BY <2>1, <3>1, Zenon
  <2> HIDE DEF reps
  <2>3. QED
    BY <1>0, <2>2
<1>5. ASSUME NEW x \in Corners PROVE Rep(x) = reps[SymCoord(x) + 1]
  <2>1. Rep(x) \in Corners /\ Rep(Rep(x)) = Rep(x)
    BY RepProperty, RepOfRep
  <2>2. SymCoord(Rep(x)) = SymCoord(x) /\ SymCoord(x) \in 0..(nextSymcoord - 1) /\ Rep(x) \in AtIdentity
    BY <2>1, BuiltIndex
  <2>3. SymCoord(x) + 1 \in 1..nextSymcoord
    BY <1>0, <2>2
  <2>4. PICK k : k = SymCoord(x) + 1
    OBVIOUS
  <2>5. k \in 1..nextSymcoord /\ k - 1 = SymCoord(x)
    BY <2>2, <2>3, <2>4
  <2>6. reps[k] \in AtIdentity /\ SymCoord(reps[k]) = SymCoord(x)
    BY <1>3, <2>5
  <2>7. reps[k] \in Corners /\ SymCoord(x) \in Nat
    BY <1>0, <2>2, <2>6
  <2>8. ~Less(reps[k], Rep(x)) /\ ~Less(Rep(x), reps[k])
    BY <2>2, <2>6, <2>7, BuiltIndex
  <2>9. reps[k] = Rep(x)
    BY <2>1, <2>7, <2>8, LessOrder
  <2>10. QED
    BY <2>4, <2>9
<1>6. QED
  BY <1>3, <1>4, <1>5

(* The generator, which numbers rows by their place in the list, and the   *)
(* search, which takes sym_coord, mean the same rows, and the symmetry     *)
(* stored for a position leads to the representative of its row.           *)
THEOREM RowsMeanTheSame == Spec => []IndexConsistent
<1>1. IndexInv => IndexConsistent
  <2> SUFFICES ASSUME IndexInv, phase = "built"
               PROVE  /\ Len(CornerRepresentatives) = nextSymcoord
                      /\ \A k \in DOMAIN CornerRepresentatives : SymCoord(CornerRepresentatives[k]) = k - 1
                      /\ \A x \in Corners : Conj(GetSym(x), x) = CornerRepresentatives[SymCoord(x) + 1]
    BY DEF IndexConsistent
  <2>1. \A x \in Corners : Conj(GetSym(x), x) = Rep(x)
    BY BuiltIndex DEF Rep
  <2>2. DOMAIN CornerRepresentatives = 1..nextSymcoord
    BY ListOfRepresentatives
  <2>3. QED
    BY <2>1, <2>2, ListOfRepresentatives
<1>2. QED
  BY <1>1, IndexInvariant, PTL

-----------------------------------------------------------------------------
Positions == Corners \X Edges
Reachable == DOMAIN Dist

(* A position under a symmetry.                                            *)
Image(s, p) == <<Conj(s, p[1]), ConjEdge[s][p[2]]>>

-----------------------------------------------------------------------------
(***************************************************************************)
(* Turns, symmetries and distances, in terms of positions.                 *)
(***************************************************************************)
LEMMA PositionPairs ==
  ASSUME NEW p \in Positions
  PROVE  p[1] \in Corners /\ p[2] \in Edges /\ p = <<p[1], p[2]>>
BY DEF Positions

LEMMA Distances ==
  /\ Reachable \subseteq Positions /\ Solved \in Reachable
  /\ \A p \in Reachable :
       /\ Dist[p] \in Nat /\ (Dist[p] = 0 <=> p = Solved)
       /\ \A m \in Turns : Turn(m, p) \in Reachable /\ Dist[Turn(m, p)] <= Dist[p] + 1
       /\ p # Solved => \E m \in Turns : Dist[Turn(m, p)] = Dist[p] - 1
<1>1. Reachable \subseteq Positions /\ Solved \in Reachable
  BY DistAssumption DEF Reachable, Positions
<1>2. ASSUME NEW p \in Reachable
      PROVE  /\ Dist[p] \in Nat /\ (Dist[p] = 0 <=> p = Solved)
             /\ \A m \in Turns : Turn(m, p) \in Reachable /\ Dist[Turn(m, p)] <= Dist[p] + 1
             /\ p # Solved => \E m \in Turns : Dist[Turn(m, p)] = Dist[p] - 1
  BY DistAssumption DEF Reachable, Turn
<1>3. QED
  BY <1>1, <1>2

LEMMA ImageType ==
  ASSUME NEW s \in Syms, NEW p \in Positions
  PROVE  /\ Image(s, p) \in Positions
         /\ Image(s, p)[1] = Conj(s, p[1]) /\ Image(s, p)[2] = ConjEdge[s][p[2]]
<1>1. p[1] \in Corners /\ p[2] \in Edges
  BY PositionPairs
<1>2. Conj(s, p[1]) \in Corners
  BY <1>1, ConjType
<1>3. ConjEdge[s][p[2]] \in Edges
  BY <1>1, EdgeAssumption
<1>4. QED
  BY <1>2, <1>3 DEF Image, Positions

LEMMA TurnsUndone ==
  ASSUME NEW m \in Turns
  PROVE  \E n \in Turns : \A p \in Positions : Turn(n, Turn(m, p)) = p
<1>1. PICK n \in Turns :
        /\ \A o \in Orients : MoveOrient[n][MoveOrient[m][o]] = o
        /\ \A c \in Combs   : MoveComb[n][MoveComb[m][c]] = c
        /\ \A e \in Edges   : MoveEdge[n][MoveEdge[m][e]] = e
  BY TurnAssumption
<1>2. ASSUME NEW p \in Positions PROVE Turn(n, Turn(m, p)) = p
  <2>1. p[1] \in Corners /\ p[2] \in Edges /\ p = <<p[1], p[2]>>
    BY PositionPairs
  <2>2. p[1][1] \in Orients /\ p[1][2] \in Combs /\ p[1] = <<p[1][1], p[1][2]>>
    BY <2>1, CornerPairs
  <2>3. Turn(n, Turn(m, p)) = <<<<p[1][1], p[1][2]>>, p[2]>>
    BY <1>1, <2>1, <2>2 DEF Turn
  <2>4. QED
    BY <2>1, <2>2, <2>3
<1>3. QED
  BY <1>2

LEMMA TurnsConjugate ==
  ASSUME NEW s \in Syms, NEW m \in Turns
  PROVE  \E n \in Turns : \A p \in Positions : Turn(n, Image(s, p)) = Image(s, Turn(m, p))
<1>1. PICK n \in Turns :
        /\ \A o \in Orients : MoveOrient[n][ConjOrient[s][o]] = ConjOrient[s][MoveOrient[m][o]]
        /\ \A c \in Combs   : MoveComb[n][ConjComb[s][c]] = ConjComb[s][MoveComb[m][c]]
        /\ \A e \in Edges   : MoveEdge[n][ConjEdge[s][e]] = ConjEdge[s][MoveEdge[m][e]]
  <2>1. \A t \in Syms, k \in Turns : \E n \in Turns :
          /\ \A o \in Orients : MoveOrient[n][ConjOrient[t][o]] = ConjOrient[t][MoveOrient[k][o]]
          /\ \A c \in Combs   : MoveComb[n][ConjComb[t][c]] = ConjComb[t][MoveComb[k][c]]
          /\ \A e \in Edges   : MoveEdge[n][ConjEdge[t][e]] = ConjEdge[t][MoveEdge[k][e]]
    BY TurnAssumption
  <2>2. QED
    BY <2>1, Zenon
<1>2. ASSUME NEW p \in Positions PROVE Turn(n, Image(s, p)) = Image(s, Turn(m, p))
  <2>1. p[1] \in Corners /\ p[2] \in Edges
    BY PositionPairs
  <2>2. p[1][1] \in Orients /\ p[1][2] \in Combs
    BY <2>1, CornerPairs
  <2>3. QED
    BY <1>1, <2>1, <2>2 DEF Turn, Image, Conj
<1>3. QED
  BY <1>2

LEMMA ImageUndone ==
  ASSUME NEW s \in Syms
  PROVE  \E t \in Syms : \A p \in Positions : Image(t, Image(s, p)) = p
<1>1. PICK t \in Syms :
        /\ \A o \in Orients : ConjOrient[t][ConjOrient[s][o]] = o
        /\ \A c \in Combs   : ConjComb[t][ConjComb[s][c]] = c
        /\ \A e \in Edges   : ConjEdge[t][ConjEdge[s][e]] = e
  BY EdgeAssumption
<1>2. ASSUME NEW p \in Positions PROVE Image(t, Image(s, p)) = p
  <2>1. p[1] \in Corners /\ p[2] \in Edges /\ p = <<p[1], p[2]>>
    BY PositionPairs
  <2>2. p[1][1] \in Orients /\ p[1][2] \in Combs /\ p[1] = <<p[1][1], p[1][2]>>
    BY <2>1, CornerPairs
  <2>3. Image(t, Image(s, p)) = <<<<p[1][1], p[1][2]>>, p[2]>>
    BY <1>1, <2>1, <2>2 DEF Image, Conj
  <2>4. QED
    BY <2>1, <2>2, <2>3
<1>3. QED
  BY <1>2

LEMMA SolvedFixed ==
  ASSUME NEW s \in Syms
  PROVE  Image(s, Solved) = Solved
BY EdgeAssumption DEF Image, Conj, Solved

(* Symmetric positions are equally far from the solved one: a shortest way *)
(* is taken to a way of the same length.                                   *)
LEMMA ImageNotFarther ==
  ASSUME NEW p \in Reachable, NEW s \in Syms
  PROVE  Image(s, p) \in Reachable /\ Dist[Image(s, p)] <= Dist[p]
<1> DEFINE Near(q, t) == Image(t, q) \in Reachable /\ Dist[Image(t, q)] <= Dist[q]
           Bad == {Dist[q] : q \in {r \in Reachable : \E t \in Syms : ~Near(r, t)}}
<1>1. SUFFICES ASSUME ~Near(p, s) PROVE FALSE
  OBVIOUS
<1>2. Bad \in SUBSET Nat /\ Bad # {}
  BY <1>1, Distances
<1>3. PICK k \in Bad : \A l \in Bad : k <= l
  BY <1>2, LeastNatural
<1>4. PICK q \in Reachable, t \in Syms : Dist[q] = k /\ ~Near(q, t)
  BY <1>3
<1>5. q # Solved
  <2>1. Image(t, Solved) = Solved /\ Solved \in Reachable /\ Dist[Solved] \in Nat
    BY SolvedFixed, Distances
  <2>2. Near(Solved, t)
    BY <2>1
  <2>3. QED
    BY <1>4, <2>2
<1>6. PICK m \in Turns : Turn(m, q) \in Reachable /\ Dist[Turn(m, q)] = k - 1
  BY <1>4, <1>5, Distances
<1>7. k \in Nat /\ k - 1 \notin Bad
  BY <1>2, <1>3
<1>8. Near(Turn(m, q), t)
  BY <1>6, <1>7
<1>9. PICK u \in Turns : \A r \in Positions : Turn(u, Turn(m, r)) = r
  BY TurnsUndone
<1>10. PICK v \in Turns : \A r \in Positions : Turn(v, Image(t, r)) = Image(t, Turn(u, r))
  BY TurnsConjugate
<1>11. Turn(v, Image(t, Turn(m, q))) = Image(t, q)
  BY <1>6, <1>9, <1>10, Distances
<1>12. /\ Image(t, q) \in Reachable
       /\ Dist[Image(t, q)] <= Dist[Image(t, Turn(m, q))] + 1
       /\ Dist[Image(t, q)] \in Nat /\ Dist[Image(t, Turn(m, q))] \in Nat
  BY <1>8, <1>11, Distances
<1>13. Dist[Image(t, Turn(m, q))] <= k - 1
  BY <1>6, <1>8
<1>14. Dist[Image(t, q)] <= k
  BY <1>7, <1>12, <1>13
<1>15. QED
  BY <1>4, <1>12, <1>14

LEMMA ImageDistance ==
  ASSUME NEW p \in Positions, NEW s \in Syms
  PROVE  /\ p \in Reachable <=> Image(s, p) \in Reachable
         /\ p \in Reachable => Dist[Image(s, p)] = Dist[p]
<1>1. PICK t \in Syms : Image(t, Image(s, p)) = p
  BY ImageUndone
<1>2. p \in Reachable => Image(s, p) \in Reachable /\ Dist[Image(s, p)] <= Dist[p]
  BY ImageNotFarther
<1>3. Image(s, p) \in Reachable => p \in Reachable /\ Dist[p] <= Dist[Image(s, p)]
  BY <1>1, ImageNotFarther
<1>4. p \in Reachable => Dist[p] \in Nat /\ Dist[Image(s, p)] \in Nat
  BY <1>2, Distances
<1>5. QED
  BY <1>2, <1>3, <1>4

-----------------------------------------------------------------------------
(***************************************************************************)
(* The entries of a layer: those whose representative position has the     *)
(* distance of the layer.                                                  *)
(***************************************************************************)
Entries == (0..(nextSymcoord - 1)) \X Edges
PositionOf(entry) == <<cornerRep[entry[1] + 1], entry[2]>>
Layer(d) == {entry \in Entries : /\ PositionOf(entry) \in Reachable
                                 /\ Dist[PositionOf(entry)] = d}

(* The index is built and the representatives are listed.                  *)
Listed == IndexInv /\ phase = "built" /\ cornerRep = CornerRepresentatives

LEMMA RowsListed ==
  ASSUME Listed
  PROVE  /\ nextSymcoord \in Nat
         /\ \A x \in Corners : /\ SymCoord(x) \in 0..(nextSymcoord - 1)
                               /\ cornerRep[SymCoord(x) + 1] = Rep(x)
                               /\ Conj(GetSym(x), x) = Rep(x) /\ GetSym(x) \in Syms
         /\ \A r \in 0..(nextSymcoord - 1) :
              LET x == cornerRep[r + 1] IN x \in Corners /\ SymCoord(x) = r /\ Rep(x) = x
<1>1. nextSymcoord \in Nat
  BY BuiltIndex DEF Listed
<1>2. ASSUME NEW x \in Corners
      PROVE  /\ SymCoord(x) \in 0..(nextSymcoord - 1)
             /\ cornerRep[SymCoord(x) + 1] = Rep(x)
             /\ Conj(GetSym(x), x) = Rep(x) /\ GetSym(x) \in Syms
  <2>1. SymCoord(x) \in 0..(nextSymcoord - 1) /\ GetSym(x) = SymOf(x)
    BY BuiltIndex DEF Listed
  <2>2. cornerRep[SymCoord(x) + 1] = Rep(x)
    BY ListOfRepresentatives DEF Listed
  <2>3. QED
    BY <2>1, <2>2, RepProperty DEF Rep
<1>3. ASSUME NEW r \in 0..(nextSymcoord - 1)
      PROVE  /\ cornerRep[r + 1] \in Corners /\ SymCoord(cornerRep[r + 1]) = r
             /\ Rep(cornerRep[r + 1]) = cornerRep[r + 1]
  <2>1. PICK k : k = r + 1
    OBVIOUS
  <2>2. k \in 1..nextSymcoord /\ k - 1 = r
    BY <1>1, <2>1
  <2>3. cornerRep[k] \in Corners /\ SymCoord(cornerRep[k]) = r
    BY <2>2, ListOfRepresentatives DEF Listed
  <2>4. Rep(cornerRep[k]) = cornerRep[k]
    BY <1>2, <2>1, <2>3
  <2>5. QED
    BY <2>1, <2>3, <2>4
<1>4. QED
  BY <1>1, <1>2, <1>3

(* The entry of a position, found with any symmetry that leads to the      *)
(* representative of its corners, is in the layer of its distance.         *)
LEMMA EntryInLayer ==
  ASSUME Listed, NEW p \in Positions, NEW s \in Syms, Conj(s, p[1]) = Rep(p[1]), NEW d
  PROVE  LET entry == <<SymCoord(p[1]), ConjEdge[s][p[2]]>>
         IN  /\ PositionOf(entry) = Image(s, p)
             /\ entry \in Layer(d) <=> p \in Reachable /\ Dist[p] = d
<1> DEFINE entry == <<SymCoord(p[1]), ConjEdge[s][p[2]]>>
<1>1. p[1] \in Corners /\ p[2] \in Edges /\ ConjEdge[s][p[2]] \in Edges
  BY PositionPairs, EdgeAssumption
<1>2. entry \in Entries
  BY <1>1, RowsListed DEF Entries
<1>3. PositionOf(entry) = Image(s, p)
  BY <1>1, RowsListed DEF PositionOf, Image
<1>4. entry \in Layer(d) <=> Image(s, p) \in Reachable /\ Dist[Image(s, p)] = d
  BY <1>2, <1>3 DEF Layer
<1>5. QED
  BY <1>3, <1>4, ImageDistance

(* An entry of a layer leads to entries at most one layer further.         *)
LEMMA TargetsNear ==
  ASSUME Listed, NEW d \in Nat, NEW entry \in Layer(d), NEW target \in Targets(entry)
  PROVE  \E k \in 0..(d + 1) : target \in Layer(k)
<1>1. PICK p : p = PositionOf(entry)
  OBVIOUS
<1>2. p \in Reachable /\ Dist[p] = d
  BY <1>1 DEF Layer
<1>3. PICK m \in Turns : \E s \in GoalSyms(Turn(m, p)[1]) :
        target = <<SymCoord(Turn(m, p)[1]), ConjEdge[s][Turn(m, p)[2]]>>
  BY <1>1 DEF Targets, PositionOf
<1>4. PICK q : q = Turn(m, p)
  OBVIOUS
<1>5. PICK s \in GoalSyms(q[1]) : target = <<SymCoord(q[1]), ConjEdge[s][q[2]]>>
  BY <1>3, <1>4
<1>6. q \in Reachable /\ q \in Positions /\ Dist[q] \in Nat /\ Dist[q] <= d + 1
  BY <1>2, <1>4, Distances
<1>7. s \in Syms /\ Conj(s, q[1]) = Rep(q[1])
  BY <1>6, PositionPairs, RowsListed DEF GoalSyms
<1>8. target \in Layer(Dist[q])
  BY <1>5, <1>6, <1>7, EntryInLayer
<1>9. QED
  BY <1>6, <1>8

(* Every entry of a layer is led to by one of the layer before.            *)
LEMMA TargetsAll ==
  ASSUME Listed, NEW d \in Nat, NEW target \in Layer(d + 1)
  PROVE  \E entry \in Layer(d) : target \in Targets(entry)
<1>1. PICK p : p = PositionOf(target)
  OBVIOUS
<1>2. /\ target \in Entries /\ p \in Reachable /\ Dist[p] = d + 1
      /\ p \in Positions /\ p[1] \in Corners
  BY <1>1, Distances, PositionPairs DEF Layer
<1>3. /\ target = <<target[1], target[2]>> /\ target[1] \in 0..(nextSymcoord - 1)
      /\ p = <<cornerRep[target[1] + 1], target[2]>>
  BY <1>1, <1>2 DEF Entries, PositionOf
<1>4. Rep(p[1]) = p[1] /\ SymCoord(p[1]) = target[1] /\ p[2] = target[2]
  BY <1>3, RowsListed
<1>5. PICK m \in Turns : Turn(m, p) \in Reachable /\ Dist[Turn(m, p)] = d
  <2>1. p # Solved
    BY <1>2, Distances
  <2>2. PICK m \in Turns : Dist[Turn(m, p)] = Dist[p] - 1
    BY <1>2, <2>1, Distances
  <2>3. Dist[Turn(m, p)] = d
    BY <1>2, <2>2
  <2>4. QED
    BY <1>2, <2>3, Distances
<1>6. PICK q : q = Turn(m, p)
  OBVIOUS
<1>7. q \in Positions /\ q[1] \in Corners
  BY <1>5, <1>6, Distances, PositionPairs
<1>8. PICK s : s = GetSym(q[1])
  OBVIOUS
<1>9. s \in Syms /\ Conj(s, q[1]) = Rep(q[1])
  BY <1>7, <1>8, RowsListed
<1>10. PICK entry : entry = <<SymCoord(q[1]), ConjEdge[s][q[2]]>>
  OBVIOUS
<1>11. entry \in Layer(d) /\ PositionOf(entry) = Image(s, q)
  BY <1>5, <1>6, <1>7, <1>9, <1>10, EntryInLayer
<1>12. PICK u \in Turns : \A r \in Positions : Turn(u, Turn(m, r)) = r
  BY TurnsUndone
<1>13. PICK v \in Turns : \A r \in Positions : Turn(v, Image(s, r)) = Image(s, Turn(u, r))
  BY <1>9, TurnsConjugate
<1>14. Turn(v, PositionOf(entry)) = Image(s, p)
  BY <1>2, <1>6, <1>7, <1>11, <1>12, <1>13
<1>15. PICK t \in Syms : \A r \in Positions : Image(t, Image(s, r)) = r
  BY <1>9, ImageUndone
<1>16. PICK g : g = Image(s, p)
  OBVIOUS
<1>17. g \in Positions /\ g[1] \in Corners /\ g[1] = Conj(s, p[1]) /\ Image(t, g) = p
  BY <1>2, <1>9, <1>15, <1>16, ImageType, PositionPairs
<1>18. Conj(t, g[1]) = p[1] /\ ConjEdge[t][g[2]] = p[2]
  BY <1>17, ImageType
<1>19. Rep(g[1]) = p[1]
  BY <1>2, <1>4, <1>9, <1>17, RepOfSymmetric
<1>20. t \in GoalSyms(g[1])
  BY <1>17, <1>18, <1>19, RowsListed DEF GoalSyms
<1>21. SymCoord(g[1]) = target[1]
  <2>1. cornerRep[SymCoord(g[1]) + 1] = p[1] /\ SymCoord(g[1]) \in 0..(nextSymcoord - 1)
    BY <1>17, <1>19, RowsListed
  <2>2. SymCoord(cornerRep[SymCoord(g[1]) + 1]) = SymCoord(g[1])
    BY <2>1, RowsListed
  <2>3. QED
    BY <1>4, <2>1, <2>2
<1>22. target = <<SymCoord(g[1]), ConjEdge[t][g[2]]>>
  BY <1>3, <1>4, <1>18, <1>21
<1>23. g = Turn(v, <<cornerRep[entry[1] + 1], entry[2]>>)
  BY <1>14, <1>16 DEF PositionOf
<1>24. target \in Targets(entry)
  BY <1>20, <1>22, <1>23 DEF Targets
<1>25. QED
  BY <1>11, <1>24

-----------------------------------------------------------------------------
(***************************************************************************)
(* Every pass enters one layer.                                            *)
(***************************************************************************)
GraphInv ==
  /\ IndexInv
  /\ depth \in Nat
  /\ cornerRep = <<>> => depth = 0
  /\ cornerRep # <<>> => /\ Listed
                         /\ DOMAIN reached = 0..depth
                         /\ \A d \in 0..depth : reached[d] = Layer(d)

(* The solved position is the only one at distance zero, and is first in   *)
(* the order of corners.                                                   *)
LEMMA FirstLayer == Listed => CornerRepresentatives # <<>> /\ Layer(0) = {<<0, SolvedEdge>>}
<1> SUFFICES ASSUME Listed PROVE CornerRepresentatives # <<>> /\ Layer(0) = {<<0, SolvedEdge>>}
  OBVIOUS
<1>1. Solved \in Positions /\ Solved[1] = <<0, 0>> /\ Solved[2] = SolvedEdge
  BY Distances DEF Solved
<1>2. <<0, 0>> \in Corners
  BY CornerPairs
<1>3. Rep(<<0, 0>>) = <<0, 0>>
  <2>1. SymOf(<<0, 0>>) \in Syms /\ Rep(<<0, 0>>) = Conj(SymOf(<<0, 0>>), <<0, 0>>)
    BY <1>2, RepProperty DEF Rep
  <2>2. QED
    BY <2>1, EdgeAssumption DEF Conj
<1>4. SymCoord(<<0, 0>>) = 0
  <2>1. nextSymcoord \in Nat /\ SymCoord(<<0, 0>>) \in 0..(nextSymcoord - 1)
    BY <1>2, RowsListed
  <2>2. PICK x \in AtIdentity : SymCoord(x) = 0
    BY <2>1, BuiltIndex DEF Listed
  <2>3. x \in Corners /\ <<0, 0>> \in AtIdentity
    BY <1>2, <1>3, BuiltIndex DEF Listed
  <2>4. x = <<0, 0>> \/ Less(<<0, 0>>, x)
    BY <2>3, CornerPairs DEF Less
  <2>5. Less(<<0, 0>>, x) => SymCoord(<<0, 0>>) < SymCoord(x)
    BY <2>3, BuiltIndex DEF Listed
  <2>6. QED
    BY <2>1, <2>2, <2>4, <2>5
<1>5. CornerRepresentatives # <<>>
  <2>1. Len(CornerRepresentatives) = nextSymcoord /\ nextSymcoord \in Nat
    BY ListOfRepresentatives, RowsListed DEF Listed
  <2>2. nextSymcoord # 0
    BY <1>2, <2>1, RowsListed
  <2>3. QED
    BY <2>1, <2>2
<1>6. cornerRep[1] = <<0, 0>>
  BY <1>2, <1>3, <1>4, RowsListed
<1>7. <<0, SolvedEdge>> \in Layer(0)
  <2>1. 0 \in Syms /\ Conj(0, <<0, 0>>) = Rep(<<0, 0>>)
    BY <1>2, <1>3, CornerPairs, ConjGroup
  <2>2. PICK entry : entry = <<SymCoord(Solved[1]), ConjEdge[0][Solved[2]]>>
    OBVIOUS
  <2>3. entry = <<0, SolvedEdge>>
    BY <1>1, <1>4, <2>1, <2>2, EdgeAssumption
  <2>4. Solved \in Reachable /\ Dist[Solved] = 0
    BY Distances
  <2>5. entry \in Layer(0)
    BY <1>1, <2>1, <2>2, <2>4, EntryInLayer
  <2>6. QED
    BY <2>3, <2>5
<1>8. ASSUME NEW entry \in Layer(0) PROVE entry = <<0, SolvedEdge>>
  <2>1. /\ entry = <<entry[1], entry[2]>> /\ entry[1] \in 0..(nextSymcoord - 1)
        /\ PositionOf(entry) = Solved
    BY Distances DEF Layer, Entries
  <2>2. cornerRep[entry[1] + 1] = <<0, 0>> /\ entry[2] = SolvedEdge
    BY <2>1 DEF PositionOf, Solved
  <2>3. entry[1] = 0
    BY <1>4, <2>1, <2>2, RowsListed
  <2>4. QED
    BY <2>1, <2>2, <2>3
<1>9. QED
  BY <1>5, <1>7, <1>8

(* What the entries of a layer lead to that is in no earlier layer is the  *)
(* next layer.                                                             *)
LEMMA NextLayer ==
  ASSUME Listed, NEW d \in Nat
  PROVE  (UNION {Targets(entry) : entry \in Layer(d)}) \ (UNION {Layer(k) : k \in 0..d}) = Layer(d + 1)
<1>1. ASSUME NEW entry \in Layer(d), NEW target \in Targets(entry),
             \A k \in 0..d : target \notin Layer(k)
      PROVE  target \in Layer(d + 1)
  <2>1. PICK k \in 0..(d + 1) : target \in Layer(k)
    BY TargetsNear
  <2>2. k = d + 1
    BY <1>1, <2>1
  <2>3. QED
    BY <2>1, <2>2
<1>2. ASSUME NEW target \in Layer(d + 1)
      PROVE  /\ \E entry \in Layer(d) : target \in Targets(entry)
             /\ \A k \in 0..d : target \notin Layer(k)
  <2>1. \E entry \in Layer(d) : target \in Targets(entry)
    BY TargetsAll
  <2>2. \A k \in 0..d : target \notin Layer(k)
    BY DEF Layer
  <2>3. QED
    BY <2>1, <2>2
<1>3. QED
  BY <1>1, <1>2

LEMMA GraphInvariant == GraphSpec => []GraphInv
<1>1. GraphInit => GraphInv
  BY InitIndex DEF GraphInit, GraphInv
<1>2. GraphInv /\ [GraphNext]_allVars => GraphInv'
  <2> SUFFICES ASSUME GraphInv, [GraphNext]_allVars PROVE GraphInv'
    OBVIOUS
  <2>0. IndexInv /\ depth \in Nat
    BY DEF GraphInv
  <2>1. ASSUME UNCHANGED <<vars, cornerRep>>
        PROVE  /\ IndexInv' /\ (Listed' <=> Listed)
               /\ \A d : Layer(d)' = Layer(d) 
    <3>1. nextSymcoord' = nextSymcoord /\ phase' = phase /\ CornerRepresentatives' = CornerRepresentatives
      BY <2>1 DEF vars, CornerRepresentatives, AtIdentity, GetSym
    <3>2. [Build]_vars
      BY <2>1
    <3>3. IndexInv'
      BY <2>0, <3>2, NextShape, NextRows DEF IndexInv
    <3>4. \A d : Layer(d)' = Layer(d)
      BY <2>1, <3>1 DEF Layer, Entries, PositionOf
    <3>5. QED
      BY <2>0, <2>1, <3>1, <3>3, <3>4 DEF Listed
  <2>2. CASE BuildIndex
    <3>1. Build /\ UNCHANGED <<cornerRep, depth, reached>>
      BY <2>2 DEF BuildIndex
    <3>2. IndexInv'
      BY <2>0, <3>1, NextShape, NextRows DEF IndexInv
    <3>3. cornerRep = <<>>
      BY <3>1 DEF GraphInv, Listed, Build, NewOrient, FillOffset, CloseOrient
    <3>4. QED
      BY <3>1, <3>2, <3>3 DEF GraphInv
  <2>3. CASE Begin
    <3>1. /\ phase = "built" /\ cornerRep = <<>> /\ cornerRep' = CornerRepresentatives
          /\ reached' = [d \in {0} |-> {<<0, SolvedEdge>>}]
          /\ UNCHANGED <<vars, depth>>
      BY <2>3 DEF Begin
    <3>2. nextSymcoord' = nextSymcoord /\ phase' = phase /\ CornerRepresentatives' = CornerRepresentatives
      <4>1. UNCHANGED <<nextSymcoord, phase, base, osUnique, os>>
        BY <3>1 DEF vars
      <4>2. \A x : GetSym(x)' = GetSym(x)
        BY <4>1 DEF GetSym
      <4>3. AtIdentity' = AtIdentity
        BY <4>2, Zenon DEF AtIdentity
      <4>4. CornerRepresentatives' = CornerRepresentatives
        BY <4>3 DEF CornerRepresentatives
      <4>5. QED
        BY <4>1, <4>4
    <3>3. IndexInv'
      <4>1. [Build]_vars
        BY <3>1
      <4>2. QED
        BY <2>0, <4>1, NextShape, NextRows DEF IndexInv
    <3>4. Listed'
      BY <3>1, <3>2, <3>3 DEF Listed
    <3>5. Layer(0)' = {<<0, SolvedEdge>>}
      <4>1. (Layer(0) = {<<0, SolvedEdge>>})'
        BY <3>4, FirstLayer, PTL
      <4>2. QED
        BY <4>1
    <3>6. depth' = 0
      BY <3>1 DEF GraphInv
    <3>7. DOMAIN reached' = 0..depth' /\ \A d \in 0..depth' : reached'[d] = Layer(d)'
      BY <3>1, <3>5, <3>6
    <3>8. QED
      BY <3>3, <3>4, <3>6, <3>7 DEF GraphInv
  <2>4. CASE Pass
    <3>1. /\ cornerRep # <<>> /\ depth' = depth + 1 /\ UNCHANGED <<vars, cornerRep>>
          /\ reached' = [d \in 0..(depth + 1) |->
                           IF d <= depth THEN reached[d]
                           ELSE (UNION {Targets(entry) : entry \in reached[depth]})
                                  \ (UNION {reached[k] : k \in DOMAIN reached})]
      BY <2>4 DEF Pass
    <3>2. /\ Listed /\ DOMAIN reached = 0..depth
          /\ \A d \in 0..depth : reached[d] = Layer(d)
      BY <3>1 DEF GraphInv
    <3>3. IndexInv' /\ Listed' /\ \A d : Layer(d)' = Layer(d)
      BY <2>1, <3>1, <3>2
    <3>4. \A d \in 0..depth : reached'[d] = Layer(d)
      BY <2>0, <3>1, <3>2
    <3>5. reached'[depth + 1] = Layer(depth + 1)
      <4>1. reached[depth] = Layer(depth)
        BY <2>0, <3>2
      <4>2. {reached[k] : k \in DOMAIN reached} = {Layer(k) : k \in 0..depth}
        BY <3>2
      <4>3. reached'[depth + 1] = (UNION {Targets(entry) : entry \in Layer(depth)})
                                    \ (UNION {Layer(k) : k \in 0..depth})
        BY <2>0, <3>1, <4>1, <4>2, SMTT(30)
      <4>4. QED
        BY <2>0, <3>2, <4>3, NextLayer
    <3>6. DOMAIN reached' = 0..depth' /\ \A d \in 0..depth' : reached'[d] = Layer(d)'
      <4>1. DOMAIN reached' = 0..depth'
        BY <3>1
      <4>2. ASSUME NEW d \in 0..depth' PROVE reached'[d] = Layer(d)
        <5>1. depth' = depth + 1 /\ depth \in Nat
          BY <2>0, <3>1
        <5>2. d \in 0..depth \/ d = depth + 1
          BY <5>1
        <5>3. QED
          BY <3>4, <3>5, <5>2
      <4>3. QED
        BY <3>3, <4>1, <4>2
    <3>7. QED
      BY <2>0, <3>1, <3>3, <3>6 DEF GraphInv
  <2>5. CASE UNCHANGED allVars
    <3>1. UNCHANGED <<vars, cornerRep>> /\ UNCHANGED <<depth, reached>>
      BY <2>5 DEF allVars
    <3>2. QED
      BY <2>0, <2>1, <3>1 DEF GraphInv
  <2>6. QED
    BY <2>2, <2>3, <2>4, <2>5 DEF GraphNext, Generated
<1>3. QED
  BY <1>1, <1>2, PTL DEF GraphSpec

(* The entry that the search reads for a position is entered in the pass   *)
(* that is the distance of the position, and in no other, although only    *)
(* representatives are turned and only some symmetries are gone through.   *)
THEOREM SymmetryReductionExact == GraphSpec => []ReductionExact
<1>1. GraphInv => ReductionExact
  <2> SUFFICES ASSUME GraphInv, cornerRep # <<>>, NEW p \in Reachable, NEW d \in 0..depth
               PROVE  EntryOf(p) \in reached[d] <=> Dist[p] = d
    BY DEF ReductionExact, Reachable
  <2>1. Listed /\ reached[d] = Layer(d)
    BY DEF GraphInv
  <2>2. p \in Positions /\ p[1] \in Corners
    BY Distances, PositionPairs
  <2>3. GetSym(p[1]) \in Syms /\ Conj(GetSym(p[1]), p[1]) = Rep(p[1])
    BY <2>1, <2>2, RowsListed
  <2>4. EntryOf(p) \in Layer(d) <=> p \in Reachable /\ Dist[p] = d
    BY <2>1, <2>2, <2>3, EntryInLayer DEF EntryOf
  <2>5. QED
    BY <2>1, <2>4
<1>2. QED
  BY <1>1, GraphInvariant, PTL

=============================================================================
