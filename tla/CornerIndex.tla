---------------------------- MODULE CornerIndex ----------------------------
(***************************************************************************)
(* The index of the rows of a pruning table: the constructor of            *)
(* prune_base, getCornerRepresentatives (src/src/nxprune.cpp), sym_coord,  *)
(* get_sym and ccoord::rep (src/src/nxprune.h).                            *)
(*                                                                         *)
(* The corners of a cube have two coordinates, an orientation and a        *)
(* combination (which corners belong to the D layer).  Sixteen symmetries  *)
(* act on both, and symmetric corners share a row.  The row is the sum of  *)
(* a base, one per orientation, and an offset, found in an array over the  *)
(* combinations; equal arrays are stored once.  Next to the offset the     *)
(* array has the symmetry that leads to the representative, the symmetric  *)
(* position of least coordinate.                                           *)
(*                                                                         *)
(* What a symmetry does to a coordinate is a parameter.                    *)
(***************************************************************************)
EXTENDS Integers, Sequences, FiniteSets

CONSTANTS
  N_CORIENT,     (* number of corner orientations                          *)
  N_C4COMB,      (* number of corner combinations                          *)
  N_SYM,         (* number of symmetries, 16 in the code                   *)
  ConjOrient,    (* ConjOrient[s][o]: orientation o under symmetry s       *)
  ConjComb,      (* ConjComb[s][c]: combination c under symmetry s         *)
  Garbage        (* what an offset_sym_t may hold before it is written     *)

Orients == 0 .. N_CORIENT - 1
Combs   == 0 .. N_C4COMB - 1
Syms    == 0 .. N_SYM - 1
Corners == Orients \X Combs

Conj(s, x) == <<ConjOrient[s][x[1]], ConjComb[s][x[2]]>>
Orbit == [x \in Corners |-> {Conj(s, x) : s \in Syms}]

MaxBase == 65535  (* a base is a uint16_t                                  *)

(* The symmetries form a group with the identity as number 0; base and     *)
(* offset have 16 and 8 bits, enough for N_CORNER_SYM rows.                *)
ASSUME SizeAssumption ==
  /\ N_CORIENT \in Nat \ {0} /\ N_C4COMB \in 1..256 /\ N_SYM \in 1..256
  /\ Cardinality({Orbit[x] : x \in Corners}) <= MaxBase
  /\ Garbage \subseteq 0..255 /\ Garbage # {}
ASSUME SymmetryAssumption ==
  LET orient == ConjOrient
      comb   == ConjComb
  IN  /\ orient \in [Syms -> [Orients -> Orients]]
      /\ comb \in [Syms -> [Combs -> Combs]]
      /\ \A o \in Orients : orient[0][o] = o
      /\ \A c \in Combs : comb[0][c] = c
      /\ \A s, t \in Syms : \E u \in Syms :
           /\ \A o \in Orients : orient[t][orient[s][o]] = orient[u][o]
           /\ \A c \in Combs : comb[t][comb[s][c]] = comb[u][c]
      /\ \A s \in Syms : \E t \in Syms :
           /\ \A o \in Orients : orient[t][orient[s][o]] = o
           /\ \A c \in Combs : comb[t][comb[s][c]] = c

-----------------------------------------------------------------------------
(* ccoord: the raw orientation and the combination in one number; the      *)
(* orientation is the high part.  Raw and packed orientations are ordered  *)
(* alike, both are read from the last corner down.                         *)
Less(x, y) == x[1] < y[1] \/ (x[1] = y[1] /\ x[2] < y[2])

(* Defect: the last of several symmetries that lead to the representative. *)
MutSymOf(x) ==
  CHOOSE s \in Syms :
    \A t \in Syms \ {s} : Less(Conj(s, x), Conj(t, x))
                            \/ (Conj(s, x) = Conj(t, x) /\ t < s)

(* ccoord::rep: the first symmetry that leads to the least coordinate, and *)
(* the position it leads to.                                               *)
SymOf(x) ==
  CHOOSE s \in Syms :
    \A t \in Syms \ {s} : Less(Conj(s, x), Conj(t, x))
                            \/ (Conj(s, x) = Conj(t, x) /\ s < t)
Rep(x) == Conj(SymOf(x), x)

VARIABLES
  phase,        (* "orient", "comb" or "built"                             *)
  corient,      (* the orientation of the outer loop                       *)
  c4comb,       (* the combination of the inner loop                       *)
  nextSymcoord, (* next_symcoord, the first row that is not given          *)
  offset,       (* rows given in this orientation                          *)
  base,         (* index[o].base                                           *)
  osTmp,        (* os_tmp, the array being filled; it is not cleared       *)
  osUnique,     (* os_unique, the different arrays                         *)
  os            (* index[o].os as a position in osUnique, 0 before         *)

vars == <<phase, corient, c4comb, nextSymcoord, offset, base, osTmp, osUnique, os>>

Init ==
  /\ phase = "orient"
  /\ corient = 0
  /\ c4comb = 0
  /\ nextSymcoord = 0
  /\ offset = 0
  /\ base = [o \in Orients |-> 0]
  /\ \E g \in Garbage : osTmp = [c \in Combs |-> [offset |-> g, sym |-> g % N_SYM]]
  /\ osUnique = <<>>
  /\ os = [o \in Orients |-> 0]

(* The representative of an orientation, found with the combination of the *)
(* solved cube.                                                            *)
OrientRep == Rep(<<corient, 0>>)[1]

(* Defect: offset is declared outside of the loop.                         *)
MutNewOrient ==
  /\ phase = "orient"
  /\ phase' = "comb"
  /\ c4comb' = 0
  /\ base' = [base EXCEPT ![corient] =
                IF OrientRep = corient THEN nextSymcoord ELSE base[OrientRep]]
  /\ UNCHANGED <<corient, nextSymcoord, offset, osTmp, osUnique, os>>

(* Top of the outer loop: a new base, or that of the representative.       *)
NewOrient ==
  /\ phase = "orient"
  /\ phase' = "comb"
  /\ c4comb' = 0
  /\ offset' = 0
  /\ base' = [base EXCEPT ![corient] =
                IF OrientRep = corient THEN nextSymcoord ELSE base[OrientRep]]
  /\ UNCHANGED <<corient, nextSymcoord, osTmp, osUnique, os>>

(* Defect: an offset of the array in the making whatever the orientation.  *)
MutOffsetFor(c) ==
  LET c_s == Rep(<<corient, c>>)[2]
  IN  IF c # c_s THEN osTmp[c_s].offset ELSE offset

(* The offset of a combination: that of the representative, in the array   *)
(* of its orientation or in this one, or a new one.                        *)
OffsetFor(c) ==
  LET c_s == Rep(<<corient, c>>)[2]
  IN  IF OrientRep # corient THEN osUnique[os[OrientRep]][c_s].offset
      ELSE IF c # c_s THEN osTmp[c_s].offset
      ELSE offset

(* One turn of the inner loop.                                             *)
FillOffset ==
  /\ phase = "comb"
  /\ c4comb < N_C4COMB
  /\ osTmp' = [osTmp EXCEPT ![c4comb] =
                 [offset |-> OffsetFor(c4comb), sym |-> SymOf(<<corient, c4comb>>)]]
  /\ offset' = IF Rep(<<corient, c4comb>>) = <<corient, c4comb>> THEN offset + 1 ELSE offset
  /\ c4comb' = c4comb + 1
  /\ UNCHANGED <<phase, corient, nextSymcoord, base, osUnique, os>>

(* operator == of offset_sym_t, for a whole array.                         *)
SameArray(a, b) == \A c \in Combs : a[c].offset = b[c].offset /\ a[c].sym = b[c].sym

(* End of the outer loop: the array is found among the others or added.    *)
CloseOrient ==
  /\ phase = "comb"
  /\ c4comb = N_C4COMB
  /\ nextSymcoord' = nextSymcoord + offset
  /\ LET known == {k \in DOMAIN osUnique : SameArray(osUnique[k], osTmp)}
     IN  IF known = {}
         THEN /\ osUnique' = Append(osUnique, osTmp)
              /\ os' = [os EXCEPT ![corient] = Len(osUnique) + 1]
         ELSE /\ os' = [os EXCEPT ![corient] = CHOOSE k \in known : \A l \in known : k <= l]
              /\ UNCHANGED osUnique
  /\ corient' = corient + 1
  /\ phase' = IF corient + 1 = N_CORIENT THEN "built" ELSE "orient"
  /\ UNCHANGED <<c4comb, offset, base, osTmp>>

Build == NewOrient \/ FillOffset \/ CloseOrient

Spec == Init /\ [][Build]_vars

-----------------------------------------------------------------------------
(* sym_coord and get_sym: the row of a corner position and the symmetry    *)
(* that leads to the representative of the row.                            *)
SymCoord(x) == base[x[1]] + osUnique[os[x[1]]][x[2]].offset
GetSym(x)   == osUnique[os[x[1]]][x[2]].sym

(* getCornerRepresentatives: the positions whose symmetry is the identity, *)
(* in the order of the two loops, by orientation and then by combination.  *)
(* The generator takes the k-th of them as the position of row k - 1.      *)
AtIdentity == {x \in Corners : GetSym(x) = 0}
CornerRepresentatives ==
  [k \in 1..Cardinality(AtIdentity) |->
     CHOOSE x \in AtIdentity : Cardinality({y \in AtIdentity : Less(y, x)}) = k - 1]

-----------------------------------------------------------------------------
TypeOK ==
  /\ phase \in {"orient", "comb", "built"}
  /\ corient \in 0..N_CORIENT
  /\ c4comb \in 0..N_C4COMB
  /\ nextSymcoord \in 0..MaxBase
  /\ offset \in 0..N_C4COMB
  /\ base \in [Orients -> 0..MaxBase]
  /\ osTmp \in [Combs -> [offset : 0..255, sym : Syms]]
  /\ osUnique \in Seq([Combs -> [offset : 0..255, sym : Syms]])
  /\ os \in [Orients -> 0..Len(osUnique)]

(* The positions that have a row so far, and their rows.                   *)
Indexed == {x \in Corners : x[1] < corient
                              \/ (phase = "comb" /\ x[1] = corient /\ x[2] < c4comb)}
Row == [x \in Indexed |-> IF x[1] < corient THEN SymCoord(x)
                          ELSE base[corient] + osTmp[x[2]].offset]

(* The constructor numbers the orbits: at every point of the two loops a   *)
(* position has the row of its orbit, and a new orbit gets the next row,   *)
(* however the offsets of an orientation are taken over from another.      *)
Numbering == INSTANCE OrbitNumbering WITH row <- Row
OrbitsNumbered == Numbering!Spec

(* The list of representatives has one position per row, in the order of   *)
(* the rows, so that the generator, which numbers rows by their place in   *)
(* the list, and the search, which takes sym_coord, mean the same rows;    *)
(* and the symmetry stored for a position leads to that of its row.        *)
IndexConsistent ==
  phase = "built" =>
    LET reps == CornerRepresentatives
    IN  /\ Len(reps) = nextSymcoord
        /\ \A k \in DOMAIN reps : SymCoord(reps[k]) = k - 1
        /\ \A x \in Corners : Conj(GetSym(x), x) = reps[SymCoord(x) + 1]

=============================================================================
