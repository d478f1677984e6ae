------------------------------ MODULE EdgeScan ------------------------------
(***************************************************************************)
(* The bits of a pruning table during its generation: generateCornerPair,  *)
(* zero_visited and the constants of a pass (src/src/nxprune_generator.h), *)
(* on the layout of EdgeCoordinate.                                        *)
(*                                                                         *)
(* A stripe is 16 bytes, seen as 64 fields of two bits; field k is at bits *)
(* 2 * (k % 4) of byte k / 4.  Fields 0 and 1 together are the minimum of  *)
(* the stripe, and the others are entries.  The table has one row here,    *)
(* which is its own neighbour: pairs of rows and threads are in            *)
(* PruneGenerator, whose entries and stripe minima are made of these bits. *)
(***************************************************************************)
EXTENDS EdgeCoordinate, FiniteSets

CONSTANTS
  BASE,    (* base value of the table                                      *)
  Moves,   (* turns, with the symmetry that follows, as numbers            *)
  Image,   (* Image[m][c]: configuration c after m                         *)
  Dist     (* Dist[c]: least number of turns from the identity to c        *)

ASSUME BaseAssumption == BASE \in 1..12 /\ Moves \subseteq Nat /\ Moves # {}
(* Dist is the distance in the graph of the turns, each of which can be     *)
(* undone.                                                                 *)
ASSUME ImageAssumption ==
  LET image == Image
      dist  == Dist
  IN  /\ image \in [Moves -> [Config -> Config]]
      /\ dist \in [Config -> Nat]
      /\ \A c \in Config : dist[c] = 0 <=> c = Identity
      /\ \A m \in Moves, c \in Config : dist[image[m][c]] <= dist[c] + 1
      /\ \A m \in Moves, c \in Config : \E n \in Moves : image[n][image[m][c]] = c
      /\ \A c \in Config \ {Identity} : \E m \in Moves : dist[image[m][c]] = dist[c] - 1

Fields == 0..63
Stripes == 0 .. N_EDGE_STRIPE - 1

(* Exclusive or of two fields.                                             *)
Xor(a, b) == ((a + b) % 2) + 2 * ((a \div 2 + b \div 2) % 2)

VARIABLES
  depth,   (* the depth of the pass                                        *)
  mem,     (* mem[s][k]: field k of stripe s                               *)
  found,   (* number of entries reached                                    *)
  move,    (* the turn whose loop over the stripes runs, -1 between passes *)
  stripe,  (* stripe_idx                                                   *)
  bits     (* bits: frontier entries of this stripe that are left          *)

vars == <<depth, mem, found, move, stripe, bits>>

-----------------------------------------------------------------------------
(* The constants of a pass: values in the frontier are mod3, and unvisited *)
(* entries and minima, all ones, become what they are to be by an xor.     *)
Mod3(d)        == IF d < BASE THEN d % 3 ELSE d - BASE
Mod3NextXor(d) == Xor((Mod3(d) + 1) % 3, 3)
Mod3Mask(d)    == 3 - Mod3(d)
DepthXor(d)    == <<Xor((d + 1) % 4, 3), Xor((d + 1) \div 4, 3)>>

StripeMin(s) == mem[s][0] + 4 * mem[s][1]
Field(coord) == mem[coord \div 64][coord % 64]

(* prefetch_t::fetch.                                                      *)
Fetch(coord) == IF Field(coord) # 0 THEN BASE + Field(coord) ELSE StripeMin(coord \div 64)

(* Defect: all fields are zeroed, those of the minimum too.                *)
MutZeroVisited(v) == [k \in Fields |-> IF v[k] = 3 THEN 3 ELSE 0]

(* zero_visited, for a stripe.                                             *)
ZeroVisited(v) == [k \in Fields |-> IF v[k] = 3 \/ k < 2 THEN v[k] ELSE 0]

(* Defect: the minimum is searched like an entry.                          *)
MutScanMask(s) == Fields

(* The entries of a stripe; the last of eight has one less.                *)
ScanMask(s) == IF Low(s * 64) = 448 THEN 2..62 ELSE 2..63

(* The frontier entries of a stripe, none in an untouched one.             *)
Bits(s) ==
  IF StripeMin(s) = 15 THEN {}
  ELSE {k \in ScanMask(s) : Xor(mem[s][k], Mod3Mask(depth)) = 3}

(* The first stripe, from a given one on, with frontier entries, or the    *)
(* end.                                                                    *)
Stop(from) ==
  IF \A s \in Stripes : s >= from => Bits(s) = {} THEN N_EDGE_STRIPE
  ELSE CHOOSE s \in Stripes : /\ s >= from /\ Bits(s) # {}
                              /\ \A r \in Stripes : r >= from /\ Bits(r) # {} => s <= r

FirstBit == CHOOSE k \in bits : \A l \in bits : k <= l

(* The configuration at an entry of the scan.                              *)
Scanned(k) == LET coord == stripe * 64
              IN  RepOf(High(coord), Low(coord) + k, Eo(coord))

-----------------------------------------------------------------------------
(* All ones, and the first byte is 0xc0: the identity has depth 0.         *)
Init ==
  /\ depth = 0
  /\ mem = [s \in Stripes |-> [k \in Fields |-> IF s = 0 /\ k \in 0..2 THEN 0 ELSE 3]]
  /\ found = 1
  /\ move = -1
  /\ stripe = 0
  /\ bits = {}

(* Defect: one pass too many.                                              *)
MutBeginPass ==
  /\ move = -1
  /\ depth <= BASE + 2
  /\ move' = CHOOSE m \in Moves : \A n \in Moves : m <= n
  /\ mem' = IF depth = BASE THEN [s \in Stripes |-> ZeroVisited(mem[s])] ELSE mem
  /\ stripe' = -1
  /\ UNCHANGED <<depth, found, bits>>

(* Top of the depth loop.                                                  *)
BeginPass ==
  /\ move = -1
  /\ depth <= BASE + 1
  /\ mem' = IF depth = BASE THEN [s \in Stripes |-> ZeroVisited(mem[s])] ELSE mem
  /\ move' = CHOOSE m \in Moves : \A n \in Moves : m <= n
  /\ stripe' = -1
  /\ UNCHANGED <<depth, found, bits>>

(* generateCornerPair, the loop over the stripes up to the next one with   *)
(* frontier entries.                                                       *)
NextStripe ==
  /\ move # -1
  /\ bits = {}
  /\ stripe < N_EDGE_STRIPE
  /\ stripe' = Stop(stripe + 1)
  /\ bits' = IF stripe' = N_EDGE_STRIPE THEN {} ELSE Bits(stripe')
  /\ UNCHANGED <<depth, mem, found, move>>

(* The loop over the bits: a frontier entry is turned, and the entry it    *)
(* leads to gets the next value, its stripe a minimum, unless they have it. *)
NextBit ==
  /\ bits # {}
  /\ bits' = bits \ {FirstBit}
  /\ LET coord == Coord(Image[move][Scanned(FirstBit)])
         s == coord \div 64
         k == coord % 64
     IN  IF mem[s][k] = 3
         THEN /\ mem' = [mem EXCEPT ![s] = [l \in Fields |->
                   CASE l = k -> Xor(@[k], Mod3NextXor(depth))
                     [] l \in {0, 1} /\ StripeMin(s) = 15 -> Xor(@[l], DepthXor(depth)[l + 1])
                     [] OTHER -> @[l]]]
              /\ found' = found + 1
         ELSE UNCHANGED <<mem, found>>
  /\ UNCHANGED <<depth, move, stripe>>

(* The turns are gone through one after the other, then the pass ends.     *)
NextMove ==
  /\ move # -1
  /\ stripe = N_EDGE_STRIPE
  /\ LET left == {m \in Moves : m > move}
     IN  IF left # {}
         THEN /\ move' = CHOOSE m \in left : \A n \in left : m <= n
              /\ stripe' = -1
              /\ UNCHANGED depth
         ELSE /\ move' = -1
              /\ stripe' = 0
              /\ depth' = depth + 1
  /\ UNCHANGED <<mem, found, bits>>

Generated == move = -1 /\ depth = BASE + 2 /\ UNCHANGED vars

Next == BeginPass \/ NextStripe \/ NextBit \/ NextMove \/ Generated

Spec == Init /\ [][Next]_vars

-----------------------------------------------------------------------------
TypeOK ==
  /\ depth \in 0..(BASE + 2)
  /\ mem \in [Stripes -> [Fields -> 0..3]]
  /\ found \in Nat
  /\ move \in Moves \union {-1}
  /\ stripe \in -1..N_EDGE_STRIPE
  /\ bits \subseteq Fields

(* decode inverts the coordinate: the configuration that is made for an    *)
(* entry of the scan is one that belongs to this entry.                    *)
ScanFaithful == \A k \in bits : Coord(Scanned(k)) = stripe * 64 + k

(* At every moment the entry of a configuration has the value that its     *)
(* distance calls for: entries nearer than the frontier keep theirs, those *)
(* of the next layer get theirs in the course of the pass, all others are  *)
(* unvisited.  Gaps, masks and xors neither lose an entry nor let a field  *)
(* of a minimum be taken for one: found counts the entries, and fields     *)
(* that belong to no configuration stay all ones.                          *)
Zeroed == depth > BASE \/ (depth = BASE /\ move # -1)
ValueOf(n) == IF ~Zeroed THEN n % 3 ELSE IF n <= BASE THEN 0 ELSE n - BASE
Used == {Coord(c) : c \in Config}
Visited == {coord \in Used : Field(coord) # 3}
Layer == LET dist == Dist
         IN  [n \in 0..(BASE + 2) |-> {Coord(c) : c \in {b \in Config : dist[b] = n}}]
EntriesEncodeDistance ==
  LET used    == Used
      visited == Visited
      beyond  == visited \ UNION {Layer[n] : n \in 0..depth}
  IN  /\ \A n \in 0..depth : \A coord \in Layer[n] : Field(coord) = ValueOf(n)
      /\ beyond # {} => move # -1
      /\ \A coord \in beyond : coord \in Layer[depth + 1] /\ Field(coord) = ValueOf(depth + 1)
      /\ \A s \in Stripes, k \in 2..63 : s * 64 + k \notin used => mem[s][k] = 3
      /\ found = Cardinality(visited)

(* The value that the search will fetch for a configuration: the least     *)
(* distance in its stripe up to BASE, the distance itself for BASE + 1 and *)
(* BASE + 2, and BASE + 3 beyond, so never more than the distance.         *)
Least(S) == CHOOSE n \in S : \A k \in S : n <= k
ValuesEncodeDistance ==
  depth = BASE + 2 =>
    LET dist  == Dist
        least == [s \in Stripes |-> Least({dist[c] : c \in {b \in Config : Coord(b) \div 64 = s}})]
    IN  \A c \in Config :
          Fetch(Coord(c)) = IF dist[c] <= BASE THEN least[Coord(c) \div 64]
                            ELSE IF dist[c] <= BASE + 2 THEN dist[c] ELSE BASE + 3

=============================================================================
