--------------------------- MODULE SymmetryGraph ---------------------------
(***************************************************************************)
(* The graph that the generator explores (getNeighbors and the worker of   *)
(* prune_generator::generate, src/src/nxprune_generator.h), on top of the  *)
(* index of the rows.                                                      *)
(*                                                                         *)
(* An entry of the table is a row and an edge coordinate.  The corners of  *)
(* a row are those of its representative, and a turn leads from there to   *)
(* corners whose representative is reached by a symmetry, which is applied *)
(* to the edges as well.  Where several symmetries lead to the goal the    *)
(* edges have several coordinates, and all of them are entered.  Threads,  *)
(* and the order within a pass, are those of PruneGenerator, whose Rows,   *)
(* Moves, Image and Dist are made here.                                    *)
(***************************************************************************)
EXTENDS CornerIndex

CONSTANTS
  Turns,       (* the turns of a face                                      *)
  MoveOrient,  (* MoveOrient[m][o]: orientation o followed by turn m       *)
  MoveComb,    (* MoveComb[m][c]: combination c followed by turn m         *)
  Edges,       (* edge coordinates                                         *)
  MoveEdge,    (* MoveEdge[m][e]: edge coordinate e followed by turn m     *)
  ConjEdge,    (* ConjEdge[s][e]: edge coordinate e under symmetry s       *)
  SolvedEdge,  (* the edge coordinate of the solved cube                   *)
  Dist,        (* Dist[<<x, e>>]: least number of turns to corners x and   *)
               (* edges e, for all that can be reached                     *)
  DEPTHS       (* number of passes, BASE + 2 in the code                   *)

Solved == <<<<0, 0>>, SolvedEdge>>
Turn(m, p) == <<<<MoveOrient[m][p[1][1]], MoveComb[m][p[1][2]]>>, MoveEdge[m][p[2]]>>

(* Dist is the distance in the graph of the turns.                         *)
ASSUME DistAssumption ==
  LET dist   == Dist
      orient == MoveOrient
      comb   == MoveComb
      edge   == MoveEdge
      turn(m, p) == <<<<orient[m][p[1][1]], comb[m][p[1][2]]>>, edge[m][p[2]]>>
  IN  /\ DOMAIN dist \subseteq Corners \X Edges
      /\ Solved \in DOMAIN dist
      /\ \A p \in DOMAIN dist :
           /\ dist[p] \in Nat /\ (dist[p] = 0 <=> p = Solved)
           /\ \A m \in Turns : turn(m, p) \in DOMAIN dist /\ dist[turn(m, p)] <= dist[p] + 1
           /\ p # Solved => \E m \in Turns : dist[turn(m, p)] = dist[p] - 1

(* Every turn can be undone, and a symmetry takes it to a turn.            *)
ASSUME TurnAssumption ==
  LET orient == MoveOrient
      comb   == MoveComb
      edge   == MoveEdge
      conjOrient == ConjOrient
      conjComb   == ConjComb
      conjEdge   == ConjEdge
  IN  /\ \A m \in Turns : \E n \in Turns :
           /\ \A o \in Orients : orient[n][orient[m][o]] = o
           /\ \A c \in Combs   : comb[n][comb[m][c]] = c
           /\ \A e \in Edges   : edge[n][edge[m][e]] = e
      /\ \A s \in Syms, m \in Turns : \E n \in Turns :
           /\ \A o \in Orients : orient[n][conjOrient[s][o]] = conjOrient[s][orient[m][o]]
           /\ \A c \in Combs   : comb[n][conjComb[s][c]] = conjComb[s][comb[m][c]]
           /\ \A e \in Edges   : edge[n][conjEdge[s][e]] = conjEdge[s][edge[m][e]]

(* The symmetries act on the edges as they do on the corners, and leave    *)
(* the solved cube as it is.                                               *)
ASSUME EdgeAssumption ==
  LET orient == ConjOrient
      comb   == ConjComb
      edge   == ConjEdge
  IN  /\ edge \in [Syms -> [Edges -> Edges]]
      /\ \A s \in Syms : \E t \in Syms :
           /\ \A o \in Orients : orient[t][orient[s][o]] = o
           /\ \A c \in Combs   : comb[t][comb[s][c]] = c
           /\ \A e \in Edges   : edge[t][edge[s][e]] = e
      /\ \A s \in Syms : orient[s][0] = 0 /\ comb[s][0] = 0 /\ edge[s][SolvedEdge] = SolvedEdge

VARIABLES
  cornerRep,  (* corner_rep: the corners of row r are cornerRep[r + 1]     *)
  depth,      (* passes done                                               *)
  reached     (* reached[d]: the entries <<row, edge coordinate>> of depth d *)

allVars == <<vars, cornerRep, depth, reached>>

-----------------------------------------------------------------------------
(* Defect: only the symmetry that the index stores.                        *)
MutGoalSyms(x) == {GetSym(x)}

(* The self-symmetries of the goal: all that lead where get_sym leads.     *)
GoalSyms(x) == {s \in Syms : Conj(s, x) = Conj(GetSym(x), x)}

(* getNeighbors and generateCornerPair: what an entry of the frontier      *)
(* leads to.  Each turn from a representative is in "moves" or "moves_inv" *)
(* of the pair of the two rows, and is gone through once.                  *)
Targets(entry) ==
  UNION {LET q == Turn(m, <<cornerRep[entry[1] + 1], entry[2]>>)
         IN  {<<SymCoord(q[1]), ConjEdge[s][q[2]]>> : s \in GoalSyms(q[1])} : m \in Turns}

(* prefetch: the entry the search reads for a position.                    *)
EntryOf(p) == <<SymCoord(p[1]), ConjEdge[GetSym(p[1])][p[2]]>>

-----------------------------------------------------------------------------
GraphInit ==
  /\ Init
  /\ cornerRep = <<>>
  /\ depth = 0
  /\ reached = [d \in {0} |-> {}]

(* The constructor of the table comes first.                               *)
BuildIndex == Build /\ UNCHANGED <<cornerRep, depth, reached>>

(* generate: the representatives are listed, the identity gets depth 0.    *)
Begin ==
  /\ phase = "built"
  /\ cornerRep = <<>>
  /\ cornerRep' = CornerRepresentatives
  /\ reached' = [d \in {0} |-> {<<0, SolvedEdge>>}]
  /\ UNCHANGED <<vars, depth>>

(* A pass: the entries not reached before that the last layer leads to.    *)
Pass ==
  /\ cornerRep # <<>>
  /\ depth < DEPTHS
  /\ LET before == UNION {reached[d] : d \in DOMAIN reached}
     IN  reached' = [d \in 0..(depth + 1) |->
                       IF d <= depth THEN reached[d]
                       ELSE (UNION {Targets(entry) : entry \in reached[depth]}) \ before]
  /\ depth' = depth + 1
  /\ UNCHANGED <<vars, cornerRep>>

Generated == depth = DEPTHS /\ UNCHANGED allVars

GraphNext == BuildIndex \/ Begin \/ Pass \/ Generated

GraphSpec == GraphInit /\ [][GraphNext]_allVars

-----------------------------------------------------------------------------
(* The reduction by symmetry is exact: for every position, not only for    *)
(* those whose corners are a representative, the entry that the search     *)
(* will read is reached in the pass that is its distance.  Entries that    *)
(* are symmetric to each other in one row must all be entered, or the one  *)
(* that is read later would be reached too late or never.                  *)
ReductionExact ==
  cornerRep # <<>> =>
    LET dist == Dist
    IN  \A p \in DOMAIN dist :
          LET entry == EntryOf(p)
          IN  \A d \in 0..depth : entry \in reached[d] <=> dist[p] = d

=============================================================================
