-------------------------- MODULE MCSymmetryGraph --------------------------
(***************************************************************************)
(* A puzzle for SymmetryGraph: a square of four corners (0 and 1 above, 2  *)
(* and 3 below) and four edges (0 above, 1 below, 2 left, 3 right).  The   *)
(* corners have three orientations that sum to zero.  Turns exchange the   *)
(* corners of a side: the left and the right side with a twist in either   *)
(* direction, the upper and the lower one without.  The corner combination *)
(* is the places of the two lower corners, the edge coordinate the places  *)
(* of the left and right edges.  The symmetries exchange above with below  *)
(* and left with right; the latter is a reflection, which reverses twists. *)
(***************************************************************************)
EXTENDS SymmetryGraph, SequencesExt

Places == 0..3
FlipUD == [i \in Places |-> (i + 2) % 4]
FlipLR == [i \in Places |-> IF i % 2 = 0 THEN i + 1 ELSE i - 1]

(* Symmetry s exchanges above with below if s >= 2, left with right if odd. *)
CornerAt(s, i) == LET k == IF s >= 2 THEN FlipUD[i] ELSE i
                  IN  IF s % 2 = 1 THEN FlipLR[k] ELSE k
EdgeAt(s, i) == CASE i \in {0, 1} -> IF s >= 2 THEN 1 - i ELSE i
                  [] i \in {2, 3} -> IF s % 2 = 1 THEN 5 - i ELSE i

(* Orientations: the twist of corner 0 follows from the others.            *)
MCTwists == {t \in [Places -> 0..2] : (t[0] + t[1] + t[2] + t[3]) % 3 = 0}
OrientOf(t) == 9 * t[3] + 3 * t[2] + t[1]
TwistOf(o) == CHOOSE t \in MCTwists : OrientOf(t) = o

(* Combinations of two of four places, ranked from the highest bits down.  *)
Ranked == <<{2, 3}, {1, 3}, {0, 3}, {1, 2}, {0, 2}, {0, 1}>>
RankIn(S) == (CHOOSE k \in 1..6 : Ranked[k] = S) - 1

MCConjOrient == [s \in 0..3 |-> [o \in 0..26 |->
  LET t == TwistOf(o)
  IN  OrientOf([i \in Places |-> LET n == t[CornerAt(s, i)]
                                 IN  IF s % 2 = 1 THEN (3 - n) % 3 ELSE n])]]
MCConjComb == [s \in 0..3 |-> [c \in 0..5 |->
  LET lower == Ranked[c + 1]
  IN  RankIn({CornerAt(s, i) : i \in IF s >= 2 THEN Places \ lower ELSE lower})]]
MCConjEdge == [s \in 0..3 |-> [c \in 0..5 |-> RankIn({EdgeAt(s, i) : i \in Ranked[c + 1]})]]

(* A turn: two corner places, the twist of the corner that comes to the    *)
(* second one (the other gets its opposite), and two edge places.          *)
TurnTable == <<<<0, 2, 1, 2, 0>>, <<0, 2, 2, 2, 1>>, <<1, 3, 2, 3, 0>>, <<1, 3, 1, 3, 1>>,
               <<0, 1, 0, 2, 3>>, <<2, 3, 0, 2, 3>>>>
MCTurns == 1..6
Exchange(i, a, b) == CASE i = a -> b [] i = b -> a [] OTHER -> i

MCMoveOrient == [m \in MCTurns |-> [o \in 0..26 |->
  LET t == TwistOf(o)
      a == TurnTable[m][1]
      b == TurnTable[m][2]
      twist == (a :> 3 - TurnTable[m][3] @@ b :> TurnTable[m][3] @@ [i \in Places |-> 0])
  IN  OrientOf([i \in Places |-> (t[Exchange(i, a, b)] + twist[i]) % 3])]]
MCMoveComb == [m \in MCTurns |-> [c \in 0..5 |->
  RankIn({Exchange(i, TurnTable[m][1], TurnTable[m][2]) : i \in Ranked[c + 1]})]]
MCMoveEdge == [m \in MCTurns |-> [c \in 0..5 |->
  RankIn({Exchange(i, TurnTable[m][4], TurnTable[m][5]) : i \in Ranked[c + 1]})]]

(* Distances found by spreading from the solved position.                  *)
MCTurn(m, p) == <<<<MCMoveOrient[m][p[1][1]], MCMoveComb[m][p[1][2]]>>, MCMoveEdge[m][p[2]]>>
Spread(dist, n) ==
  dist @@ [p \in {MCTurn(m, q) : m \in MCTurns, q \in {q \in DOMAIN dist : dist[q] = n - 1}} |-> n]
MCDist == FoldLeft(Spread, <<<<0, 0>>, 0>> :> 0, <<1, 2, 3, 4, 5, 6, 7, 8>>)

=============================================================================
