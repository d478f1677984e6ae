------------------------ MODULE OptimalSearchProofs ------------------------
(***************************************************************************)
(* Theorems about OptimalSearch, for every puzzle, pruning table, base     *)
(* depth and limit that the assumptions admit: what the search answers     *)
(* solves the cube, and if a mask that lookup leaves unset is empty, no    *)
(* shorter solution exists and none within the limit is missed.            *)
(***************************************************************************)
EXTENDS OptimalSearch, FiniteSetTheorems, WellFoundedInduction, TLAPS

(* A set of natural numbers that is not empty has a least element.         *)
LEMMA LeastNatural ==
  ASSUME NEW S \in SUBSET Nat, S # {}
  PROVE  \E n \in S : \A m \in S : n <= m
<1>1. PICK n \in S : \A m \in S : ~(<<m, n>> \in OpToRel(<, Nat))
  BY NatLessThanWellFounded, WFMin
<1>2. \A m \in S : ~(m < n)
  BY <1>1, Zenon DEF OpToRel
<1>3. QED
  BY <1>2

(* Induction up to a bound, over a set instead of a predicate.             *)
LEMMA InductionUpTo ==
  ASSUME NEW N \in Nat, NEW T, 0 \in T,
         \A n \in 0..N : n # N /\ n \in T => n + 1 \in T
  PROVE  \A n \in 0..N : n \in T
<1> DEFINE missing == {n \in 0..N : n \notin T}
<1> SUFFICES ASSUME missing # {} PROVE FALSE
  OBVIOUS
<1>1. PICK k \in missing : \A m \in missing : k <= m
  <2>1. missing \in SUBSET Nat
    OBVIOUS
  <2> HIDE DEF missing
  <2> QED
    BY <2>1, LeastNatural
<1>2. k \in 0..N /\ k \notin T /\ k # 0
  OBVIOUS
<1>3. k - 1 \in 0..N /\ k - 1 # N /\ (k - 1) + 1 = k
  BY <1>2
<1>4. k - 1 \in T
  BY <1>1, <1>3
<1> QED
  BY <1>2, <1>3, <1>4

(* Every step of an iteration has a value: a function defined by recursion *)
(* over an interval exists.                                                *)
Steps(S, N, step) == step \in [1..N -> [S -> S]]
Iteration(f, S, base, N, step) ==
  f \in [0..N -> S] /\ f[0] = base /\ \A i \in 1..N : f[i] = step[i][f[i - 1]]

LEMMA IterationExists ==
  ASSUME NEW S, NEW base \in S, NEW N \in Nat, NEW step, Steps(S, N, step)
  PROVE  \E f : Iteration(f, S, base, N, step)
<1>0. step \in [1..N -> [S -> S]]
  BY DEF Steps
<1> DEFINE Iterates(f, n) == f[0] = base /\ \A i \in 1..n : f[i] = step[i][f[i - 1]]
           T == {n \in 0..N : \E f \in [0..n -> S] : Iterates(f, n)}
<1>1. 0 \in T
  <2> DEFINE f == [i \in 0..0 |-> base]
  <2>1. f \in [0..0 -> S] /\ Iterates(f, 0) /\ 0 \in 0..N
    OBVIOUS
  <2> HIDE DEF f, Iterates
  <2> QED
    BY <2>1
<1>2. ASSUME NEW n \in 0..N, n # N, n \in T PROVE n + 1 \in T
  <2>1. PICK f \in [0..n -> S] : Iterates(f, n)
    BY <1>2
  <2> DEFINE g == [i \in 0..(n + 1) |-> IF i = n + 1 THEN step[n + 1][f[n]] ELSE f[i]]
  <2>2. step[n + 1] \in [S -> S] /\ f[n] \in S
    BY <1>0, <1>2
  <2>3. g \in [0..(n + 1) -> S]
    BY <2>2
  <2>4. Iterates(g, n + 1)
    <3>1. g[0] = base
      BY <2>1
    <3>2. ASSUME NEW i \in 1..(n + 1) PROVE g[i] = step[i][g[i - 1]]
      <4>1. CASE i = n + 1
        BY <4>1
      <4>2. CASE i # n + 1
        BY <4>2, <2>1
      <4> QED
        BY <4>1, <4>2
    <3> QED
      BY <3>1, <3>2
  <2>5. n + 1 \in 0..N
    BY <1>2
  <2> HIDE DEF g, Iterates
  <2> QED
    BY <2>3, <2>4, <2>5
<1>3. \A n \in 0..N : n \in T
  <2> HIDE DEF T
  <2> QED
    BY <1>1, <1>2, InductionUpTo
<1>4. N \in T
  BY <1>3
<1> QED
  BY <1>4 DEF Iteration

-----------------------------------------------------------------------------
(***************************************************************************)
(* The puzzle.  Both ends of a position are alike: what holds of appended  *)
(* turns M and prepended turns R holds with M and R exchanged.             *)
(***************************************************************************)
Side(M, R) ==
  /\ M \in [Turns -> [Pos -> Pos]]
  /\ R \in [Turns -> [Pos -> Pos]]
  /\ \A m, n \in Turns, p \in Pos : M[m][R[n][p]] = R[n][M[m][p]]
  /\ \A m \in Turns, p \in Pos : M[m][p] = Solved <=> R[m][p] = Solved
  /\ \A m \in Turns, p \in Pos : Dist[p] <= Dist[M[m][p]] + 1 /\ Dist[M[m][p]] <= Dist[p] + 1
  /\ \A p \in Pos \ {Solved} : \E m \in Turns : Dist[M[m][p]] = Dist[p] - 1
  /\ \A m, n \in Turns, p \in Pos : Face(m) = Face(n) =>
       /\ M[n][M[m][p]] \in {p} \union {M[k][p] : k \in Turns}
       /\ Dist[M[n][p]] <= Dist[M[m][p]] + 1
  /\ \A m, n \in Turns, p \in Pos : Axis(Face(m)) = Axis(Face(n)) /\ Face(m) # Face(n)
       => M[m][M[n][p]] = M[n][M[m][p]]

LEMMA Multiplied ==
  ASSUME NEW m \in Turns, NEW p \in Pos, NEW q \in Pos
  PROVE  /\ Move[m][Product[p][q]] = Product[p][Move[m][q]]
         /\ Product[Move[m][p]][q] = Product[p][Premove[m][q]]
BY PuzzleAssumption

(* A turn at either end is a multiplication by the turn of Solved.         *)
LEMMA TurnProduct ==
  ASSUME NEW m \in Turns, NEW p \in Pos
  PROVE  /\ Move[m][p] = Product[p][Move[m][Solved]]
         /\ Premove[m][p] = Product[Move[m][Solved]][p]
         /\ Move[m][p] \in Pos /\ Premove[m][p] \in Pos
<1>1. Solved \in Pos /\ Move[m][p] \in Pos /\ Premove[m][p] \in Pos
  BY SearchAssumption
<1>2. Product[p][Solved] = p /\ Product[Solved][Premove[m][p]] = Premove[m][p]
  BY <1>1, PuzzleAssumption
<1>3. Move[m][Product[p][Solved]] = Product[p][Move[m][Solved]]
  BY <1>1, Multiplied
<1>4. Product[Move[m][Solved]][p] = Product[Solved][Premove[m][p]]
  BY <1>1, Multiplied
<1>5. QED
  BY <1>1, <1>2, <1>3, <1>4

LEMMA Commute ==
  ASSUME NEW m \in Turns, NEW n \in Turns, NEW p \in Pos
  PROVE  Move[m][Premove[n][p]] = Premove[n][Move[m][p]]
<1> DEFINE g == Move[n][Solved]
<1>1. g \in Pos /\ Move[m][p] \in Pos
  BY SearchAssumption
<1>2. Premove[n][p] = Product[g][p] /\ Premove[n][Move[m][p]] = Product[g][Move[m][p]]
  BY <1>1, TurnProduct
<1>3. Move[m][Product[g][p]] = Product[g][Move[m][p]]
  BY <1>1, Multiplied
<1>4. QED
  BY <1>2, <1>3

(* Two turns at one end act as the turn they amount to at Solved.          *)
LEMMA TwoTurns ==
  ASSUME NEW m \in Turns, NEW n \in Turns, NEW p \in Pos
  PROVE  /\ Move[n][Move[m][p]] = Product[p][Move[n][Move[m][Solved]]]
         /\ Premove[n][Premove[m][p]] = Product[Move[m][Move[n][Solved]]][p]
<1>1. Solved \in Pos /\ Move[m][Solved] \in Pos /\ Move[n][Solved] \in Pos /\ Premove[m][p] \in Pos
  BY SearchAssumption
<1>2. Move[m][p] = Product[p][Move[m][Solved]]
  BY TurnProduct
<1>3. Move[n][Product[p][Move[m][Solved]]] = Product[p][Move[n][Move[m][Solved]]]
  BY <1>1, Multiplied
<1>4. Premove[n][Premove[m][p]] = Product[Move[n][Solved]][Premove[m][p]]
  BY <1>1, TurnProduct
<1>5. Product[Move[m][Move[n][Solved]]][p] = Product[Move[n][Solved]][Premove[m][p]]
  BY SMTT(30), <1>1, Multiplied
<1>6. QED
  BY <1>2, <1>3, <1>4, <1>5

(* A turn is undone, at both ends, by a turn of its face.                  *)
LEMMA Undone ==
  ASSUME NEW m \in Turns
  PROVE  \E n \in Turns :
           /\ Face(n) = Face(m)
           /\ Move[n][Move[m][Solved]] = Solved /\ Move[m][Move[n][Solved]] = Solved
<1>1. PICK n \in Turns : Face(n) = Face(m) /\ Move[n][Move[m][Solved]] = Solved
  BY PuzzleAssumption
<1>2. PICK k \in Turns : Move[k][Move[n][Solved]] = Solved
  BY PuzzleAssumption
<1>3. Move[m][Solved] \in Pos /\ Move[n][Solved] \in Pos /\ Move[k][Solved] \in Pos /\ Solved \in Pos
  BY SearchAssumption
<1>4. Move[k][Move[n][Move[m][Solved]]] = Product[Move[m][Solved]][Solved]
  <2>1. Move[k][Move[n][Move[m][Solved]]] = Product[Move[m][Solved]][Move[k][Move[n][Solved]]]
    BY <1>3, TwoTurns
  <2> QED
    BY <2>1, <1>2
<1>5. Move[k][Solved] = Move[m][Solved]
  BY <1>1, <1>3, <1>4, PuzzleAssumption
<1>6. Move[m][Move[n][Solved]] = Product[Move[n][Solved]][Move[m][Solved]]
  BY <1>3, TurnProduct
<1>7. Move[k][Move[n][Solved]] = Product[Move[n][Solved]][Move[k][Solved]]
  BY <1>3, TurnProduct
<1>8. QED
  BY <1>1, <1>2, <1>5, <1>6, <1>7

LEMMA UndoneAt ==
  ASSUME NEW m \in Turns
  PROVE  \E n \in Turns : Face(n) = Face(m) /\
           \A p \in Pos : Move[n][Move[m][p]] = p /\ Premove[n][Premove[m][p]] = p
<1>1. PICK n \in Turns : /\ Face(n) = Face(m)
                         /\ Move[n][Move[m][Solved]] = Solved
                         /\ Move[m][Move[n][Solved]] = Solved
  BY Undone
<1>2. ASSUME NEW p \in Pos PROVE Move[n][Move[m][p]] = p /\ Premove[n][Premove[m][p]] = p
  <2>1. Move[n][Move[m][p]] = Product[p][Solved]
    BY <1>1, TwoTurns
  <2>2. Premove[n][Premove[m][p]] = Product[Solved][p]
    BY <1>1, TwoTurns
  <2> QED
    BY <2>1, <2>2, PuzzleAssumption
<1>3. QED
  BY <1>1, <1>2

(* A turn that solves a position at one end does so at the other.          *)
LEMMA SolvingTurn ==
  ASSUME NEW m \in Turns, NEW p \in Pos
  PROVE  Move[m][p] = Solved <=> Premove[m][p] = Solved
<1>1. PICK n \in Turns : /\ Move[n][Move[m][Solved]] = Solved
                         /\ Move[m][Move[n][Solved]] = Solved
  BY Undone
<1>2. Solved \in Pos /\ Move[n][Solved] \in Pos /\ Move[m][Solved] \in Pos
  BY SearchAssumption
<1>3. ASSUME Move[m][p] = Solved PROVE Premove[m][p] = Solved
  <2>1. Move[n][Move[m][p]] = Product[p][Solved]
    BY <1>1, TwoTurns
  <2>2. p = Move[n][Solved]
    BY <1>3, <2>1, PuzzleAssumption
  <2>3. Premove[m][p] = Product[Move[m][Solved]][p]
    BY TurnProduct
  <2>4. Move[n][Move[m][Solved]] = Product[Move[m][Solved]][Move[n][Solved]]
    BY <1>2, TurnProduct
  <2> QED
    BY <1>1, <2>2, <2>3, <2>4
<1>4. ASSUME Premove[m][p] = Solved PROVE Move[m][p] = Solved
  <2>1. Premove[n][Premove[m][p]] = Product[Solved][p]
    BY <1>1, TwoTurns
  <2>2. Premove[n][Solved] = Product[Move[n][Solved]][Solved]
    BY <1>2, TurnProduct
  <2>3. p = Move[n][Solved]
    BY <1>2, <1>4, <2>1, <2>2, PuzzleAssumption
  <2> QED
    BY <1>1, <2>3
<1> QED
  BY <1>3, <1>4

(* Two turns of a face amount to one or none, those of opposite faces      *)
(* commute, at both ends.                                                  *)
LEMMA SameFace ==
  ASSUME NEW m \in Turns, NEW n \in Turns, NEW p \in Pos, Face(m) = Face(n)
  PROVE  /\ Move[n][Move[m][p]] \in {p} \union {Move[k][p] : k \in Turns}
         /\ Premove[n][Premove[m][p]] \in {p} \union {Premove[k][p] : k \in Turns}
<1>1. Move[n][Move[m][p]] = Product[p][Move[n][Move[m][Solved]]]
  BY TwoTurns
<1>2. Premove[n][Premove[m][p]] = Product[Move[m][Move[n][Solved]]][p]
  BY TwoTurns
<1>3. \A x \in {Solved} \union {Move[k][Solved] : k \in Turns} :
        /\ Product[p][x] \in {p} \union {Move[k][p] : k \in Turns}
        /\ Product[x][p] \in {p} \union {Premove[k][p] : k \in Turns}
  <2>1. Product[p][Solved] = p /\ Product[Solved][p] = p
    BY PuzzleAssumption
  <2>2. \A k \in Turns : Move[k][p] = Product[p][Move[k][Solved]] /\ Premove[k][p] = Product[Move[k][Solved]][p]
    BY TurnProduct
  <2> QED
    BY <2>1, <2>2
<1>4. /\ Move[n][Move[m][Solved]] \in {Solved} \union {Move[k][Solved] : k \in Turns}
      /\ Move[m][Move[n][Solved]] \in {Solved} \union {Move[k][Solved] : k \in Turns}
  BY PuzzleAssumption
<1>5. QED
  BY <1>1, <1>2, <1>3, <1>4

LEMMA OppositeFaces ==
  ASSUME NEW m \in Turns, NEW n \in Turns, NEW p \in Pos,
         Axis(Face(m)) = Axis(Face(n)), Face(m) # Face(n)
  PROVE  /\ Move[m][Move[n][p]] = Move[n][Move[m][p]]
         /\ Premove[m][Premove[n][p]] = Premove[n][Premove[m][p]]
<1>1. Move[m][Move[n][Solved]] = Move[n][Move[m][Solved]]
  BY PuzzleAssumption
<1>2. QED
  BY <1>1, TwoTurns

(* A prepended turn shortens a solution by one at most as well ...         *)
LEMMA PremoveShortens ==
  ASSUME NEW m \in Turns, NEW q \in Pos
  PROVE  Dist[q] <= Dist[Premove[m][q]] + 1
<1> DEFINE N == Dist[Premove[m][q]]
           T == {k \in 0..N : \A p \in Pos : Dist[Premove[m][p]] = k => Dist[p] <= k + 1}
<1>1. \A p \in Pos : Dist[p] \in Nat /\ Premove[m][p] \in Pos
  BY SearchAssumption, DistAssumption
<1>2. N \in Nat
  BY <1>1
<1>3. 0 \in T
  <2>1. ASSUME NEW p \in Pos, Dist[Premove[m][p]] = 0 PROVE Dist[p] <= 1
    <3>1. Premove[m][p] = Solved
      BY <1>1, <2>1, DistAssumption
    <3>2. Move[m][p] = Solved
      BY <3>1, SolvingTurn
    <3>3. Dist[Move[m][p]] = 0
      BY <3>2, DistAssumption, SearchAssumption
    <3> QED
      BY <3>3, <1>1, DistAssumption
  <2> QED
    BY <2>1, <1>2
<1>4. ASSUME NEW k \in 0..N, k # N, k \in T PROVE k + 1 \in T
  <2>1. ASSUME NEW p \in Pos, Dist[Premove[m][p]] = k + 1 PROVE Dist[p] <= k + 2
    <3>1. Premove[m][p] \in Pos \ {Solved}
      BY <1>1, <1>2, <2>1, DistAssumption
    <3>2. PICK n \in Turns : Dist[Move[n][Premove[m][p]]] = Dist[Premove[m][p]] - 1
      BY <3>1, DistAssumption
    <3>3. Move[n][p] \in Pos
      BY SearchAssumption
    <3>4. Dist[Premove[m][Move[n][p]]] = k
      BY <1>2, <2>1, <3>2, Commute
    <3>5. Dist[Move[n][p]] <= k + 1
      BY <1>4, <3>3, <3>4
    <3>6. Dist[p] <= Dist[Move[n][p]] + 1
      BY DistAssumption
    <3> QED
      BY <1>1, <1>2, <3>3, <3>5, <3>6
  <2>2. k + 1 \in 0..N
    BY <1>2, <1>4
  <2> QED
    BY <2>1, <2>2
<1>5. \A k \in 0..N : k \in T
  <2> HIDE DEF T, N
  <2> QED
    BY <1>2, <1>3, <1>4, InductionUpTo
<1>6. N \in T
  BY <1>2, <1>5
<1> QED
  BY <1>6

(* ... and one does unless the position is solved: the last turn of a      *)
(* shortest solution.                                                      *)
LEMMA PremoveProgress ==
  ASSUME NEW q \in Pos, q # Solved
  PROVE  \E m \in Turns : Dist[Premove[m][q]] = Dist[q] - 1
<1> DEFINE N == Dist[q] - 1
           T == {k \in 0..N : \A p \in Pos : Dist[p] = k + 1 =>
                                \E m \in Turns : Dist[Premove[m][p]] = k}
<1>1. \A p \in Pos : Dist[p] \in Nat /\ \A m \in Turns : Premove[m][p] \in Pos /\ Move[m][p] \in Pos
  BY SearchAssumption, DistAssumption
<1>2. N \in Nat
  BY <1>1, DistAssumption
<1>3. 0 \in T
  <2>1. ASSUME NEW p \in Pos, Dist[p] = 1 PROVE \E m \in Turns : Dist[Premove[m][p]] = 0
    <3>1. p # Solved
      BY <2>1, DistAssumption
    <3>2. PICK m \in Turns : Dist[Move[m][p]] = 0
      BY <2>1, <3>1, DistAssumption
    <3>3. Premove[m][p] = Solved
      BY <1>1, <3>2, DistAssumption, SolvingTurn
    <3> QED
      BY <3>3, DistAssumption, SearchAssumption
  <2> QED
    BY <2>1, <1>2
<1>4. ASSUME NEW k \in 0..N, k # N, k \in T PROVE k + 1 \in T
  <2>1. ASSUME NEW p \in Pos, Dist[p] = k + 2 PROVE \E m \in Turns : Dist[Premove[m][p]] = k + 1
    <3>1. p # Solved
      BY <1>2, <2>1, DistAssumption
    <3>2. PICK n \in Turns : Dist[Move[n][p]] = k + 1
      BY <1>2, <2>1, <3>1, DistAssumption
    <3>3. PICK m \in Turns : Dist[Premove[m][Move[n][p]]] = k
      BY <1>1, <1>4, <3>2
    <3>4. Dist[Move[n][Premove[m][p]]] = k
      BY <3>3, Commute
    <3>5. Dist[Premove[m][p]] <= k + 1
      BY <1>1, <3>4, DistAssumption
    <3>6. Dist[p] <= Dist[Premove[m][p]] + 1
      BY PremoveShortens
    <3>7. k \in Nat /\ Dist[Premove[m][p]] \in Nat
      BY <1>1, <1>2
    <3>8. Dist[Premove[m][p]] = k + 1
      BY <2>1, <3>5, <3>6, <3>7
    <3> QED
      BY <3>8
  <2>2. k + 1 \in 0..N
    BY <1>2, <1>4
  <2> QED
    BY <2>1, <2>2
<1>5. \A k \in 0..N : k \in T
  <2> HIDE DEF T, N
  <2> QED
    BY <1>2, <1>3, <1>4, InductionUpTo
<1>6. N \in T
  BY <1>2, <1>5
<1>7. Dist[q] = N + 1
  BY <1>1
<1> QED
  BY <1>6, <1>7

(* The facts about one end that follow from those above.                   *)
OneSide(M) ==
  /\ M \in [Turns -> [Pos -> Pos]]
  /\ \A m \in Turns, p \in Pos : Dist[p] <= Dist[M[m][p]] + 1
  /\ \A m \in Turns : \E n \in Turns : Face(n) = Face(m) /\ \A p \in Pos : M[n][M[m][p]] = p
  /\ \A m, n \in Turns, p \in Pos : Face(m) = Face(n) =>
       M[n][M[m][p]] \in {p} \union {M[k][p] : k \in Turns}

LEMMA SideFrom ==
  ASSUME NEW M, OneSide(M)
  PROVE  /\ \A m \in Turns, p \in Pos : Dist[M[m][p]] <= Dist[p] + 1
         /\ \A m, n \in Turns, p \in Pos : Face(m) = Face(n) => Dist[M[n][p]] <= Dist[M[m][p]] + 1
<1>1. \A m \in Turns, p \in Pos : M[m][p] \in Pos /\ Dist[p] \in Nat
  BY DistAssumption DEF OneSide
<1>2. ASSUME NEW m \in Turns, NEW p \in Pos PROVE Dist[M[m][p]] <= Dist[p] + 1
  <2>1. PICK n \in Turns : M[n][M[m][p]] = p
    BY DEF OneSide
  <2>2. Dist[M[m][p]] <= Dist[M[n][M[m][p]]] + 1
    BY <1>1 DEF OneSide
  <2> QED
    BY <2>1, <2>2
<1>3. ASSUME NEW m \in Turns, NEW n \in Turns, NEW p \in Pos, Face(m) = Face(n)
      PROVE  Dist[M[n][p]] <= Dist[M[m][p]] + 1
  <2>1. PICK k \in Turns : Face(k) = Face(m) /\ M[k][M[m][p]] = p
    BY DEF OneSide
  <2>2. M[m][p] \in Pos
    BY <1>1
  <2> DEFINE q == M[m][p]
  <2>3. Face(k) = Face(n) /\ q \in Pos
    BY <1>3, <2>1, <2>2
  <2> HIDE DEF q
  <2>4. M[n][M[k][q]] \in {q} \union {M[l][q] : l \in Turns}
    BY <2>3 DEF OneSide
  <2>5. \A l \in Turns : Dist[M[l][q]] <= Dist[q] + 1
    BY <1>2, <2>3
  <2>6. Dist[M[n][M[k][q]]] <= Dist[q] + 1
    <3>1. Dist[q] \in Nat
      BY <1>1, <2>3
    <3>2. \A k_1 \in Nat : k_1 <= k_1 + 1
      OBVIOUS
    <3> QED
      BY <2>4, <2>5, <3>1, <3>2
  <2> QED
    BY <2>1, <2>6 DEF q
<1> QED
  BY <1>2, <1>3

LEMMA BothSides == Side(Move, Premove) /\ Side(Premove, Move)
<1>1. Move \in [Turns -> [Pos -> Pos]] /\ Premove \in [Turns -> [Pos -> Pos]]
  BY SearchAssumption
<1>2. \A m \in Turns, p \in Pos : Dist[p] <= Dist[Move[m][p]] + 1 /\ Dist[p] <= Dist[Premove[m][p]] + 1
  BY DistAssumption, PremoveShortens
<1>3. \A m, n \in Turns, p \in Pos : Face(m) = Face(n) =>
        /\ Move[n][Move[m][p]] \in {p} \union {Move[k][p] : k \in Turns}
        /\ Premove[n][Premove[m][p]] \in {p} \union {Premove[k][p] : k \in Turns}
  BY SameFace
<1>4. /\ \A m \in Turns, p \in Pos : Dist[Move[m][p]] <= Dist[p] + 1
      /\ \A m, n \in Turns, p \in Pos : Face(m) = Face(n) => Dist[Move[n][p]] <= Dist[Move[m][p]] + 1
  <2>1. \A m \in Turns : \E n \in Turns : Face(n) = Face(m) /\ \A p \in Pos : Move[n][Move[m][p]] = p
    BY UndoneAt
  <2>2. OneSide(Move)
    BY <1>1, <1>2, <1>3, <2>1 DEF OneSide
  <2> QED
    BY <2>2, SideFrom
<1>5. /\ \A m \in Turns, p \in Pos : Dist[Premove[m][p]] <= Dist[p] + 1
      /\ \A m, n \in Turns, p \in Pos : Face(m) = Face(n) => Dist[Premove[n][p]] <= Dist[Premove[m][p]] + 1
  <2>1. \A m \in Turns : \E n \in Turns : Face(n) = Face(m) /\ \A p \in Pos : Premove[n][Premove[m][p]] = p
    BY UndoneAt
  <2>2. OneSide(Premove)
    BY <1>1, <1>2, <1>3, <2>1 DEF OneSide
  <2> QED
    BY <2>2, SideFrom
<1>6. \A p \in Pos \ {Solved} : /\ \E m \in Turns : Dist[Move[m][p]] = Dist[p] - 1
                                /\ \E m \in Turns : Dist[Premove[m][p]] = Dist[p] - 1
  BY DistAssumption, PremoveProgress
<1>7. \A m, n \in Turns, p \in Pos : Axis(Face(m)) = Axis(Face(n)) /\ Face(m) # Face(n) =>
        /\ Move[m][Move[n][p]] = Move[n][Move[m][p]]
        /\ Premove[m][Premove[n][p]] = Premove[n][Premove[m][p]]
  BY OppositeFaces
<1>8. \A m, n \in Turns, p \in Pos : Move[m][Premove[n][p]] = Premove[n][Move[m][p]]
  BY Commute
<1>9. \A m \in Turns, p \in Pos : Move[m][p] = Solved <=> Premove[m][p] = Solved
  BY SolvingTurn
<1>10. Side(Move, Premove)
  BY <1>1, <1>2, <1>3, <1>4, <1>6, <1>7, <1>8, <1>9 DEF Side
<1>11. Side(Premove, Move)
  BY <1>1, <1>2, <1>3, <1>5, <1>6, <1>7, <1>8, <1>9 DEF Side
<1> QED
  BY <1>10, <1>11

-----------------------------------------------------------------------------
(***************************************************************************)
(* The pruning values: lookup.                                             *)
(***************************************************************************)
LEMMA TurnTypes ==
  ASSUME NEW m \in Turns
  PROVE  /\ m \in 0..17 /\ m \in Nat
         /\ Face(m) \in 0..5 /\ Axis(Face(m)) \in 0..2 /\ Axis(Face(m)) + 3 \in 3..5
<1>1. m \in 0..17
  BY SearchAssumption
<1>2. Face(m) \in 0..5
  BY <1>1 DEF Face
<1>3. Axis(Face(m)) \in 0..2
  BY <1>2 DEF Axis
<1> QED
  BY <1>1, <1>2, <1>3

LEMMA BoundType ==
  ASSUME NEW a \in 0..15, NEW b \in 0..15, NEW c \in 0..15
  PROVE  /\ Bound(a, b, c) \in 0..16
         /\ \/ a = b /\ b = c /\ Bound(a, b, c) = a + 1
            \/ Bound(a, b, c) \in {a, b, c}
<1>1. CASE a = b /\ b = c
  BY <1>1 DEF Bound
<1>2. CASE ~(a = b /\ b = c)
  <2>1. \E x \in {a, b, c} : \A y \in {a, b, c} : x >= y
    <3>1. CASE a >= b /\ a >= c
      BY <3>1
    <3>2. CASE b >= a /\ b >= c
      BY <3>2
    <3>3. CASE c >= a /\ c >= b
      BY <3>3
    <3> QED
      BY <3>1, <3>2, <3>3
  <2> DEFINE max == CHOOSE x \in {a, b, c} : \A y \in {a, b, c} : x >= y
  <2>2. max \in {a, b, c}
    BY <2>1
  <2>3. Bound(a, b, c) = max
    BY <1>2 DEF Bound
  <2> HIDE DEF max
  <2> QED
    BY <2>2, <2>3
<1> QED
  BY <1>1, <1>2

(* The value a call passes on is the one of the view, or zero.             *)
Known(skip, val, p) == skip \in 0..5 => val <= Prune[skip][p]

LEMMA ValuesType ==
  ASSUME NEW p \in Pos, NEW skip \in (0..5) \union {NoView}, NEW val \in 0..15
  PROVE  /\ Values(p, skip, val) \in [0..5 -> 0..15]
         /\ Known(skip, val, p) => \A v \in 0..5 : /\ Values(p, skip, val)[v] <= Prune[v][p]
                                                   /\ Values(p, skip, val)[v] <= Dist[p]
<1>1. \A v \in 0..5 : Prune[v][p] \in 0..15 /\ Prune[v][p] <= Dist[p]
  BY SearchAssumption, TableAssumption
<1>2. Dist[p] \in Nat
  BY DistAssumption
<1>3. Values(p, skip, val) \in [0..5 -> 0..15]
  BY <1>1 DEF Values
<1>4. ASSUME Known(skip, val, p), NEW v \in 0..5
      PROVE  Values(p, skip, val)[v] <= Prune[v][p] /\ Values(p, skip, val)[v] <= Dist[p]
  <2>1. CASE v = skip
    BY <2>1, <1>1, <1>2, <1>4 DEF Values, Known
  <2>2. CASE v # skip
    BY <2>2, <1>1 DEF Values
  <2> QED
    BY <2>1, <2>2
<1> QED
  BY <1>3, <1>4

(* Three equal values of one cube are less than the distance: the turn at  *)
(* the end of a shortest solution preserves one of them.                   *)
LEMMA EqualValues ==
  ASSUME NEW p \in Pos, p # Solved, NEW a \in Nat, NEW first \in {0, 3},
         \A v \in first .. first + 2 : a <= Prune[v][p]
  PROVE  a + 1 <= Dist[p]
<1>1. \A q \in Pos, m \in Turns : /\ Dist[q] \in Nat
                                 /\ Move[m][q] \in Pos /\ Premove[m][q] \in Pos
                                 /\ \A v \in 0..5 : Prune[v][q] \in 0..15 /\ Prune[v][q] <= Dist[q]
  <2>1. \A q \in Pos : \A v \in 0..5 : Prune[v][q] \in 0..15 /\ Prune[v][q] <= Dist[q]
    BY SearchAssumption, TableAssumption
  <2>2. \A q \in Pos, m \in Turns : Move[m][q] \in Pos /\ Premove[m][q] \in Pos
    BY SearchAssumption
  <2>3. \A q \in Pos : Dist[q] \in Nat
    BY DistAssumption
  <2> QED
    BY <2>1, <2>2, <2>3
<1>2. CASE first = 0
  <2>1. PICK m \in Turns : Dist[Premove[m][p]] = Dist[p] - 1
    BY PremoveProgress
  <2> DEFINE v == Axis(Face(m))
             q == Premove[m][p]
  <2>2. v \in 0..2 /\ v \in 0..5
    BY TurnTypes
  <2>3. Prune[v][q] = Prune[v][p]
    BY TableAssumption
  <2>4. a <= Prune[v][p]
    BY <1>2, <2>2
  <2>5. q \in Pos /\ Prune[v][q] <= Dist[q] /\ Dist[q] \in Nat /\ Prune[v][q] \in 0..15
    BY <1>1, <2>2
  <2> HIDE DEF v, q
  <2>6. Dist[q] = Dist[p] - 1
    BY <2>1 DEF q
  <2>7. Dist[p] \in Nat
    BY <1>1
  <2> QED
    BY <2>3, <2>4, <2>5, <2>6, <2>7
<1>3. CASE first = 3
  <2>1. PICK m \in Turns : Dist[Move[m][p]] = Dist[p] - 1
    BY DistAssumption
  <2> DEFINE v == Axis(Face(m)) + 3
             q == Move[m][p]
  <2>2. v \in 3..5 /\ v \in 0..5
    BY TurnTypes
  <2>3. Prune[v][q] = Prune[v][p]
    BY TableAssumption
  <2>4. a <= Prune[v][p]
    BY <1>3, <2>2
  <2>5. q \in Pos /\ Prune[v][q] <= Dist[q] /\ Dist[q] \in Nat /\ Prune[v][q] \in 0..15
    BY <1>1, <2>2
  <2> HIDE DEF v, q
  <2>6. Dist[q] = Dist[p] - 1
    BY <2>1 DEF q
  <2>7. Dist[p] \in Nat
    BY <1>1
  <2> QED
    BY <2>3, <2>4, <2>5, <2>6, <2>7
<1> QED
  BY <1>2, <1>3

LEMMA CheckType ==
  ASSUME NEW P \in [0..5 -> 0..15], NEW skip \in (0..5) \union {NoView}, NEW k \in 1..8
  PROVE  Check(P, skip, k) \in 0..16
<1>1. CASE k \in {4, 8}
  <2> DEFINE v == k - 1 - (k \div 4)
  <2>1. v \in 0..5 /\ v - 1 \in 0..5 /\ v - 2 \in 0..5
    BY <1>1
  <2>2. Check(P, skip, k) = Bound(P[v - 2], P[v - 1], P[v])
    BY <1>1 DEF Check
  <2>3. P[v] \in 0..15 /\ P[v - 1] \in 0..15 /\ P[v - 2] \in 0..15
    BY <2>1
  <2> HIDE DEF v
  <2>4. Bound(P[v - 2], P[v - 1], P[v]) \in 0..16
    BY <2>3, BoundType
  <2> QED
    BY <2>2, <2>4
<1>2. CASE k \notin {4, 8}
  <2> DEFINE v == k - 1 - (k \div 4)
  <2>1. v \in 0..5
    BY <1>2
  <2>2. Check(P, skip, k) = IF v = skip THEN 0 ELSE P[v]
    BY <1>2 DEF Check
  <2> HIDE DEF v
  <2> QED
    BY <2>1, <2>2
<1> QED
  BY <1>1, <1>2

(* Each of the checks is a lower bound of the distance.                    *)
LEMMA CheckAdmissible ==
  ASSUME NEW p \in Pos, p # Solved, NEW skip \in (0..5) \union {NoView}, NEW val \in 0..15,
         Known(skip, val, p), NEW k \in 1..8
  PROVE  Check(Values(p, skip, val), skip, k) <= Dist[p]
<1> DEFINE P == Values(p, skip, val)
<1>1. P \in [0..5 -> 0..15] /\ \A v \in 0..5 : P[v] <= Prune[v][p] /\ P[v] <= Dist[p]
  BY ValuesType
<1>2. Dist[p] \in Nat
  BY DistAssumption
<1> HIDE DEF P
<1>3. ASSUME NEW first \in {0, 3}
      PROVE  Bound(P[first], P[first + 1], P[first + 2]) <= Dist[p]
  <2>1. first \in 0..5 /\ first + 1 \in 0..5 /\ first + 2 \in 0..5
    OBVIOUS
  <2>2. P[first] \in 0..15 /\ P[first + 1] \in 0..15 /\ P[first + 2] \in 0..15
    BY <1>1, <2>1
  <2>3. CASE P[first] = P[first + 1] /\ P[first + 1] = P[first + 2]
    <3>1. \A v \in first .. first + 2 : P[first] <= Prune[v][p]
      <4>1. ASSUME NEW v \in first .. first + 2 PROVE P[first] <= Prune[v][p]
        <5>1. v \in 0..5 /\ (v = first \/ v = first + 1 \/ v = first + 2)
          BY <2>1
        <5> QED
          BY <5>1, <2>3, <1>1
      <4> QED
        BY <4>1
    <3>2. P[first] + 1 <= Dist[p]
      BY <2>2, <3>1, EqualValues
    <3>3. Bound(P[first], P[first + 1], P[first + 2]) = P[first] + 1
      BY <2>3 DEF Bound
    <3> QED
      BY <3>2, <3>3
  <2>4. CASE ~(P[first] = P[first + 1] /\ P[first + 1] = P[first + 2])
    <3>1. Bound(P[first], P[first + 1], P[first + 2]) \in {P[first], P[first + 1], P[first + 2]}
      BY <2>2, <2>4, BoundType
    <3> QED
      BY <1>1, <2>1, <3>1
  <2> QED
    BY <2>3, <2>4
<1>4. CASE k = 4
  <2>1. Check(P, skip, k) = Bound(P[0], P[0 + 1], P[0 + 2])
    BY <1>4 DEF Check
  <2> QED
    BY <2>1, <1>3 DEF P
<1>5. CASE k = 8
  <2>1. Check(P, skip, k) = Bound(P[3], P[3 + 1], P[3 + 2])
    BY <1>5 DEF Check
  <2> QED
    BY <2>1, <1>3 DEF P
<1>6. CASE k \notin {4, 8}
  <2> DEFINE v == k - 1 - (k \div 4)
  <2>1. v \in 0..5
    BY <1>6
  <2>2. Check(P, skip, k) = IF v = skip THEN 0 ELSE P[v]
    BY <1>6 DEF Check
  <2> HIDE DEF v
  <2> QED
    BY <1>1, <1>2, <2>1, <2>2 DEF P
<1> QED
  BY <1>4, <1>5, <1>6

LEMMA LookupType ==
  ASSUME NEW p \in Pos, NEW n \in Nat, NEW skip \in (0..5) \union {NoView}, NEW val \in 0..15,
         NEW mask \in SUBSET (0..5), NEW look, look = Lookup(p, n, skip, val, mask)
  PROVE  /\ look.prune \in 0..16
         /\ look.vals \in [0..5 -> 0..15]
         /\ look.mask \in SUBSET (0..5)
         /\ Known(skip, val, p) => /\ look.prune <= Dist[p]
                                   /\ \A v \in 0..5 : look.vals[v] <= Prune[v][p]
                                   /\ mask = {} => \A v \in look.mask : n <= Prune[v][p]
<1> DEFINE P == Values(p, skip, val)
           above == {k \in 1..8 : Check(P, skip, k) > n}
<1>1. P \in [0..5 -> 0..15]
  BY ValuesType
<1>2. Known(skip, val, p) => \A v \in 0..5 : P[v] <= Prune[v][p] /\ P[v] <= Dist[p]
  BY ValuesType
<1>3. \A v \in 0..5 : Prune[v][p] \in 0..15 /\ Prune[v][p] <= Dist[p]
  BY SearchAssumption, TableAssumption
<1>4. Dist[p] \in Nat
  BY DistAssumption
<1>5. CASE \A v \in 0..2 : P[v] = 0
  <2>1. look = [prune |-> 0, vals |-> [v \in 0..5 |-> 0], mask |-> mask]
    BY <1>5 DEF Lookup
  <2>2. look.prune = 0 /\ look.vals = [v \in 0..5 |-> 0] /\ look.mask = mask
    BY <2>1
  <2>3. \A v \in 0..5 : look.vals[v] = 0
    BY <2>2
  <2>4. look.vals \in [0..5 -> 0..15]
    BY <2>2
  <2>5. \A v \in 0..5 : look.vals[v] <= Prune[v][p]
    BY <2>3, <1>3
  <2>6. look.prune \in 0..16 /\ look.prune <= Dist[p] /\ look.mask \in SUBSET (0..5)
    BY <2>2, <1>4
  <2>7. mask = {} => \A v \in look.mask : n <= Prune[v][p]
    BY <2>2
  <2> QED
    BY <2>4, <2>5, <2>6, <2>7
<1>6. CASE ~ \A v \in 0..2 : P[v] = 0
  <2> DEFINE least == CHOOSE k \in above : \A l \in above : k <= l
             number == IF above # {} THEN Check(P, skip, least)
                       ELSE IF Check(P, skip, 4) < Check(P, skip, 8) THEN Check(P, skip, 8)
                       ELSE Check(P, skip, 4)
  <2>1. look = [prune |-> number, vals |-> P, mask |-> {v \in 0..5 : P[v] = n}]
    BY <1>6 DEF Lookup
  <2>2. look.prune = number /\ look.vals = P /\ look.mask = {v \in 0..5 : P[v] = n}
    BY <2>1
  <2>3. \E k \in 1..8 : number = Check(P, skip, k)
    <3>1. CASE above # {}
      <4>1. above \in SUBSET Nat /\ above \subseteq 1..8
        OBVIOUS
      <4>2. \E k \in above : \A l \in above : k <= l
        <5> HIDE DEF above
        <5> QED
          BY <3>1, <4>1, LeastNatural
      <4>3. least \in above
        <5> HIDE DEF above
        <5> QED
          BY <4>2
      <4>4. number = Check(P, skip, least)
        BY <3>1
      <4> HIDE DEF above, least, number
      <4> QED
        BY <4>1, <4>3, <4>4
    <3>2. CASE above = {}
      BY <3>2
    <3> QED
      BY <3>1, <3>2
  <2>4. Known(skip, val, p) => p # Solved
    <3>1. SUFFICES ASSUME Known(skip, val, p), p = Solved PROVE \A v \in 0..2 : P[v] = 0
      BY <1>6
    <3>2. Dist[p] = 0
      BY <3>1, DistAssumption
    <3>3. \A v \in 0..5 : P[v] <= Dist[p] /\ P[v] \in 0..15
      BY <1>1, <1>2, <3>1
    <3> QED
      BY <3>2, <3>3
  <2>5. number \in 0..16 /\ (Known(skip, val, p) => number <= Dist[p])
    <3> HIDE DEF number
    <3> QED
      BY <1>1, <2>3, <2>4, CheckType, CheckAdmissible
  <2>6. Known(skip, val, p) => \A v \in look.mask : n <= Prune[v][p]
    BY <1>2, <2>2
  <2> HIDE DEF P, number
  <2> QED
    BY <1>1, <1>2, <2>2, <2>5, <2>6
<1> QED
  BY <1>5, <1>6

-----------------------------------------------------------------------------
(***************************************************************************)
(* The search: what a call returns.                                        *)
(***************************************************************************)
Paths == Seq(Turns \X BOOLEAN)
Results == [sol : Nat, path : Paths]

LEMMA LeafType == Success \in Results /\ \A k \in Nat : Failed(k) \in Results
<1>1. <<>> \in Paths
  BY DEF Paths
<1>2. QED
  BY <1>1 DEF Success, Failed, Results

TurnsAt(c, look, ahead) == IF ahead THEN AtEnd(c, look) ELSE AtStart(c, look)

LEMMA TurnsAtType ==
  ASSUME NEW c, NEW look, NEW ahead
  PROVE  TurnsAt(c, look, ahead) \subseteq Turns
BY DEF TurnsAt, AtEnd, AtStart, Unmasked

LEMMA BelowType ==
  ASSUME NEW c \in Calls, NEW vals \in [0..5 -> 0..15], NEW ahead \in BOOLEAN, NEW m \in Turns
  PROVE  Below(c, vals, ahead, m) \in Calls
<1> DEFINE view == Axis(Face(m)) + IF ahead THEN 3 ELSE 0
<1>1. view \in 0..5 /\ Face(m) \in 0..6
  BY TurnTypes
<1>2. vals[view] \in 0..15
  BY <1>1
<1>3. c.p \in Pos /\ c.last \in 0..6 /\ c.lastR \in 0..6 /\ c.stray \in SUBSET (0..5)
  BY DEF Calls
<1>4. Move[m][c.p] \in Pos /\ Premove[m][c.p] \in Pos
  BY <1>3, SearchAssumption
<1> HIDE DEF view
<1>5. Below(c, vals, ahead, m) =
        [p |-> IF ahead THEN Move[m][c.p] ELSE Premove[m][c.p],
         last |-> IF ahead THEN Face(m) ELSE c.last, lastR |-> IF ahead THEN c.lastR ELSE Face(m),
         skip |-> view, val |-> vals[view], stray |-> c.stray]
  BY DEF Below, view
<1>6. QED
  BY <1>1, <1>2, <1>3, <1>4, <1>5 DEF Calls

(* A call tries its turns in order and ends with the first that decides:   *)
(* t is what it returns for what its children return.                      *)
Outcome(n, look, ahead, turns, child, t) ==
  \/ \E m \in turns : /\ child[m].sol = 0
                       /\ t = [sol |-> 0, path |-> Append(child[m].path, <<m, ~ahead>>)]
  \/ \E m \in turns : child[m].sol > n + 1 /\ t = Failed(child[m].sol - 1)
  \/ /\ t = Failed(IF look.prune = 0 THEN 1 ELSE look.prune)
     /\ \A m \in turns : child[m].sol = 0 =>
          \E k \in turns : k < m /\ Face(k) = Face(m) /\ child[k].sol = n + 1

Tried(n, c, look, ahead, below, turns, child, t) ==
  /\ turns = TurnsAt(c, look, ahead)
  /\ child = [m \in turns |-> below[Below(c, look.vals, ahead, m)]]
  /\ t = Try(n, c, look, ahead, below)

LEMMA TryEnds ==
  ASSUME NEW n \in Nat, NEW c \in Calls, NEW look, look.vals \in [0..5 -> 0..15],
         NEW below \in [Calls -> Results], NEW ahead \in BOOLEAN,
         NEW turns, NEW child, NEW t, Tried(n, c, look, ahead, below, turns, child, t)
  PROVE  /\ turns \subseteq Turns /\ child \in [turns -> Results]
         /\ Outcome(n, look, ahead, turns, child, t)
<1>1. /\ turns = TurnsAt(c, look, ahead)
      /\ child = [m \in turns |-> below[Below(c, look.vals, ahead, m)]]
      /\ t = Try(n, c, look, ahead, below)
  BY DEF Tried
<1>2. turns \subseteq Turns
  BY <1>1, TurnsAtType
<1>3. ASSUME NEW m \in turns PROVE below[Below(c, look.vals, ahead, m)] \in Results
  <2>1. Below(c, look.vals, ahead, m) \in Calls
    BY <1>2, BelowType
  <2> QED
    BY <2>1
<1>4. child \in [turns -> Results]
  BY <1>1, <1>3
<1> DEFINE results == {[turn |-> m, child |-> below[Below(c, look.vals, ahead, m)]] :
                         m \in IF ahead THEN AtEnd(c, look) ELSE AtStart(c, look)}
           Skips(r, s) == r.turn < s.turn /\ Face(r.turn) = Face(s.turn) /\ r.child.sol = n + 1
           ending == {s \in results : /\ s.child.sol = 0 \/ s.child.sol > n + 1
                                      /\ \A r \in results : ~Skips(r, s)}
           first == CHOOSE s \in ending : \A r \in ending : s.turn <= r.turn
<1>5. /\ turns = IF ahead THEN AtEnd(c, look) ELSE AtStart(c, look)
      /\ \A m \in turns : child[m] = below[Below(c, look.vals, ahead, m)]
  BY <1>1 DEF TurnsAt
<1>6. t = IF ending = {} THEN Failed(IF look.prune = 0 THEN 1 ELSE look.prune)
          ELSE IF first.child.sol = 0
          THEN [sol |-> 0, path |-> Append(first.child.path, <<first.turn, ~ahead>>)]
          ELSE Failed(first.child.sol - 1)
  BY <1>1, Zenon DEF Try
<1>7. ASSUME NEW s \in results PROVE s.turn \in turns /\ s.child = child[s.turn] /\ s.turn \in Nat
  <2>1. PICK m \in turns : s = [turn |-> m, child |-> below[Below(c, look.vals, ahead, m)]]
    BY <1>5
  <2>2. s.turn = m /\ s.child = below[Below(c, look.vals, ahead, m)]
    BY <2>1
  <2> QED
    BY <1>2, <1>5, <2>2, TurnTypes
<1>8. ASSUME NEW m \in turns PROVE \E s \in results : s.turn = m /\ s.child = child[m]
  <2> DEFINE s == [turn |-> m, child |-> below[Below(c, look.vals, ahead, m)]]
  <2>1. s \in results /\ s.turn = m /\ s.child = child[m]
    BY <1>5
  <2> QED
    BY <2>1
<1>9. CASE ending # {}
  <2>1. \E s \in ending : \A r \in ending : s.turn <= r.turn
    <3> DEFINE numbers == {s.turn : s \in ending}
    <3>1. numbers \in SUBSET Nat /\ numbers # {}
      <4> HIDE DEF results
      <4> QED
        BY <1>7, <1>9
    <3>2. PICK k \in numbers : \A l \in numbers : k <= l
      <4> HIDE DEF numbers
      <4> QED
        BY <3>1, LeastNatural
    <3> HIDE DEF ending
    <3> QED
      BY <3>2
  <2>2. first \in ending
    <3> HIDE DEF ending
    <3> QED
      BY <2>1
  <2>3. first \in results /\ (first.child.sol = 0 \/ first.child.sol > n + 1)
    <3> HIDE DEF results, first
    <3> QED
      BY <2>2
  <2>4. first.turn \in turns /\ first.child = child[first.turn]
    <3> HIDE DEF results, first
    <3> QED
      BY <2>3, <1>7
  <2> HIDE DEF ending, first
  <2> QED
    BY <1>2, <1>4, <1>6, <1>9, <2>3, <2>4 DEF Outcome
<1>10. CASE ending = {}
  <2>1. t = Failed(IF look.prune = 0 THEN 1 ELSE look.prune)
    <3> HIDE DEF ending, first
    <3> QED
      BY <1>6, <1>10
  <2>2. ASSUME NEW m \in turns, child[m].sol = 0
        PROVE  \E k \in turns : k < m /\ Face(k) = Face(m) /\ child[k].sol = n + 1
    <3> HIDE DEF results
    <3>1. PICK s \in results : s.turn = m /\ s.child = child[m]
      BY <1>8
    <3>2. PICK r \in results : Skips(r, s)
      BY <1>10, <2>2, <3>1
    <3> QED
      BY <1>7, <3>1, <3>2
  <2> QED
    BY <1>2, <1>4, <2>1, <2>2 DEF Outcome
<1> QED
  BY <1>9, <1>10

LEMMA TryType ==
  ASSUME NEW n \in Nat, NEW c \in Calls, NEW look, look.vals \in [0..5 -> 0..15], look.prune \in Nat,
         NEW ahead \in BOOLEAN, NEW below \in [Calls -> Results]
  PROVE  Try(n, c, look, ahead, below) \in Results
<1> DEFINE turns == TurnsAt(c, look, ahead)
           child == [m \in turns |-> below[Below(c, look.vals, ahead, m)]]
           t     == Try(n, c, look, ahead, below)
<1> HIDE DEF turns, child, t
<1>1. /\ turns \subseteq Turns /\ child \in [turns -> Results]
      /\ Outcome(n, look, ahead, turns, child, t)
  <2>1. Tried(n, c, look, ahead, below, turns, child, t)
    BY DEF Tried, turns, child, t
  <2> QED
    BY <2>1, TryEnds
<1>2. ASSUME NEW m \in turns PROVE child[m].sol \in Nat /\ child[m].path \in Paths
  BY <1>1 DEF Results
<1>3. ASSUME NEW k \in Nat PROVE Failed(k) \in Results
  BY LeafType
<1>4. ASSUME NEW m \in turns
      PROVE  [sol |-> 0, path |-> Append(child[m].path, <<m, ~ahead>>)] \in Results
  <2>1. <<m, ~ahead>> \in Turns \X BOOLEAN
    BY <1>1
  <2>2. Append(child[m].path, <<m, ~ahead>>) \in Paths
    BY <1>2, <2>1 DEF Paths
  <2> QED
    BY <2>2 DEF Results
<1>5. t \in Results
  <2>1. ASSUME NEW m \in turns, t = [sol |-> 0, path |-> Append(child[m].path, <<m, ~ahead>>)]
        PROVE  t \in Results
    BY <2>1, <1>4, Zenon
  <2>2. ASSUME NEW m \in turns, child[m].sol > n + 1, t = Failed(child[m].sol - 1)
        PROVE  t \in Results
    <3>1. child[m].sol \in Nat /\ n + 1 \in Nat
      BY <1>2
    <3>2. child[m].sol - 1 \in Nat
      BY <2>2, <3>1
    <3> QED
      BY <2>2, <3>2, <1>3
  <2>3. ASSUME t = Failed(IF look.prune = 0 THEN 1 ELSE look.prune)
        PROVE  t \in Results
    BY <2>3, <1>3
  <2> QED
    BY <1>1, <2>1, <2>2, <2>3, Zenon DEF Outcome
<1> QED
  BY <1>5 DEF t

(* What lookup returns is a Looks record, and a visit acts on it.          *)
LEMMA VisitIs ==
  ASSUME NEW n \in Nat, NEW c \in Calls, NEW below, NEW look,
         look = Lookup(c.p, n, c.skip, c.val, c.stray)
  PROVE  Visit(n, c, below) =
           IF look.prune > n THEN Failed(look.prune)
           ELSE Try(n, c, look, Forward(AtEnd(c, look), AtStart(c, look), look.vals), below)
<1>1. /\ c.p \in Pos /\ c.skip \in (0..5) \union {NoView} /\ c.val \in 0..15
      /\ c.stray \in SUBSET (0..5)
  BY DEF Calls
<1>2. look.prune \in 0..16 /\ look.vals \in [0..5 -> 0..15] /\ look.mask \in SUBSET (0..5)
  BY <1>1, LookupType
<1>3. look = [prune |-> look.prune, vals |-> look.vals, mask |-> look.mask]
  <2>1. \E a, b, e : look = [prune |-> a, vals |-> b, mask |-> e]
    BY ZenonT(30) DEF Lookup
  <2> QED
    BY <2>1
<1>4. look \in Looks
  BY <1>2, <1>3 DEF Looks
<1> QED
  BY <1>4 DEF Visit

LEMMA VisitType ==
  ASSUME NEW n \in Nat, NEW c \in Calls, NEW below \in [Calls -> Results]
  PROVE  Visit(n, c, below) \in Results
<1> DEFINE look == Lookup(c.p, n, c.skip, c.val, c.stray)
           ahead == Forward(AtEnd(c, look), AtStart(c, look), look.vals)
<1>1. /\ c.p \in Pos /\ c.skip \in (0..5) \union {NoView} /\ c.val \in 0..15
      /\ c.stray \in SUBSET (0..5)
  BY DEF Calls
<1>2. Visit(n, c, below) = IF look.prune > n THEN Failed(look.prune) ELSE Try(n, c, look, ahead, below)
  BY VisitIs
<1>3. ahead \in BOOLEAN
  BY DEF Forward
<1> HIDE DEF look, ahead
<1>4. look = Lookup(c.p, n, c.skip, c.val, c.stray)
  BY DEF look
<1>5. look.prune \in 0..16 /\ look.vals \in [0..5 -> 0..15]
  BY <1>1, <1>4, LookupType
<1>6. Failed(look.prune) \in Results
  BY <1>5, LeafType
<1>7. Try(n, c, look, ahead, below) \in Results
  BY <1>3, <1>5, TryType
<1> QED
  BY <1>2, <1>6, <1>7

(* The recursion of search is well defined.                                *)
LEMMA SearchDefined ==
  /\ Search \in [0..MaxDepth -> [Calls -> Results]]
  /\ \A c \in Calls : Search[0][c] = IF c.p = Solved THEN Success ELSE Failed(1)
  /\ \A n \in 1..MaxDepth : /\ n - 1 \in 0..MaxDepth
                            /\ \A c \in Calls : Search[n][c] = Visit(n, c, Search[n - 1])
<1> DEFINE S == [Calls -> Results]
           base == [c \in Calls |-> IF c.p = Solved THEN Success ELSE Failed(1)]
           step == [n \in 1..MaxDepth |-> [g \in S |-> [c \in Calls |-> Visit(n, c, g)]]]
<1>1. MaxDepth \in Nat
  BY DEF MaxDepth
<1>2. base \in S
  <2>1. Success \in Results /\ Failed(1) \in Results
    BY LeafType
  <2> QED
    BY <2>1
<1>3. step \in [1..MaxDepth -> [S -> S]]
  <2>1. ASSUME NEW n \in 1..MaxDepth, NEW g \in S PROVE [c \in Calls |-> Visit(n, c, g)] \in S
    <3>1. \A c \in Calls : Visit(n, c, g) \in Results
      BY VisitType, <1>1
    <3> QED
      BY <3>1
  <2> HIDE DEF S
  <2> QED
    BY <2>1
<1>4. \A n \in 1..MaxDepth, g \in S : step[n][g] = [c \in Calls |-> Visit(n, c, g)]
  <2> HIDE DEF S
  <2> QED
    OBVIOUS
<1> HIDE DEF S, step, base
<1>5. PICK f \in [0..MaxDepth -> S] :
        f[0] = base /\ \A i \in 1..MaxDepth : f[i] = step[i][f[i - 1]]
  <2>1. Steps(S, MaxDepth, step)
    BY <1>3 DEF Steps
  <2>2. \E f : Iteration(f, S, base, MaxDepth, step)
    BY <1>1, <1>2, <2>1, IterationExists
  <2> QED
    BY <2>2 DEF Iteration
<1> DEFINE rec(g) == [n \in 0..MaxDepth |-> IF n = 0 THEN base ELSE [c \in Calls |-> Visit(n, c, g[n - 1])]]
<1>6. f = rec(f)
  <2>1. ASSUME NEW n \in 0..MaxDepth
        PROVE  f[n] = IF n = 0 THEN base ELSE [c \in Calls |-> Visit(n, c, f[n - 1])]
    <3>1. CASE n = 0
      BY <3>1, <1>5
    <3>2. CASE n # 0
      <4>1. n \in 1..MaxDepth /\ n - 1 \in 0..MaxDepth
        BY <3>2, <1>1
      <4>2. f[n - 1] \in S
        BY <4>1
      <4> QED
        BY <3>2, <4>1, <4>2, <1>4, <1>5
    <3> QED
      BY <3>1, <3>2
  <2> QED
    BY <2>1, Zenon
<1>7. Search = CHOOSE g : g = rec(g)
  BY DEF Search, base
<1>8. Search = rec(Search)
  <2> HIDE DEF rec
  <2> QED
    BY <1>6, <1>7, Zenon
<1>9. Search[0] = base
  BY <1>1, <1>8
<1>10. ASSUME NEW n \in 1..MaxDepth
       PROVE  n \in 0..MaxDepth /\ n - 1 \in 0..MaxDepth /\ Search[n] = [c \in Calls |-> Visit(n, c, Search[n - 1])]
  <2>1. n \in 0..MaxDepth /\ n # 0 /\ n - 1 \in 0..MaxDepth
    BY <1>1
  <2>2. rec(Search)[n] = [c \in Calls |-> Visit(n, c, Search[n - 1])]
    BY <2>1
  <2> QED
    BY <2>1, <2>2, <1>8, Zenon
<1>11. \A n \in 0..MaxDepth : Search[n] \in S
  <2> DEFINE T == {n \in 0..MaxDepth : Search[n] \in S}
  <2>1. 0 \in T
    BY <1>1, <1>2, <1>9
  <2>2. ASSUME NEW n \in 0..MaxDepth, n # MaxDepth, n \in T PROVE n + 1 \in T
    <3>1. n + 1 \in 1..MaxDepth /\ (n + 1) - 1 = n
      BY <1>1, <2>2
    <3>2. Search[n + 1] = [c \in Calls |-> Visit(n + 1, c, Search[n])]
      BY <1>10, <3>1
    <3>3. \A c \in Calls : Visit(n + 1, c, Search[n]) \in Results
      BY <2>2, <3>1, VisitType DEF S
    <3> QED
      BY <3>1, <3>2, <3>3, <1>10 DEF S
  <2> HIDE DEF T
  <2>3. \A n \in 0..MaxDepth : n \in T
    BY <1>1, <2>1, <2>2, InductionUpTo
  <2> QED
    BY <2>3 DEF T
<1>12. Search \in [0..MaxDepth -> S]
  <2>1. DOMAIN Search = 0..MaxDepth
    BY <1>8
  <2>2. Search = [n \in 0..MaxDepth |-> Search[n]]
    BY <1>8, <2>1
  <2> QED
    BY <1>11, <2>2
<1>13. \A c \in Calls : Search[0][c] = IF c.p = Solved THEN Success ELSE Failed(1)
  BY <1>9 DEF base
<1>14. \A n \in 1..MaxDepth : /\ n - 1 \in 0..MaxDepth
                              /\ \A c \in Calls : Search[n][c] = Visit(n, c, Search[n - 1])
  BY <1>10
<1> QED
  BY <1>12, <1>13, <1>14 DEF S

(* One call of search, taken apart.                                        *)
Node(n, c, look, ahead, turns, child, t) ==
  /\ look = Lookup(c.p, n, c.skip, c.val, c.stray)
  /\ turns = TurnsAt(c, look, ahead)
  /\ \A m \in turns : child[m] = Search[n - 1][Below(c, look.vals, ahead, m)]
  /\ Search[n][c] = IF look.prune > n THEN Failed(look.prune) ELSE t
  /\ Outcome(n, look, ahead, turns, child, t)

LEMMA SearchStep ==
  ASSUME NEW n \in 1..MaxDepth, NEW c \in Calls
  PROVE  \E look, t : \E ahead \in BOOLEAN, turns \in SUBSET Turns : \E child \in [turns -> Results] :
           /\ Node(n, c, look, ahead, turns, child, t)
           /\ look.prune \in 0..16 /\ look.vals \in [0..5 -> 0..15] /\ look.mask \in SUBSET (0..5)
<1> DEFINE look == Lookup(c.p, n, c.skip, c.val, c.stray)
           ahead == Forward(AtEnd(c, look), AtStart(c, look), look.vals)
           turns == TurnsAt(c, look, ahead)
           child == [m \in turns |-> Search[n - 1][Below(c, look.vals, ahead, m)]]
           t == Try(n, c, look, ahead, Search[n - 1])
<1>1. /\ c.p \in Pos /\ c.skip \in (0..5) \union {NoView} /\ c.val \in 0..15
      /\ c.stray \in SUBSET (0..5)
  BY DEF Calls
<1>2. n \in Nat /\ n - 1 \in 0..MaxDepth /\ Search[n - 1] \in [Calls -> Results]
  <2>1. MaxDepth \in Nat
    BY DEF MaxDepth
  <2>2. n - 1 \in 0..MaxDepth
    BY SearchDefined
  <2> QED
    BY <2>1, <2>2, SearchDefined
<1>3. Search[n][c] = Visit(n, c, Search[n - 1])
  BY SearchDefined
<1>4. Visit(n, c, Search[n - 1]) = IF look.prune > n THEN Failed(look.prune) ELSE t
  BY <1>2, VisitIs
<1>5. ahead \in BOOLEAN
  BY DEF Forward
<1>6. look.prune \in 0..16 /\ look.vals \in [0..5 -> 0..15] /\ look.mask \in SUBSET (0..5)
  <2> HIDE DEF look
  <2>1. look = Lookup(c.p, n, c.skip, c.val, c.stray)
    BY DEF look
  <2> QED
    BY <1>1, <1>2, <2>1, LookupType
<1>7. look = Lookup(c.p, n, c.skip, c.val, c.stray)
  OBVIOUS
<1> HIDE DEF look, ahead
<1>8. Tried(n, c, look, ahead, Search[n - 1], turns, child, t)
  BY DEF Tried
<1>9. \A m \in turns : child[m] = Search[n - 1][Below(c, look.vals, ahead, m)]
  OBVIOUS
<1>10. turns = TurnsAt(c, look, ahead)
  OBVIOUS
<1> HIDE DEF turns, child, t
<1>11. turns \subseteq Turns /\ child \in [turns -> Results] /\ Outcome(n, look, ahead, turns, child, t)
  BY <1>2, <1>5, <1>6, <1>8, TryEnds
<1>12. Node(n, c, look, ahead, turns, child, t)
  BY <1>3, <1>4, <1>7, <1>9, <1>10, <1>11 DEF Node
<1> QED
  BY <1>5, <1>6, <1>11, <1>12

(* The turns M of the end that is searched, and R of the other end.        *)
LEMMA BelowFields ==
  ASSUME NEW c \in Calls, NEW vals \in [0..5 -> 0..15], NEW ahead \in BOOLEAN, NEW m \in Turns,
         NEW b, b = Below(c, vals, ahead, m)
  PROVE  /\ b \in Calls
         /\ b.stray = c.stray
         /\ ahead  => b.p = Move[m][c.p] /\ b.last = Face(m) /\ b.lastR = c.lastR
         /\ ~ahead => b.p = Premove[m][c.p] /\ b.last = c.last /\ b.lastR = Face(m)
         /\ (\A v \in 0..5 : vals[v] <= Prune[v][c.p]) => Known(b.skip, b.val, b.p)
<1> DEFINE view == Axis(Face(m)) + IF ahead THEN 3 ELSE 0
<1>1. c.p \in Pos
  BY DEF Calls
<1>2. Prune[view][IF ahead THEN Move[m][c.p] ELSE Premove[m][c.p]] = Prune[view][c.p]
  BY <1>1, TableAssumption, TurnTypes
<1>3. view \in 0..5
  BY TurnTypes
<1>4. b \in Calls
  BY BelowType
<1>5. b = [p |-> IF ahead THEN Move[m][c.p] ELSE Premove[m][c.p],
           last |-> IF ahead THEN Face(m) ELSE c.last, lastR |-> IF ahead THEN c.lastR ELSE Face(m),
           skip |-> view, val |-> vals[view], stray |-> c.stray]
  BY DEF Below
<1> HIDE DEF view
<1>6. /\ b.p = IF ahead THEN Move[m][c.p] ELSE Premove[m][c.p]
      /\ b.last = IF ahead THEN Face(m) ELSE c.last
      /\ b.lastR = IF ahead THEN c.lastR ELSE Face(m)
      /\ b.skip = view /\ b.val = vals[view] /\ b.stray = c.stray
  BY <1>5
<1>7. (\A v \in 0..5 : vals[v] <= Prune[v][c.p]) => Known(b.skip, b.val, b.p)
  BY <1>2, <1>3, <1>6 DEF Known
<1> QED
  BY <1>4, <1>6, <1>7

(* A value that search returns is a lower bound of the distance: no turn   *)
(* and no child is cut for a value that is too large.                      *)
LEMMA SearchAdmissible ==
  ASSUME NEW n \in 0..MaxDepth, NEW c \in Calls, Known(c.skip, c.val, c.p), Search[n][c].sol # 0
  PROVE  Search[n][c].sol = 1 \/ Search[n][c].sol <= Dist[c.p]
<1> DEFINE Low(k, b) == Search[k][b].sol \in {0, 1} \/ Search[k][b].sol <= Dist[b.p]
           T == {k \in 0..MaxDepth : \A b \in Calls : Known(b.skip, b.val, b.p) => Low(k, b)}
<1>1. MaxDepth \in Nat
  BY DEF MaxDepth
<1>2. 0 \in T
  <2>1. ASSUME NEW b \in Calls PROVE Low(0, b)
    BY SearchDefined DEF Success, Failed
  <2> QED
    BY <1>1, <2>1
<1>3. ASSUME NEW k \in 0..MaxDepth, k # MaxDepth, k \in T PROVE k + 1 \in T
  <2> DEFINE i == k + 1
  <2>1. i \in 1..MaxDepth /\ i \in 0..MaxDepth /\ i - 1 = k /\ i \in Nat
    BY <1>1, <1>3
  <2> HIDE DEF i
  <2>2. ASSUME NEW b \in Calls, Known(b.skip, b.val, b.p) PROVE Low(i, b)
    <3>1. PICK look, t : \E ahead \in BOOLEAN, turns \in SUBSET Turns : \E child \in [turns -> Results] :
            /\ Node(i, b, look, ahead, turns, child, t)
            /\ look.prune \in 0..16 /\ look.vals \in [0..5 -> 0..15] /\ look.mask \in SUBSET (0..5)
      BY <2>1, SearchStep
    <3>2. PICK ahead \in BOOLEAN, turns \in SUBSET Turns : \E child \in [turns -> Results] :
            /\ Node(i, b, look, ahead, turns, child, t)
            /\ look.prune \in 0..16 /\ look.vals \in [0..5 -> 0..15] /\ look.mask \in SUBSET (0..5)
      BY <3>1
    <3>3. PICK child \in [turns -> Results] :
            /\ Node(i, b, look, ahead, turns, child, t)
            /\ look.prune \in 0..16 /\ look.vals \in [0..5 -> 0..15] /\ look.mask \in SUBSET (0..5)
      BY <3>2
    <3>4. b.p \in Pos /\ b.skip \in (0..5) \union {NoView} /\ b.val \in 0..15 /\ b.stray \in SUBSET (0..5)
      BY DEF Calls
    <3>5. look.prune <= Dist[b.p] /\ \A v \in 0..5 : look.vals[v] <= Prune[v][b.p]
      <4>1. look = Lookup(b.p, i, b.skip, b.val, b.stray)
        BY <3>3 DEF Node
      <4> QED
        BY <2>1, <2>2, <3>4, <4>1, LookupType
    <3>6. CASE look.prune > i
      <4>1. Search[i][b] = Failed(look.prune)
        BY <3>3, <3>6 DEF Node
      <4> QED
        BY <3>5, <4>1 DEF Failed
    <3>7. CASE ~(look.prune > i)
      <4>1. Search[i][b] = t /\ Outcome(i, look, ahead, turns, child, t)
        BY <3>3, <3>7 DEF Node
      <4>2. ASSUME NEW m \in turns, child[m].sol > i + 1 PROVE child[m].sol - 1 <= Dist[b.p]
        <5> DEFINE a == Below(b, look.vals, ahead, m)
        <5>1. m \in Turns
          BY <3>2
        <5>2. child[m] = Search[k][a]
          BY <2>1, <3>3 DEF Node
        <5> HIDE DEF a
        <5>3. a \in Calls /\ Known(a.skip, a.val, a.p)
              /\ (a.p = Move[m][b.p] \/ a.p = Premove[m][b.p])
          <6>1. a = Below(b, look.vals, ahead, m)
            BY DEF a
          <6>2. look.vals \in [0..5 -> 0..15]
            BY <3>3
          <6>3. /\ a \in Calls
                /\ ahead  => a.p = Move[m][b.p]
                /\ ~ahead => a.p = Premove[m][b.p]
                /\ (\A v \in 0..5 : look.vals[v] <= Prune[v][b.p]) => Known(a.skip, a.val, a.p)
            BY SMTT(30), <5>1, <6>1, <6>2, BelowFields
          <6> QED
            BY <3>5, <6>3
        <5>4. Low(k, a)
          BY <1>3, <5>3
        <5>5. child[m].sol \in Nat
          BY <3>3 DEF Results
        <5>6. child[m].sol <= Dist[a.p]
          BY <2>1, <4>2, <5>2, <5>4, <5>5
        <5>7. Dist[a.p] <= Dist[b.p] + 1
          BY <3>4, <5>1, <5>3, BothSides DEF Side
        <5>8. Dist[a.p] \in Nat /\ Dist[b.p] \in Nat
          BY <3>4, <5>3, DistAssumption DEF Calls
        <5> QED
          BY <5>5, <5>6, <5>7, <5>8
      <4>3. t.sol \in {0, 1} \/ t.sol <= Dist[b.p]
        <5>1. CASE \E m \in turns : child[m].sol > i + 1 /\ t = Failed(child[m].sol - 1)
          BY <4>2, <5>1 DEF Failed
        <5>2. CASE t = Failed(IF look.prune = 0 THEN 1 ELSE look.prune)
          BY <3>5, <5>2 DEF Failed
        <5>3. CASE \E m \in turns : t = [sol |-> 0, path |-> Append(child[m].path, <<m, ~ahead>>)]
          BY <5>3
        <5> QED
          BY <4>1, <5>1, <5>2, <5>3 DEF Outcome
      <4> QED
        BY <4>1, <4>3
    <3> QED
      BY <3>6, <3>7
  <2> HIDE DEF Low
  <2>3. i \in T
    BY <2>1, <2>2
  <2> QED
    BY <2>3 DEF i
<1>4. \A k \in 0..MaxDepth : k \in T
  <2> HIDE DEF T
  <2> QED
    BY <1>1, <1>2, <1>3, InductionUpTo
<1>5. Low(n, c)
  BY <1>4
<1> QED
  BY <1>5

-----------------------------------------------------------------------------
(***************************************************************************)
(* Sequences of turns.                                                     *)
(***************************************************************************)
Trail(f, p, w) ==
  /\ f \in [0..Len(w) -> Pos]
  /\ f[0] = p
  /\ \A k \in 1..Len(w) : f[k] = Move[w[k]][f[k - 1]]

LEMMA MoveType == ASSUME NEW m \in Turns, NEW p \in Pos PROVE Move[m][p] \in Pos
BY SearchAssumption

LEMMA TurnsFrom ==
  ASSUME NEW N \in Nat, NEW p \in Pos, NEW u \in [1..N -> Turns]
  PROVE  \E f \in [0..N -> Pos] : f[0] = p /\ \A k \in 1..N : f[k] = Move[u[k]][f[k - 1]]
<1> DEFINE step == [k \in 1..N |-> [q \in Pos |-> Move[u[k]][q]]]
<1>1. step \in [1..N -> [Pos -> Pos]]
  BY MoveType
<1>2. \A k \in 1..N, q \in Pos : step[k][q] = Move[u[k]][q]
  OBVIOUS
<1> HIDE DEF step
<1>3. PICK f : Iteration(f, Pos, p, N, step)
  <2>1. Steps(Pos, N, step)
    BY <1>1 DEF Steps
  <2> QED
    BY <2>1, IterationExists
<1>4. \A k \in 1..N : f[k - 1] \in Pos
  BY <1>3 DEF Iteration
<1> QED
  BY <1>2, <1>3, <1>4 DEF Iteration

LEMMA TrailExists ==
  ASSUME NEW p \in Pos, NEW w \in Seq(Turns)
  PROVE  \E f : Trail(f, p, w)
<1> DEFINE N == Len(w)
           u == [k \in 1..N |-> w[k]]
<1>1. N \in Nat /\ u \in [1..N -> Turns] /\ \A k \in 1..N : u[k] = w[k]
  OBVIOUS
<1> HIDE DEF u, N
<1>2. PICK f \in [0..N -> Pos] : f[0] = p /\ \A k \in 1..N : f[k] = Move[u[k]][f[k - 1]]
  BY <1>1, TurnsFrom
<1>3. Trail(f, p, w)
  BY <1>1, <1>2 DEF Trail, N
<1> QED
  BY <1>3

(* Apply is the end of the trail.                                          *)
LEMMA TrailApply ==
  ASSUME NEW p \in Pos, NEW w \in Seq(Turns), NEW f, Trail(f, p, w)
  PROVE  Apply(p, w) = f[Len(w)]
<1> DEFINE rec(g) == [k \in 0..Len(w) |-> IF k = 0 THEN p ELSE Move[w[k]][g[k - 1]]]
           after == CHOOSE g : g = rec(g)
           T == {k \in 0..Len(w) : after[k] = f[k]}
<1>1. Len(w) \in Nat
  OBVIOUS
<1>2. f = rec(f)
  <2>1. \A k \in 0..Len(w) : f[k] = IF k = 0 THEN p ELSE Move[w[k]][f[k - 1]]
    BY <1>1 DEF Trail
  <2>2. f = [k \in 0..Len(w) |-> f[k]]
    BY DEF Trail
  <2> QED
    BY <2>1, <2>2
<1>3. after = rec(after)
  <2> HIDE DEF rec
  <2> QED
    BY <1>2, Zenon
<1>4. Apply(p, w) = after[Len(w)]
  BY DEF Apply
<1> HIDE DEF after
<1>5. 0 \in T
  BY <1>1, <1>3 DEF Trail
<1>6. ASSUME NEW k \in 0..Len(w), k # Len(w), k \in T PROVE k + 1 \in T
  <2>1. k + 1 \in 1..Len(w) /\ k + 1 \in 0..Len(w) /\ (k + 1) - 1 = k /\ k + 1 # 0
    BY <1>1, <1>6
  <2>2. after[k + 1] = Move[w[k + 1]][after[k]]
    <3>1. rec(after)[k + 1] = Move[w[k + 1]][after[(k + 1) - 1]]
      BY <2>1
    <3> HIDE DEF rec
    <3> QED
      BY <1>3, <2>1, <3>1
  <2>3. f[k + 1] = Move[w[k + 1]][f[k]]
    BY <2>1 DEF Trail
  <2> QED
    BY <1>6, <2>1, <2>2, <2>3
<1>7. \A k \in 0..Len(w) : k \in T
  <2> HIDE DEF T
  <2> QED
    BY <1>1, <1>5, <1>6, InductionUpTo
<1>8. Len(w) \in T
  BY <1>1, <1>7
<1> QED
  BY <1>4, <1>8

LEMMA ApplyType ==
  ASSUME NEW p \in Pos, NEW w \in Seq(Turns)
  PROVE  Apply(p, w) \in Pos
<1>1. PICK f : Trail(f, p, w)
  BY TrailExists
<1>2. Len(w) \in 0..Len(w)
  OBVIOUS
<1> QED
  BY <1>1, <1>2, TrailApply DEF Trail

LEMMA ApplyNone == ASSUME NEW p \in Pos PROVE Apply(p, <<>>) = p
<1>1. <<>> \in Seq(Turns) /\ Len(<<>>) = 0
  OBVIOUS
<1>2. PICK f : Trail(f, p, <<>>)
  BY <1>1, TrailExists
<1> QED
  BY <1>1, <1>2, TrailApply DEF Trail

LEMMA ApplyFront ==
  ASSUME NEW p \in Pos, NEW m \in Turns, NEW w \in Seq(Turns)
  PROVE  Apply(p, <<m>> \o w) = Apply(Move[m][p], w)
<1> DEFINE v == <<m>> \o w
<1>1. /\ v \in Seq(Turns) /\ Len(v) = Len(w) + 1 /\ Len(w) \in Nat
      /\ v[1] = m /\ \A k \in 2..Len(v) : v[k] = w[k - 1]
  OBVIOUS
<1>2. Move[m][p] \in Pos
  BY MoveType
<1>3. PICK f : Trail(f, Move[m][p], w)
  BY <1>2, TrailExists
<1> DEFINE g == [k \in 0..Len(v) |-> IF k = 0 THEN p ELSE f[k - 1]]
<1> HIDE DEF v
<1>4. g \in [0..Len(v) -> Pos] /\ g[0] = p
  BY <1>1, <1>3 DEF Trail
<1>5. ASSUME NEW k \in 1..Len(v) PROVE g[k] = Move[v[k]][g[k - 1]]
  <2>1. CASE k = 1
    BY <1>1, <1>3, <2>1 DEF Trail
  <2>2. CASE k # 1
    <3>1. k - 1 \in 1..Len(w) /\ k \in 2..Len(v) /\ k - 1 # 0 /\ k # 0 /\ k \in 0..Len(v) /\ k - 1 \in 0..Len(v)
      BY <1>1, <2>2
    <3>2. f[k - 1] = Move[w[k - 1]][f[(k - 1) - 1]]
      BY <1>3, <3>1 DEF Trail
    <3>3. g[k] = f[k - 1] /\ g[k - 1] = f[(k - 1) - 1]
      BY <3>1
    <3> QED
      BY <1>1, <3>1, <3>2, <3>3
  <2> QED
    BY <2>1, <2>2
<1>6. Trail(g, p, v)
  <2> HIDE DEF g
  <2> QED
    BY <1>4, <1>5 DEF Trail
<1>7. Apply(p, v) = g[Len(v)]
  <2> HIDE DEF g
  <2> QED
    BY <1>1, <1>6, TrailApply
<1>8. g[Len(v)] = f[Len(w)]
  BY <1>1
<1>9. Apply(Move[m][p], w) = f[Len(w)]
  BY <1>2, <1>3, TrailApply
<1> QED
  BY <1>7, <1>8, <1>9 DEF v

LEMMA ApplyBack ==
  ASSUME NEW p \in Pos, NEW m \in Turns, NEW w \in Seq(Turns)
  PROVE  Apply(p, Append(w, m)) = Move[m][Apply(p, w)]
<1> DEFINE v == Append(w, m)
<1>1. /\ v \in Seq(Turns) /\ Len(v) = Len(w) + 1 /\ Len(w) \in Nat
      /\ v[Len(v)] = m /\ \A k \in 1..Len(w) : v[k] = w[k]
  OBVIOUS
<1>2. PICK f : Trail(f, p, w)
  BY TrailExists
<1>3. f[Len(w)] \in Pos
  BY <1>1, <1>2 DEF Trail
<1> DEFINE g == [k \in 0..Len(v) |-> IF k = Len(v) THEN Move[m][f[Len(w)]] ELSE f[k]]
<1> HIDE DEF v
<1>4. g \in [0..Len(v) -> Pos] /\ g[0] = p
  <2>1. Move[m][f[Len(w)]] \in Pos
    BY <1>3, MoveType
  <2> QED
    BY <1>1, <1>2, <2>1 DEF Trail
<1>5. ASSUME NEW k \in 1..Len(v) PROVE g[k] = Move[v[k]][g[k - 1]]
  <2>1. CASE k = Len(v)
    <3>1. k - 1 = Len(w) /\ k - 1 # Len(v) /\ k - 1 \in 0..Len(v) /\ k \in 0..Len(v)
      BY <1>1, <2>1
    <3>2. g[k] = Move[m][f[Len(w)]] /\ g[k - 1] = f[Len(w)]
      BY <2>1, <3>1
    <3> QED
      BY <1>1, <2>1, <3>2
  <2>2. CASE k # Len(v)
    <3>1. k \in 1..Len(w) /\ k - 1 # Len(v) /\ k - 1 \in 0..Len(v) /\ k \in 0..Len(v)
      BY <1>1, <2>2
    <3>2. g[k] = f[k] /\ g[k - 1] = f[k - 1]
      BY <2>2, <3>1
    <3>3. f[k] = Move[w[k]][f[k - 1]]
      BY <1>2, <3>1 DEF Trail
    <3> QED
      BY <1>1, <3>1, <3>2, <3>3
  <2> QED
    BY <2>1, <2>2
<1>6. Trail(g, p, v)
  <2> HIDE DEF g
  <2> QED
    BY <1>4, <1>5 DEF Trail
<1>7. Apply(p, v) = g[Len(v)]
  <2> HIDE DEF g
  <2> QED
    BY <1>1, <1>6, TrailApply
<1>8. g[Len(v)] = Move[m][f[Len(w)]]
  BY <1>1
<1>9. Apply(p, w) = f[Len(w)]
  BY <1>2, TrailApply
<1> QED
  BY <1>7, <1>8, <1>9 DEF v

(* Turns after a product leave its first factor alone.                     *)
LEMMA ApplyProduct ==
  ASSUME NEW p \in Pos, NEW q \in Pos, NEW w \in Seq(Turns)
  PROVE  Apply(Product[p][q], w) = Product[p][Apply(q, w)]
<1>1. PICK f : Trail(f, q, w)
  BY TrailExists
<1> DEFINE g == [k \in 0..Len(w) |-> Product[p][f[k]]]
<1>2. \A x \in Pos : Product[p][x] \in Pos
  BY SearchAssumption
<1>3. Len(w) \in Nat /\ \A k \in 1..Len(w) : w[k] \in Turns
  OBVIOUS
<1>4. g \in [0..Len(w) -> Pos] /\ g[0] = Product[p][q]
  BY <1>1, <1>2, <1>3 DEF Trail
<1>5. ASSUME NEW k \in 1..Len(w) PROVE g[k] = Move[w[k]][g[k - 1]]
  <2>1. k \in 0..Len(w) /\ k - 1 \in 0..Len(w)
    BY <1>3
  <2>2. f[k] = Move[w[k]][f[k - 1]] /\ f[k - 1] \in Pos
    BY <1>1, <2>1 DEF Trail
  <2>3. Move[w[k]][Product[p][f[k - 1]]] = Product[p][Move[w[k]][f[k - 1]]]
    BY <1>3, <2>2, Multiplied
  <2>4. g[k] = Product[p][f[k]] /\ g[k - 1] = Product[p][f[k - 1]]
    BY <2>1
  <2> HIDE DEF g
  <2> QED
    BY <2>2, <2>3, <2>4
<1>6. Trail(g, Product[p][q], w)
  <2> HIDE DEF g
  <2> QED
    BY <1>4, <1>5 DEF Trail
<1>7. Apply(Product[p][q], w) = g[Len(w)]
  <2> HIDE DEF g
  <2> QED
    BY <1>2, <1>6, TrailApply
<1>8. Apply(q, w) = f[Len(w)]
  BY <1>1, TrailApply
<1>9. g[Len(w)] = Product[p][f[Len(w)]]
  BY <1>3
<1> QED
  BY <1>7, <1>8, <1>9

LEMMA ApplyPremoved ==
  ASSUME NEW p \in Pos, NEW m \in Turns, NEW w \in Seq(Turns)
  PROVE  Apply(Premove[m][p], w) = Premove[m][Apply(p, w)]
<1>1. Move[m][Solved] \in Pos /\ Apply(p, w) \in Pos
  BY MoveType, ApplyType, SearchAssumption
<1>2. Premove[m][p] = Product[Move[m][Solved]][p]
  BY TurnProduct
<1>3. Premove[m][Apply(p, w)] = Product[Move[m][Solved]][Apply(p, w)]
  BY <1>1, TurnProduct
<1>4. Apply(Product[Move[m][Solved]][p], w) = Product[Move[m][Solved]][Apply(p, w)]
  BY <1>1, ApplyProduct
<1> QED
  BY <1>2, <1>3, <1>4

(* No sequence of turns that solves a position is shorter than Dist.       *)
LEMMA NoShorter ==
  ASSUME NEW p \in Pos, NEW w \in Seq(Turns)
  PROVE  Dist[p] <= Len(w) + Dist[Apply(p, w)]
<1>1. PICK f : Trail(f, p, w)
  BY TrailExists
<1>2. Len(w) \in Nat /\ \A k \in 1..Len(w) : w[k] \in Turns
  OBVIOUS
<1> DEFINE T == {k \in 0..Len(w) : Dist[p] <= k + Dist[f[k]]}
<1>3. \A k \in 0..Len(w) : f[k] \in Pos /\ Dist[f[k]] \in Nat
  BY <1>1, DistAssumption DEF Trail
<1>4. Dist[p] \in Nat
  BY DistAssumption
<1>5. 0 \in T
  BY <1>1, <1>2, <1>4 DEF Trail
<1>6. ASSUME NEW k \in 0..Len(w), k # Len(w), k \in T PROVE k + 1 \in T
  <2>1. k + 1 \in 1..Len(w) /\ k + 1 \in 0..Len(w) /\ (k + 1) - 1 = k
    BY <1>2, <1>6
  <2>2. f[k + 1] = Move[w[k + 1]][f[k]]
    BY <1>1, <2>1 DEF Trail
  <2>3. Dist[f[k]] <= Dist[f[k + 1]] + 1
    BY <1>2, <1>3, <2>1, <2>2, DistAssumption
  <2>4. Dist[f[k]] \in Nat /\ Dist[f[k + 1]] \in Nat /\ k \in Nat
    BY <1>3, <2>1
  <2>5. Dist[p] <= (k + 1) + Dist[f[k + 1]]
    BY <1>4, <1>6, <2>3, <2>4
  <2> QED
    BY <2>1, <2>5
<1>7. \A k \in 0..Len(w) : k \in T
  <2> HIDE DEF T
  <2> QED
    BY <1>2, <1>5, <1>6, InductionUpTo
<1>8. Len(w) \in T
  BY <1>2, <1>7
<1> QED
  BY <1>1, <1>8, TrailApply

-----------------------------------------------------------------------------
(***************************************************************************)
(* get_moves: what a path stands for.                                      *)
(***************************************************************************)
Words == Seq(Turns)
Marked == Turns \X BOOLEAN
Around(x, w) == IF x[2] THEN Append(w, x[1]) ELSE <<x[1]>> \o w

LEMMA AroundType ==
  ASSUME NEW x \in Marked, NEW w \in Words
  PROVE  Around(x, w) \in Words /\ Len(Around(x, w)) = Len(w) + 1
BY DEF Around, Words, Marked

Windings(f, path) ==
  /\ f \in [0..Len(path) -> Words]
  /\ f[0] = <<>>
  /\ \A k \in 1..Len(path) : f[k] = Around(path[k], f[k - 1])

LEMMA WindingsFrom ==
  ASSUME NEW N \in Nat, NEW u \in [1..N -> Marked]
  PROVE  \E f \in [0..N -> Words] : f[0] = <<>> /\ \A k \in 1..N : f[k] = Around(u[k], f[k - 1])
<1> DEFINE step == [k \in 1..N |-> [w \in Words |-> Around(u[k], w)]]
           none == <<>>
<1>1. step \in [1..N -> [Words -> Words]]
  BY AroundType
<1>2. \A k \in 1..N, w \in Words : step[k][w] = Around(u[k], w)
  OBVIOUS
<1>3. none \in Words
  BY DEF Words
<1> HIDE DEF step, none
<1>4. PICK f : Iteration(f, Words, none, N, step)
  <2>1. Steps(Words, N, step)
    BY <1>1 DEF Steps
  <2> QED
    BY <1>3, <2>1, IterationExists
<1>5. \A k \in 1..N : f[k - 1] \in Words
  BY <1>4 DEF Iteration
<1> QED
  BY <1>2, <1>4, <1>5 DEF none, Iteration

LEMMA PathTypes ==
  ASSUME NEW path \in Paths
  PROVE  Len(path) \in Nat /\ \A k \in 1..Len(path) : path[k] \in Marked
BY DEF Paths, Marked

LEMMA WindingsExist ==
  ASSUME NEW path \in Paths
  PROVE  \E f : Windings(f, path)
<1> DEFINE N == Len(path)
           u == [k \in 1..N |-> path[k]]
<1>1. N \in Nat /\ u \in [1..N -> Marked] /\ \A k \in 1..N : u[k] = path[k]
  BY PathTypes
<1> HIDE DEF u, N
<1>2. PICK f \in [0..N -> Words] : f[0] = <<>> /\ \A k \in 1..N : f[k] = Around(u[k], f[k - 1])
  BY <1>1, WindingsFrom
<1>3. Windings(f, path)
  BY <1>1, <1>2 DEF Windings, N
<1> QED
  BY <1>3

(* get_moves ends where the windings do.                                   *)
LEMMA WindingsEnd ==
  ASSUME NEW path \in Paths, NEW f, Windings(f, path)
  PROVE  GetMoves(path) = f[Len(path)]
<1> DEFINE N == Len(path)
           rec(g) == [k \in 0..N |-> IF k = 0 THEN <<>>
                                     ELSE IF path[k][2] THEN Append(g[k - 1], path[k][1])
                                     ELSE <<path[k][1]>> \o g[k - 1]]
           inner == CHOOSE g : g = rec(g)
           T == {k \in 0..N : inner[k] = f[k]}
<1>1. N \in Nat
  BY PathTypes
<1>2. f = rec(f)
  <2>1. ASSUME NEW k \in 0..N
        PROVE  f[k] = IF k = 0 THEN <<>>
                      ELSE IF path[k][2] THEN Append(f[k - 1], path[k][1]) ELSE <<path[k][1]>> \o f[k - 1]
    <3>1. CASE k = 0
      BY <3>1 DEF Windings
    <3>2. CASE k # 0
      <4>1. k \in 1..Len(path)
        BY <1>1, <3>2
      <4>2. f[k] = Around(path[k], f[k - 1])
        BY <4>1 DEF Windings
      <4> QED
        BY <3>2, <4>2, Zenon DEF Around
    <3> QED
      BY <3>1, <3>2
  <2>2. f = [k \in 0..N |-> f[k]]
    BY DEF Windings
  <2> QED
    BY <2>1, <2>2, Zenon
<1>3. inner = rec(inner)
  <2> HIDE DEF rec
  <2> QED
    BY <1>2, Zenon
<1>4. GetMoves(path) = inner[N]
  BY DEF GetMoves
<1> HIDE DEF inner
<1>5. 0 \in T
  <2>1. 0 \in 0..N
    BY <1>1
  <2>2. rec(inner)[0] = <<>>
    BY <2>1
  <2>3. inner[0] = <<>> /\ f[0] = <<>>
    <3> HIDE DEF rec
    <3> QED
      BY <1>3, <2>2 DEF Windings
  <2> QED
    BY <2>1, <2>3
<1>6. ASSUME NEW k \in 0..N, k # N, k \in T PROVE k + 1 \in T
  <2>1. k + 1 \in 1..N /\ k + 1 \in 0..N /\ (k + 1) - 1 = k /\ k + 1 # 0
    BY <1>1, <1>6
  <2>2. inner[k + 1] = Around(path[k + 1], inner[k])
    <3>1. rec(inner)[k + 1] = Around(path[k + 1], inner[(k + 1) - 1])
      BY <2>1, Zenon DEF Around
    <3> HIDE DEF rec
    <3> QED
      BY <1>3, <2>1, <3>1
  <2>3. f[k + 1] = Around(path[k + 1], f[k])
    BY <2>1 DEF Windings
  <2> QED
    BY <1>6, <2>1, <2>2, <2>3
<1>7. \A k \in 0..N : k \in T
  <2> HIDE DEF T, N
  <2> QED
    BY <1>1, <1>5, <1>6, InductionUpTo
<1>8. N \in T
  BY <1>1, <1>7
<1> QED
  BY <1>4, <1>8

LEMMA GetMovesNone == GetMoves(<<>>) = <<>>
<1>1. <<>> \in Paths /\ Len(<<>>) = 0
  BY DEF Paths
<1>2. PICK f : Windings(f, <<>>)
  BY <1>1, WindingsExist
<1>3. GetMoves(<<>>) = f[Len(<<>>)]
  BY <1>1, <1>2, WindingsEnd
<1> QED
  BY <1>1, <1>2, <1>3 DEF Windings

(* The path is as long as the turns it stands for.                         *)
LEMMA GetMovesType ==
  ASSUME NEW path \in Paths
  PROVE  GetMoves(path) \in Words /\ Len(GetMoves(path)) = Len(path)
<1> DEFINE N == Len(path)
<1>1. N \in Nat /\ \A k \in 1..N : path[k] \in Marked
  BY PathTypes
<1>2. PICK f : Windings(f, path)
  BY WindingsExist
<1>3. f \in [0..N -> Words] /\ f[0] = <<>> /\ \A k \in 1..N : f[k] = Around(path[k], f[k - 1])
  BY <1>2 DEF Windings
<1>4. GetMoves(path) = f[N]
  BY <1>2, WindingsEnd
<1> DEFINE T == {k \in 0..N : Len(f[k]) = k}
<1> HIDE DEF N
<1>5. 0 \in T
  BY <1>1, <1>3
<1>6. ASSUME NEW k \in 0..N, k # N, k \in T PROVE k + 1 \in T
  <2>1. k + 1 \in 1..N /\ k + 1 \in 0..N /\ (k + 1) - 1 = k
    BY <1>1, <1>6
  <2>2. f[k + 1] = Around(path[k + 1], f[k])
    BY <1>3, <2>1
  <2>3. path[k + 1] \in Marked /\ f[k] \in Words
    BY <1>1, <1>3, <2>1
  <2>4. Len(f[k + 1]) = k + 1
    BY <1>6, <2>2, <2>3, AroundType
  <2> QED
    BY <2>1, <2>4
<1>7. \A k \in 0..N : k \in T
  <2> HIDE DEF T
  <2> QED
    BY <1>1, <1>5, <1>6, InductionUpTo
<1>8. N \in 0..N /\ N \in T
  BY <1>1, <1>7
<1>9. f[N] \in Words /\ Len(f[N]) = N
  BY <1>3, <1>8
<1> QED
  BY <1>4, <1>9 DEF N

(* One more mark is one more turn at its end.                              *)
LEMMA GetMovesStep ==
  ASSUME NEW path \in Paths, NEW x \in Marked
  PROVE  Append(path, x) \in Paths /\ GetMoves(Append(path, x)) = Around(x, GetMoves(path))
<1> DEFINE more == Append(path, x)
           N == Len(path)
<1>1. /\ more \in Paths /\ Len(more) = N + 1 /\ more[N + 1] = x
      /\ \A k \in 1..N : more[k] = path[k]
  BY DEF Paths, Marked
<1>2. N \in Nat
  BY PathTypes
<1>3. PICK f : Windings(f, path)
  BY WindingsExist
<1>4. f \in [0..N -> Words] /\ f[0] = <<>> /\ \A k \in 1..N : f[k] = Around(path[k], f[k - 1])
  BY <1>3 DEF Windings
<1>5. GetMoves(path) = f[N]
  BY <1>3, WindingsEnd
<1> HIDE DEF more, N
<1> DEFINE g == [k \in 0..(N + 1) |-> IF k = N + 1 THEN Around(x, f[N]) ELSE f[k]]
<1>6. g \in [0..(N + 1) -> Words] /\ g[0] = <<>>
  <2>1. f[N] \in Words
    BY <1>2, <1>4
  <2>2. Around(x, f[N]) \in Words
    BY <2>1, AroundType
  <2> QED
    BY <1>2, <1>4, <2>2
<1>7. ASSUME NEW k \in 1..(N + 1) PROVE g[k] = Around(more[k], g[k - 1])
  <2>1. CASE k = N + 1
    <3>1. k - 1 = N /\ k - 1 # N + 1 /\ k - 1 \in 0..(N + 1) /\ k \in 0..(N + 1)
      BY <1>2, <2>1
    <3>2. g[k] = Around(x, f[N]) /\ g[k - 1] = f[N]
      BY <2>1, <3>1
    <3> QED
      BY <1>1, <2>1, <3>2
  <2>2. CASE k # N + 1
    <3>1. k \in 1..N /\ k - 1 # N + 1 /\ k - 1 \in 0..(N + 1) /\ k \in 0..(N + 1)
      BY <1>2, <2>2
    <3>2. g[k] = f[k] /\ g[k - 1] = f[k - 1]
      BY <2>2, <3>1
    <3> QED
      BY <1>1, <1>4, <3>1, <3>2
  <2> QED
    BY <2>1, <2>2
<1>8. Windings(g, more)
  <2> HIDE DEF g
  <2> QED
    BY <1>1, <1>6, <1>7 DEF Windings
<1>9. GetMoves(more) = g[N + 1]
  <2> HIDE DEF g
  <2> QED
    BY <1>1, <1>8, WindingsEnd
<1>10. g[N + 1] = Around(x, f[N])
  BY <1>2
<1> QED
  BY <1>1, <1>5, <1>9, <1>10 DEF more

-----------------------------------------------------------------------------
(***************************************************************************)
(* Soundness: a path that search answers solves the cube, in as many turns *)
(* as the depth.  This needs neither the tables nor the masks.             *)
(***************************************************************************)
LEMMA OneMore ==
  ASSUME NEW p \in Pos, NEW m \in Turns, NEW ahead \in BOOLEAN, NEW path \in Paths, NEW q,
         q = IF ahead THEN Move[m][p] ELSE Premove[m][p], Apply(q, GetMoves(path)) = Solved
  PROVE  Apply(p, GetMoves(Append(path, <<m, ~ahead>>))) = Solved
<1> DEFINE w == GetMoves(path)
           x == <<m, ~ahead>>
<1>1. w \in Seq(Turns)
  BY GetMovesType DEF Words
<1>2. x \in Marked /\ x[1] = m /\ x[2] = ~ahead
  BY DEF Marked
<1>3. Apply(q, w) = Solved
  OBVIOUS
<1> HIDE DEF w, x
<1>4. GetMoves(Append(path, x)) = Around(x, w)
  BY <1>2, GetMovesStep DEF w
<1>5. CASE ahead
  <2>1. Around(x, w) = <<m>> \o w
    BY <1>2, <1>5 DEF Around
  <2>2. Apply(p, <<m>> \o w) = Apply(Move[m][p], w)
    BY <1>1, ApplyFront
  <2> QED
    BY <1>3, <1>4, <1>5, <2>1, <2>2 DEF x
<1>6. CASE ~ahead
  <2>1. Around(x, w) = Append(w, m)
    BY <1>2, <1>6 DEF Around
  <2>2. Apply(p, Append(w, m)) = Move[m][Apply(p, w)]
    BY <1>1, ApplyBack
  <2>3. Apply(p, w) \in Pos
    BY <1>1, ApplyType
  <2>4. Premove[m][Apply(p, w)] = Solved
    BY <1>1, <1>3, <1>6, ApplyPremoved
  <2>5. Move[m][Apply(p, w)] = Solved
    BY <2>3, <2>4, SolvingTurn
  <2> QED
    BY <1>4, <2>1, <2>2, <2>5 DEF x
<1> QED
  BY <1>5, <1>6

Solves(p, n, r) ==
  r.sol = 0 => r.path \in Paths /\ Len(r.path) = n /\ Apply(p, GetMoves(r.path)) = Solved

LEMMA SearchSound ==
  ASSUME NEW n \in 0..MaxDepth, NEW c \in Calls
  PROVE  Solves(c.p, n, Search[n][c])
<1> DEFINE T == {k \in 0..MaxDepth : \A b \in Calls : Solves(b.p, k, Search[k][b])}
<1>1. MaxDepth \in Nat
  BY DEF MaxDepth
<1>2. 0 \in T
  <2>1. ASSUME NEW b \in Calls PROVE Solves(b.p, 0, Search[0][b])
    <3>1. b.p \in Pos
      BY DEF Calls
    <3>2. CASE b.p = Solved
      <4>1. Search[0][b] = Success
        BY <3>2, SearchDefined
      <4>2. Success.path = <<>> /\ <<>> \in Paths /\ Len(<<>>) = 0
        BY DEF Success, Paths
      <4>3. Apply(b.p, GetMoves(<<>>)) = Solved
        BY <3>1, <3>2, ApplyNone, GetMovesNone
      <4> QED
        BY <4>1, <4>2, <4>3 DEF Solves
    <3>3. CASE b.p # Solved
      BY <3>3, SearchDefined DEF Solves, Failed
    <3> QED
      BY <3>2, <3>3
  <2> QED
    BY <1>1, <2>1
<1>3. ASSUME NEW k \in 0..MaxDepth, k # MaxDepth, k \in T PROVE k + 1 \in T
  <2> DEFINE i == k + 1
  <2>1. i \in 1..MaxDepth /\ i \in 0..MaxDepth /\ i - 1 = k /\ i \in Nat /\ i = k + 1
    BY <1>1, <1>3
  <2> HIDE DEF i
  <2>2. ASSUME NEW b \in Calls PROVE Solves(b.p, i, Search[i][b])
    <3>1. PICK look, t : \E ahead \in BOOLEAN, turns \in SUBSET Turns : \E child \in [turns -> Results] :
            /\ Node(i, b, look, ahead, turns, child, t)
            /\ look.prune \in 0..16 /\ look.vals \in [0..5 -> 0..15] /\ look.mask \in SUBSET (0..5)
      BY <2>1, SearchStep
    <3>2. PICK ahead \in BOOLEAN, turns \in SUBSET Turns : \E child \in [turns -> Results] :
            /\ Node(i, b, look, ahead, turns, child, t)
            /\ look.prune \in 0..16 /\ look.vals \in [0..5 -> 0..15] /\ look.mask \in SUBSET (0..5)
      BY <3>1
    <3>3. PICK child \in [turns -> Results] :
            /\ Node(i, b, look, ahead, turns, child, t)
            /\ look.prune \in 0..16 /\ look.vals \in [0..5 -> 0..15] /\ look.mask \in SUBSET (0..5)
      BY <3>2
    <3>4. b.p \in Pos
      BY DEF Calls
    <3>5. SUFFICES ASSUME Search[i][b].sol = 0 PROVE Solves(b.p, i, Search[i][b])
      BY DEF Solves
    <3>6. ~(look.prune > i)
      <4>1. SUFFICES ASSUME look.prune > i PROVE FALSE
        OBVIOUS
      <4>2. Search[i][b] = Failed(look.prune) /\ look.prune # 0
        BY <2>1, <3>3, <4>1 DEF Node
      <4> QED
        BY <3>5, <4>2 DEF Failed
    <3>7. Search[i][b] = t /\ t.sol = 0 /\ Outcome(i, look, ahead, turns, child, t)
      BY <3>3, <3>5, <3>6 DEF Node
    <3>8. \A m \in turns : child[m].sol \in Nat /\ child[m].path \in Paths
      BY <3>3 DEF Results
    <3>9. PICK m \in turns : /\ child[m].sol = 0
                             /\ t = [sol |-> 0, path |-> Append(child[m].path, <<m, ~ahead>>)]
      <4>1. ASSUME NEW m \in turns, child[m].sol > i + 1 PROVE t # Failed(child[m].sol - 1)
        BY <2>1, <3>7, <3>8, <4>1 DEF Failed
      <4>2. t # Failed(IF look.prune = 0 THEN 1 ELSE look.prune)
        BY <3>7 DEF Failed
      <4> QED
        BY <3>7, <4>1, <4>2 DEF Outcome
    <3> DEFINE a == Below(b, look.vals, ahead, m)
    <3>10. m \in Turns
      BY <3>2
    <3>11. child[m] = Search[k][a]
      BY <2>1, <3>3 DEF Node
    <3>12. a \in Calls /\ a.p = IF ahead THEN Move[m][b.p] ELSE Premove[m][b.p]
      <4> HIDE DEF a
      <4>1. a = Below(b, look.vals, ahead, m)
        BY DEF a
      <4>2. look.vals \in [0..5 -> 0..15]
        BY <3>3
      <4>3. a \in Calls /\ (ahead => a.p = Move[m][b.p]) /\ (~ahead => a.p = Premove[m][b.p])
        BY <3>10, <4>1, <4>2, BelowFields
      <4> QED
        BY <4>3
    <3> HIDE DEF a
    <3> DEFINE path == child[m].path
    <3>13. path \in Paths /\ Len(path) = k /\ Apply(a.p, GetMoves(path)) = Solved
      <4>1. Solves(a.p, k, child[m])
        BY <1>3, <3>11, <3>12
      <4> QED
        BY <3>9, <4>1 DEF Solves
    <3>14. t.path = Append(path, <<m, ~ahead>>)
      BY <3>9
    <3> HIDE DEF path
    <3>15. Apply(b.p, GetMoves(t.path)) = Solved
      BY <3>4, <3>10, <3>12, <3>13, <3>14, OneMore
    <3>16. t.path \in Paths /\ Len(t.path) = i
      <4>1. <<m, ~ahead>> \in Turns \X BOOLEAN
        BY <3>10
      <4> QED
        BY <2>1, <3>13, <3>14, <4>1 DEF Paths
    <3> QED
      BY <3>7, <3>15, <3>16 DEF Solves
  <2>3. i \in T
    BY <2>1, <2>2
  <2> QED
    BY <2>1, <2>3
<1>4. \A k \in 0..MaxDepth : k \in T
  <2> HIDE DEF T
  <2> QED
    BY <1>1, <1>2, <1>3, InductionUpTo
<1> QED
  BY <1>4

-----------------------------------------------------------------------------
(***************************************************************************)
(* Completeness: a call at the distance of its cube answers a solution.    *)
(* The turns a call may still use at its two ends leave a shortest         *)
(* solution, and one that a child may finish.                              *)
(***************************************************************************)
(* No turn of face f shortens the solution.                                *)
Spent(M, p, f) == \A m \in Turns : Face(m) = f => Dist[p] <= Dist[M[m][p]]

Open(M, R, p, f, g) ==
  /\ Spent(M, p, f)
  /\ Spent(R, p, g)
  /\ Dist[p] = 1 => \E a \in Followers(f) \intersect Followers(g) : M[a][p] = Solved
  /\ Dist[p] >= 2 => \E a \in Followers(f), b \in Followers(g) :
                       Dist[R[b][M[a][p]]] = Dist[p] - 2

LEMMA SideTypes ==
  ASSUME NEW M, NEW R, Side(M, R), NEW m \in Turns, NEW p \in Pos
  PROVE  /\ M[m][p] \in Pos /\ R[m][p] \in Pos
         /\ Dist[p] \in Nat /\ Dist[M[m][p]] \in Nat /\ Dist[R[m][p]] \in Nat
         /\ Dist[p] <= Dist[M[m][p]] + 1 /\ Dist[M[m][p]] <= Dist[p] + 1
<1>1. M[m][p] \in Pos /\ R[m][p] \in Pos
  BY DEF Side
<1>2. Dist[p] \in Nat /\ Dist[M[m][p]] \in Nat /\ Dist[R[m][p]] \in Nat
  BY <1>1, DistAssumption
<1>3. Dist[p] <= Dist[M[m][p]] + 1 /\ Dist[M[m][p]] <= Dist[p] + 1
  BY DEF Side
<1> QED
  BY <1>1, <1>2, <1>3

LEMMA SidesCommute ==
  ASSUME NEW M, NEW R, Side(M, R), NEW m \in Turns, NEW n \in Turns, NEW p \in Pos
  PROVE  M[m][R[n][p]] = R[n][M[m][p]]
BY DEF Side

LEMMA FollowerType == ASSUME NEW f PROVE Followers(f) \subseteq Turns
BY DEF Followers

(* The two ends are alike.                                                 *)
LEMMA OpenAlike ==
  ASSUME NEW M, NEW R, Side(M, R), NEW p \in Pos, NEW f, NEW g, Open(M, R, p, f, g)
  PROVE  Open(R, M, p, g, f)
<1>1. Spent(M, p, f) /\ Spent(R, p, g)
  BY DEF Open
<1>2. ASSUME Dist[p] = 1 PROVE \E a \in Followers(g) \intersect Followers(f) : R[a][p] = Solved
  <2>1. PICK a \in Followers(f) \intersect Followers(g) : M[a][p] = Solved
    BY <1>2 DEF Open
  <2>2. a \in Turns
    BY FollowerType
  <2>3. R[a][p] = Solved
    BY <2>1, <2>2 DEF Side
  <2> QED
    BY <2>3
<1>3. ASSUME Dist[p] >= 2
      PROVE  \E a \in Followers(g), b \in Followers(f) : Dist[M[b][R[a][p]]] = Dist[p] - 2
  <2>1. PICK a \in Followers(f), b \in Followers(g) : Dist[R[b][M[a][p]]] = Dist[p] - 2
    BY <1>3 DEF Open
  <2>2. a \in Turns /\ b \in Turns
    BY FollowerType
  <2>3. M[a][R[b][p]] = R[b][M[a][p]]
    BY <2>2, SidesCommute
  <2> QED
    BY <2>1, <2>3
<1> QED
  BY <1>1, <1>2, <1>3 DEF Open

(* After a turn that shortens, its face is spent, and what was spent at    *)
(* the other end still is.                                                 *)
LEMMA SpentBelow ==
  ASSUME NEW M, NEW R, Side(M, R), NEW p \in Pos, NEW g, Spent(R, p, g),
         NEW a \in Turns, Dist[M[a][p]] = Dist[p] - 1
  PROVE  Spent(M, M[a][p], Face(a)) /\ Spent(R, M[a][p], g)
<1>1. M[a][p] \in Pos /\ Dist[p] \in Nat
  BY SideTypes
<1>2. ASSUME NEW m \in Turns, Face(m) = Face(a) PROVE Dist[M[a][p]] <= Dist[M[m][M[a][p]]]
  <2>1. M[m][M[a][p]] \in {p} \union {M[k][p] : k \in Turns}
    BY <1>2 DEF Side
  <2>2. \A k \in Turns : Dist[M[k][p]] \in Nat /\ Dist[p] <= Dist[M[k][p]] + 1
    BY SideTypes
  <2>3. CASE M[m][M[a][p]] = p
    BY <1>1, <2>3
  <2>4. CASE \E k \in Turns : M[m][M[a][p]] = M[k][p]
    <3>1. PICK k \in Turns : M[m][M[a][p]] = M[k][p]
      BY <2>4
    <3>2. Dist[M[k][p]] \in Nat /\ Dist[p] <= Dist[M[k][p]] + 1
      BY <2>2
    <3>3. Dist[p] - 1 <= Dist[M[k][p]]
      BY <1>1, <3>2
    <3> QED
      BY <3>1, <3>3
  <2> QED
    BY <2>1, <2>3, <2>4
<1>3. ASSUME NEW m \in Turns, Face(m) = g PROVE Dist[M[a][p]] <= Dist[R[m][M[a][p]]]
  <2>1. R[m][M[a][p]] = M[a][R[m][p]]
    BY SidesCommute
  <2>2. R[m][p] \in Pos /\ Dist[R[m][p]] \in Nat
    BY SideTypes
  <2>3. Dist[M[a][R[m][p]]] \in Nat /\ Dist[R[m][p]] <= Dist[M[a][R[m][p]]] + 1
    BY <2>2, SideTypes
  <2>4. Dist[p] <= Dist[R[m][p]]
    BY <1>3 DEF Spent
  <2>5. Dist[p] - 1 <= Dist[M[a][R[m][p]]]
    BY <1>1, <2>2, <2>3, <2>4
  <2> QED
    BY <2>1, <2>5
<1> QED
  BY <1>2, <1>3 DEF Spent

(* Of two turns of different faces one may follow the other, or they are   *)
(* of opposite faces and commute.                                          *)
LEMMA FollowOrSwap ==
  ASSUME NEW a \in Turns, NEW b \in Turns, Face(a) # Face(b)
  PROVE  \/ b \in Followers(Face(a))
         \/ /\ a \in Followers(Face(b))
            /\ Axis(Face(a)) = Axis(Face(b))
            /\ Face(a) \in 3..5 /\ Face(b) = Face(a) - 3
<1>1. Face(a) \in 0..5 /\ Face(b) \in 0..5
  BY TurnTypes
<1>2. CASE Face(a) \in 3..5 /\ Face(b) = Face(a) - 3
  <2>1. Axis(Face(a)) = Axis(Face(b))
    BY <1>1, <1>2 DEF Axis
  <2>2. a \in Followers(Face(b))
    BY <1>1, <1>2 DEF Followers
  <2> QED
    BY <1>2, <2>1, <2>2
<1>3. CASE ~(Face(a) \in 3..5 /\ Face(b) = Face(a) - 3)
  BY <1>3 DEF Followers
<1> QED
  BY <1>2, <1>3

(* A turn whose opposite may follow face f may follow it as well, unless   *)
(* it is of that face.                                                     *)
LEMMA OppositeFollows ==
  ASSUME NEW a \in Turns, NEW b \in Turns, Face(a) \in 3..5, Face(b) = Face(a) - 3, NEW f
  PROVE  /\ a \in Followers(f) /\ Face(b) # f => b \in Followers(f)
         /\ b \in Followers(f) /\ f \in 0..6 => a \in Followers(f)
<1>1. ASSUME a \in Followers(f), Face(b) # f PROVE b \in Followers(f)
  <2>1. Face(a) # f
    BY <1>1 DEF Followers
  <2>2. ~(f \in 3..5 /\ Face(b) = f - 3)
    BY <2>1
  <2> QED
    BY <1>1, <2>2 DEF Followers
<1>2. ASSUME b \in Followers(f), f \in 0..6 PROVE a \in Followers(f)
  <2>1. Face(b) # f /\ ~(f \in 3..5 /\ Face(b) = f - 3)
    BY <1>2 DEF Followers
  <2>2. Face(a) # f
    BY <2>1
  <2>3. ~(f \in 3..5 /\ Face(a) = f - 3)
    OBVIOUS
  <2> QED
    BY <2>2, <2>3 DEF Followers
<1> QED
  BY <1>1, <1>2

(* Two turns of one face shorten a solution by one at most.                *)
LEMMA OneFace ==
  ASSUME NEW M, NEW R, Side(M, R), NEW p \in Pos, NEW a \in Turns, NEW b \in Turns, Face(a) = Face(b)
  PROVE  Dist[p] <= Dist[M[b][M[a][p]]] + 1
<1>1. M[b][M[a][p]] \in {p} \union {M[k][p] : k \in Turns}
  BY DEF Side
<1>2. CASE M[b][M[a][p]] = p
  BY <1>2, DistAssumption
<1>3. CASE \E k \in Turns : M[b][M[a][p]] = M[k][p]
  <2>1. PICK k \in Turns : M[b][M[a][p]] = M[k][p]
    BY <1>3
  <2>2. Dist[p] <= Dist[M[k][p]] + 1
    BY SideTypes
  <2> QED
    BY <2>1, <2>2
<1> QED
  BY <1>1, <1>2, <1>3

(* The last turn of a shortest solution.                                   *)
LEMMA DescendLast ==
  ASSUME NEW M, NEW R, Side(M, R), NEW p \in Pos, NEW f, NEW g, Open(M, R, p, f, g), Dist[p] = 1
  PROVE  \E a \in Followers(f) : /\ a \in Turns /\ Dist[M[a][p]] = Dist[p] - 1
                                 /\ Open(M, R, M[a][p], Face(a), g)
<1>1. PICK a \in Followers(f) \intersect Followers(g) : M[a][p] = Solved
  BY DEF Open
<1>2. a \in Turns
  BY FollowerType
<1>3. Dist[M[a][p]] = 0
  BY <1>1, DistAssumption, SearchAssumption
<1>4. Spent(M, M[a][p], Face(a)) /\ Spent(R, M[a][p], g)
  BY <1>2, <1>3, SpentBelow DEF Open
<1>5. Open(M, R, M[a][p], Face(a), g)
  BY <1>3, <1>4 DEF Open
<1> QED
  BY <1>1, <1>2, <1>3, <1>5

(* The last but one: if its face bars the last, they are of opposite faces *)
(* and exchange.                                                           *)
LEMMA DescendTwo ==
  ASSUME NEW M, NEW R, Side(M, R), NEW p \in Pos, NEW f \in 0..6, NEW g \in 0..6,
         Open(M, R, p, f, g), Dist[p] = 2
  PROVE  \E a \in Followers(f) : /\ a \in Turns /\ Dist[M[a][p]] = Dist[p] - 1
                                 /\ Open(M, R, M[a][p], Face(a), g)
<1>1. PICK a \in Followers(f), b \in Followers(g) : Dist[R[b][M[a][p]]] = Dist[p] - 2
  BY DEF Open
<1>2. a \in Turns /\ b \in Turns
  BY FollowerType
<1>3. /\ M[a][p] \in Pos /\ M[b][p] \in Pos
      /\ Dist[M[a][p]] \in Nat /\ Dist[M[b][p]] \in Nat
      /\ Dist[p] <= Dist[M[a][p]] + 1 /\ Dist[p] <= Dist[M[b][p]] + 1
  BY <1>2, SideTypes
<1>4. R[b][M[a][p]] \in Pos /\ M[b][M[a][p]] \in Pos
  BY <1>2, <1>3, SideTypes
<1>5. R[b][M[a][p]] = Solved
  BY <1>1, <1>4, DistAssumption
<1>6. M[b][M[a][p]] = Solved
  BY <1>2, <1>3, <1>5 DEF Side
<1>7. Dist[Solved] = 0
  BY DistAssumption, SearchAssumption
<1>8. Dist[M[a][p]] <= Dist[M[b][M[a][p]]] + 1
  BY <1>2, <1>3, SideTypes
<1>9. Dist[M[a][p]] = 1
  BY <1>3, <1>6, <1>7, <1>8
<1>10. Face(a) # Face(b)
  <2>1. SUFFICES ASSUME Face(a) = Face(b) PROVE FALSE
    OBVIOUS
  <2>2. Dist[p] <= Dist[M[b][M[a][p]]] + 1
    BY <1>2, <2>1, OneFace
  <2> QED
    BY <1>6, <1>7, <2>2
<1>11. CASE b \in Followers(Face(a))
  <2>1. Spent(M, M[a][p], Face(a)) /\ Spent(R, M[a][p], g)
    BY <1>2, <1>9, SpentBelow DEF Open
  <2>2. b \in Followers(Face(a)) \intersect Followers(g) /\ M[b][M[a][p]] = Solved
    BY <1>1, <1>6, <1>11
  <2>3. Open(M, R, M[a][p], Face(a), g)
    BY <1>9, <2>1, <2>2 DEF Open
  <2> QED
    BY <1>1, <1>2, <1>9, <2>3
<1>12. CASE /\ a \in Followers(Face(b))
            /\ Axis(Face(a)) = Axis(Face(b))
            /\ Face(a) \in 3..5 /\ Face(b) = Face(a) - 3
  <2>1. M[a][M[b][p]] = Solved
    <3>1. M[a][M[b][p]] = M[b][M[a][p]]
      BY <1>2, <1>10, <1>12 DEF Side
    <3> QED
      BY <1>6, <3>1
  <2>2. Dist[M[b][p]] <= Dist[M[a][M[b][p]]] + 1
    BY <1>2, <1>3, SideTypes
  <2>3. Dist[M[b][p]] = 1
    BY <1>3, <1>7, <2>1, <2>2
  <2>4. Face(b) # f
    BY <1>2, <2>3 DEF Open, Spent
  <2>5. b \in Followers(f) /\ a \in Followers(g)
    BY <1>1, <1>2, <1>12, <2>4, OppositeFollows
  <2>6. Spent(M, M[b][p], Face(b)) /\ Spent(R, M[b][p], g)
    BY <1>2, <2>3, SpentBelow DEF Open
  <2>7. a \in Followers(Face(b)) \intersect Followers(g) /\ M[a][M[b][p]] = Solved
    BY <1>12, <2>1, <2>5
  <2>8. Open(M, R, M[b][p], Face(b), g)
    BY <2>3, <2>6, <2>7 DEF Open
  <2> QED
    BY <1>2, <2>3, <2>5, <2>8
<1> QED
  BY <1>2, <1>10, <1>11, <1>12, FollowOrSwap

(* Further from the end two turns at one end and one at the other that     *)
(* shorten the solution leave the first of them a way on.                  *)
LEMMA DescendBy ==
  ASSUME NEW M, NEW R, Side(M, R), Side(R, M), NEW p \in Pos, NEW g, Spent(R, p, g),
         NEW a \in Turns, NEW e \in Turns, NEW b \in Followers(g),
         NEW n \in Nat, Dist[p] = n + 3, Dist[R[b][M[e][M[a][p]]]] = n
  PROVE  /\ Dist[M[a][p]] = Dist[p] - 1
         /\ e \in Followers(Face(a)) => Open(M, R, M[a][p], Face(a), g)
<1> DEFINE q == M[a][p]
           z == M[e][q]
<1>1. b \in Turns
  BY FollowerType
<1>2. q \in Pos /\ Dist[q] \in Nat /\ Dist[p] \in Nat /\ Dist[p] <= Dist[q] + 1
  BY SideTypes
<1> HIDE DEF q
<1>3. z \in Pos /\ Dist[z] \in Nat /\ Dist[q] <= Dist[z] + 1
  BY <1>2, SideTypes
<1> HIDE DEF z
<1>4. Dist[R[b][z]] \in Nat /\ Dist[z] <= Dist[R[b][z]] + 1
  BY <1>1, <1>3, SideTypes
<1>5. Dist[R[b][z]] = n
  BY DEF z, q
<1>6. Dist[q] = n + 2 /\ Dist[q] = Dist[p] - 1
  BY <1>2, <1>3, <1>4, <1>5
<1>7. ASSUME e \in Followers(Face(a)) PROVE Open(M, R, q, Face(a), g)
  <2>1. Spent(M, q, Face(a)) /\ Spent(R, q, g)
    BY <1>6, SpentBelow DEF q
  <2>2. Dist[R[b][M[e][q]]] = Dist[q] - 2
    BY <1>5, <1>6 DEF z
  <2>3. Dist[q] # 1
    BY <1>6
  <2> QED
    BY <1>7, <2>1, <2>2, <2>3 DEF Open
<1> QED
  BY <1>6, <1>7 DEF q

(* The next turn is that of a shortest solution after the turn at the      *)
(* other end, or its opposite.                                             *)
LEMMA DescendMore ==
  ASSUME NEW M, NEW R, Side(M, R), Side(R, M), NEW p \in Pos, NEW f \in 0..6, NEW g \in 0..6,
         Open(M, R, p, f, g), Dist[p] >= 3
  PROVE  \E a \in Followers(f) : /\ a \in Turns /\ Dist[M[a][p]] = Dist[p] - 1
                                 /\ Open(M, R, M[a][p], Face(a), g)
<1>0. PICK n \in Nat : Dist[p] = n + 3
  <2>1. Dist[p] \in Nat
    BY DistAssumption
  <2> DEFINE n == Dist[p] - 3
  <2>2. n \in Nat /\ Dist[p] = n + 3
    BY <2>1
  <2> QED
    BY <2>2
<1>1. PICK a \in Followers(f), b \in Followers(g) : Dist[R[b][M[a][p]]] = n + 1
  <2>1. Dist[p] >= 2 /\ Dist[p] - 2 = n + 1
    BY <1>0
  <2> QED
    BY <2>1 DEF Open
<1>2. a \in Turns /\ b \in Turns
  BY FollowerType
<1> DEFINE r == R[b][p]
           s == M[a][r]
<1>3. r \in Pos /\ Dist[r] \in Nat /\ Dist[p] \in Nat /\ Dist[p] <= Dist[r] + 1
  BY <1>2, SideTypes
<1>4. s \in Pos /\ Dist[s] \in Nat
  <2> HIDE DEF r
  <2> QED
    BY <1>2, <1>3, SideTypes
<1>5. s = R[b][M[a][p]]
  BY <1>2, SidesCommute
<1>6. Dist[s] = n + 1
  BY <1>1, <1>5
<1>7. s # Solved
  <2>1. Dist[s] # 0
    BY <1>6
  <2> QED
    BY <1>4, <2>1, DistAssumption
<1>8. PICK e \in Turns : Dist[M[e][s]] = Dist[s] - 1
  BY <1>4, <1>7 DEF Side
<1>9. Face(a) # Face(e)
  <2>1. SUFFICES ASSUME Face(a) = Face(e) PROVE FALSE
    OBVIOUS
  <2>2. Dist[r] <= Dist[M[e][s]] + 1
    <3> HIDE DEF r
    <3> QED
      BY <1>2, <1>3, <2>1, OneFace
  <2> HIDE DEF r, s
  <2> QED
    BY <1>0, <1>3, <1>4, <1>6, <1>8, <2>2
<1>10. M[a][p] \in Pos /\ M[e][p] \in Pos
  BY <1>2, SideTypes
<1>11. Dist[R[b][M[e][M[a][p]]]] = n
  <2>1. M[e][R[b][M[a][p]]] = R[b][M[e][M[a][p]]]
    BY <1>2, <1>10, SidesCommute
  <2>2. Dist[M[e][s]] = Dist[R[b][M[e][M[a][p]]]]
    BY <1>5, <2>1
  <2> HIDE DEF s, r
  <2>3. Dist[M[e][s]] = n
    BY <1>0, <1>6, <1>8
  <2> QED
    BY <2>2, <2>3
<1>12. Spent(M, p, f) /\ Spent(R, p, g)
  BY DEF Open
<1>13. CASE e \in Followers(Face(a))
  <2>1. Dist[M[a][p]] = Dist[p] - 1 /\ Open(M, R, M[a][p], Face(a), g)
    <3> HIDE DEF s, r
    <3> QED
      BY ZenonT(30), <1>0, <1>1, <1>2, <1>11, <1>12, <1>13, DescendBy
  <2> QED
    BY <1>1, <1>2, <2>1
<1>14. CASE /\ a \in Followers(Face(e))
            /\ Axis(Face(a)) = Axis(Face(e))
            /\ Face(a) \in 3..5 /\ Face(e) = Face(a) - 3
  <2>1. M[e][M[a][p]] = M[a][M[e][p]]
    BY <1>2, <1>9, <1>14 DEF Side
  <2>2. Dist[R[b][M[a][M[e][p]]]] = n
    BY <1>11, <2>1
  <2>3. Dist[M[e][p]] = Dist[p] - 1 /\ Open(M, R, M[e][p], Face(e), g)
    <3> HIDE DEF s, r
    <3> QED
      BY ZenonT(30), <1>0, <1>1, <1>2, <1>12, <1>14, <2>2, DescendBy
  <2>4. Face(e) # f
    <3>1. SUFFICES ASSUME Face(e) = f PROVE FALSE
      OBVIOUS
    <3>2. Dist[p] <= Dist[M[e][p]]
      BY <1>12, <3>1 DEF Spent
    <3> HIDE DEF r, s
    <3> QED
      BY <1>3, <2>3, <3>2
  <2>5. e \in Followers(f)
    BY <1>1, <1>2, <1>14, <2>4, OppositeFollows
  <2> QED
    BY <2>3, <2>5
<1> QED
  BY <1>2, <1>9, <1>13, <1>14, FollowOrSwap

LEMMA Descend ==
  ASSUME NEW M, NEW R, Side(M, R), Side(R, M), NEW p \in Pos, NEW f \in 0..6, NEW g \in 0..6,
         Open(M, R, p, f, g), Dist[p] # 0
  PROVE  \E a \in Followers(f) : /\ a \in Turns /\ Dist[M[a][p]] = Dist[p] - 1
                                 /\ Open(M, R, M[a][p], Face(a), g)
<1>1. Dist[p] = 1 \/ Dist[p] = 2 \/ Dist[p] >= 3
  BY DistAssumption
<1> QED
  BY <1>1, DescendLast, DescendTwo, DescendMore

(* A call that must find a solution: its depth is the distance of its cube *)
(* and a way is open to its ends.                                          *)
Ready(c, n) ==
  /\ Known(c.skip, c.val, c.p) /\ c.stray = {}
  /\ Dist[c.p] = n
  /\ Open(Move, Premove, c.p, c.last, c.lastR)

CallTypes(c) ==
  /\ c.p \in Pos /\ c.last \in 0..6 /\ c.lastR \in 0..6
  /\ c.skip \in (0..5) \union {NoView} /\ c.val \in 0..15 /\ c.stray \in SUBSET (0..5)

LEMMA CallFields == ASSUME NEW c \in Calls PROVE CallTypes(c)
BY DEF Calls, CallTypes

(* A turn that shortens the solution is not masked: a view that it leaves  *)
(* unchanged is not at the limit.                                          *)
LEMMA NotMasked ==
  ASSUME NEW p \in Pos, NEW n \in Nat, Dist[p] = n, NEW mask \in SUBSET (0..5),
         \A v \in mask : n <= Prune[v][p], NEW a \in Turns
  PROVE  /\ Dist[Move[a][p]] = n - 1 => a \in Unmasked({v - 3 : v \in mask \ 0..2})
         /\ Dist[Premove[a][p]] = n - 1 => a \in Unmasked(mask \intersect 0..2)
<1> DEFINE x == Axis(Face(a))
<1>1. x \in 0..2 /\ x + 3 \in 0..5 /\ x \in 0..5
  BY TurnTypes
<1>2. /\ Prune[x + 3][Move[a][p]] = Prune[x + 3][p]
      /\ Prune[x][Premove[a][p]] = Prune[x][p]
  BY TableAssumption
<1>3. /\ Move[a][p] \in Pos /\ Premove[a][p] \in Pos
  BY SearchAssumption
<1> HIDE DEF x
<1>4. /\ Prune[x + 3][Move[a][p]] <= Dist[Move[a][p]]
      /\ Prune[x][Premove[a][p]] <= Dist[Premove[a][p]]
  BY <1>1, <1>3, TableAssumption
<1>5. Prune[x + 3][p] \in 0..15 /\ Prune[x][p] \in 0..15
  BY <1>1, SearchAssumption
<1>6. ASSUME Dist[Move[a][p]] = n - 1 PROVE a \in Unmasked({v - 3 : v \in mask \ 0..2})
  <2>1. x + 3 \notin mask
    <3>1. Prune[x + 3][p] <= n - 1
      BY <1>2, <1>4, <1>6
    <3>2. ~(n <= Prune[x + 3][p])
      BY <1>5, <3>1
    <3> QED
      BY <3>2
  <2>2. x \notin {v - 3 : v \in mask \ 0..2}
    <3>1. SUFFICES ASSUME NEW v \in mask, x = v - 3 PROVE FALSE
      OBVIOUS
    <3>2. v \in 0..5 /\ x + 3 = v
      BY <1>1, <3>1
    <3> QED
      BY <2>1, <3>2
  <2> QED
    BY <2>2 DEF Unmasked, x
<1>7. ASSUME Dist[Premove[a][p]] = n - 1 PROVE a \in Unmasked(mask \intersect 0..2)
  <2>1. Prune[x][p] <= n - 1
    BY <1>2, <1>4, <1>7
  <2>2. x \notin mask
    <3>1. ~(n <= Prune[x][p])
      BY <1>5, <2>1
    <3> QED
      BY <3>1
  <2> QED
    BY <2>2 DEF Unmasked, x
<1> QED
  BY <1>6, <1>7

(* Such a call has, at whichever end it searches, a turn whose call is     *)
(* such a call again.                                                      *)
LEMMA GoodTurn ==
  ASSUME NEW n \in Nat, n # 0, NEW c \in Calls, Ready(c, n), NEW ahead \in BOOLEAN,
         NEW look, look = Lookup(c.p, n, c.skip, c.val, c.stray)
  PROVE  \E a \in TurnsAt(c, look, ahead) : a \in Turns /\ Ready(Below(c, look.vals, ahead, a), n - 1)
<1>1. CallTypes(c)
  BY CallFields
<1>2. /\ look.vals \in [0..5 -> 0..15] /\ look.mask \in SUBSET (0..5)
      /\ \A v \in 0..5 : look.vals[v] <= Prune[v][c.p]
      /\ \A v \in look.mask : n <= Prune[v][c.p]
  <2>1. c.p \in Pos /\ c.skip \in (0..5) \union {NoView} /\ c.val \in 0..15 /\ c.stray \in SUBSET (0..5)
    BY <1>1 DEF CallTypes
  <2>2. Known(c.skip, c.val, c.p) /\ c.stray = {}
    BY DEF Ready
  <2> QED
    BY <2>1, <2>2, LookupType
<1>3. Dist[c.p] = n /\ c.stray = {} /\ Open(Move, Premove, c.p, c.last, c.lastR)
  BY DEF Ready
<1>4. Side(Move, Premove) /\ Side(Premove, Move)
  BY BothSides
<1>5. c.p \in Pos /\ c.last \in 0..6 /\ c.lastR \in 0..6
  BY <1>1 DEF CallTypes
<1>6. CASE ahead
  <2>1. PICK a \in Followers(c.last) :
          /\ a \in Turns /\ Dist[Move[a][c.p]] = n - 1
          /\ Open(Move, Premove, Move[a][c.p], Face(a), c.lastR)
    BY <1>3, <1>4, <1>5, Descend
  <2>2. a \in Unmasked({v - 3 : v \in look.mask \ 0..2})
    BY <1>2, <1>3, <1>5, <2>1, NotMasked
  <2>3. a \in TurnsAt(c, look, ahead)
    BY <1>6, <2>1, <2>2 DEF TurnsAt, AtEnd
  <2> DEFINE b == Below(c, look.vals, ahead, a)
  <2> HIDE DEF b
  <2>4. /\ b.stray = c.stray /\ Known(b.skip, b.val, b.p)
        /\ b.p = Move[a][c.p] /\ b.last = Face(a) /\ b.lastR = c.lastR
    <3>1. b = Below(c, look.vals, ahead, a)
      BY DEF b
    <3>2. look.vals \in [0..5 -> 0..15] /\ a \in Turns
      BY <1>2, <2>1
    <3>3. /\ b.stray = c.stray
          /\ ahead => b.p = Move[a][c.p] /\ b.last = Face(a) /\ b.lastR = c.lastR
          /\ (\A v \in 0..5 : look.vals[v] <= Prune[v][c.p]) => Known(b.skip, b.val, b.p)
      BY <3>1, <3>2, BelowFields
    <3> QED
      BY <1>2, <1>6, <3>3
  <2>5. Ready(b, n - 1)
    BY <1>3, <2>1, <2>4 DEF Ready
  <2> QED
    BY <2>1, <2>3, <2>5 DEF b
<1>7. CASE ~ahead
  <2>1. PICK a \in Followers(c.lastR) :
          /\ a \in Turns /\ Dist[Premove[a][c.p]] = n - 1
          /\ Open(Premove, Move, Premove[a][c.p], Face(a), c.last)
    <3>1. Open(Premove, Move, c.p, c.lastR, c.last)
      BY <1>3, <1>4, <1>5, OpenAlike
    <3> QED
      BY <1>3, <1>4, <1>5, <3>1, Descend
  <2>2. a \in Unmasked(look.mask \intersect 0..2)
    BY <1>2, <1>3, <1>5, <2>1, NotMasked
  <2>3. a \in TurnsAt(c, look, ahead)
    BY <1>7, <2>1, <2>2 DEF TurnsAt, AtStart
  <2> DEFINE b == Below(c, look.vals, ahead, a)
  <2> HIDE DEF b
  <2>4. /\ b.stray = c.stray /\ Known(b.skip, b.val, b.p)
        /\ b.p = Premove[a][c.p] /\ b.last = c.last /\ b.lastR = Face(a)
    <3>1. b = Below(c, look.vals, ahead, a)
      BY DEF b
    <3>2. look.vals \in [0..5 -> 0..15] /\ a \in Turns
      BY <1>2, <2>1
    <3>3. /\ b.stray = c.stray
          /\ ~ahead => b.p = Premove[a][c.p] /\ b.last = c.last /\ b.lastR = Face(a)
          /\ (\A v \in 0..5 : look.vals[v] <= Prune[v][c.p]) => Known(b.skip, b.val, b.p)
      BY <3>1, <3>2, BelowFields
    <3> QED
      BY <1>2, <1>7, <3>3
  <2>5. Open(Move, Premove, b.p, b.last, b.lastR)
    <3>1. Premove[a][c.p] \in Pos
      BY <1>5, <2>1, SearchAssumption
    <3> QED
      BY <1>4, <2>1, <2>4, <3>1, OpenAlike
  <2>6. Ready(b, n - 1)
    BY <1>3, <2>1, <2>4, <2>5 DEF Ready
  <2> QED
    BY <2>1, <2>3, <2>6 DEF b
<1> QED
  BY <1>6, <1>7

(* Children are at most one turn further away, and those of one face at    *)
(* most one turn apart.                                                    *)
LEMMA Children ==
  ASSUME NEW c \in Calls, NEW vals \in [0..5 -> 0..15], \A v \in 0..5 : vals[v] <= Prune[v][c.p],
         NEW ahead \in BOOLEAN, NEW m \in Turns,
         NEW b, b = Below(c, vals, ahead, m)
  PROVE  /\ b \in Calls /\ Known(b.skip, b.val, b.p)
         /\ b.p \in Pos /\ Dist[b.p] \in Nat /\ Dist[c.p] \in Nat /\ Dist[b.p] <= Dist[c.p] + 1
         /\ \A a \in Turns : Face(a) = Face(m) =>
              Dist[b.p] <= Dist[Below(c, vals, ahead, a).p] + 1
<1>1. /\ b \in Calls /\ Known(b.skip, b.val, b.p)
      /\ ahead => b.p = Move[m][c.p]
      /\ ~ahead => b.p = Premove[m][c.p]
  BY BelowFields
<1>2. c.p \in Pos /\ b.p \in Pos
  BY <1>1 DEF Calls
<1>3. Dist[b.p] \in Nat /\ Dist[c.p] \in Nat
  BY <1>2, DistAssumption
<1>4. Dist[b.p] <= Dist[c.p] + 1
  BY <1>1, <1>2, BothSides DEF Side
<1>5. ASSUME NEW a \in Turns, Face(a) = Face(m)
      PROVE  Dist[b.p] <= Dist[Below(c, vals, ahead, a).p] + 1
  <2> DEFINE e == Below(c, vals, ahead, a)
  <2> HIDE DEF e
  <2>1. (ahead => e.p = Move[a][c.p]) /\ (~ahead => e.p = Premove[a][c.p])
    <3>1. e = Below(c, vals, ahead, a)
      BY DEF e
    <3> QED
      BY <3>1, BelowFields
  <2>2. /\ Dist[Move[m][c.p]] <= Dist[Move[a][c.p]] + 1
        /\ Dist[Premove[m][c.p]] <= Dist[Premove[a][c.p]] + 1
    BY <1>2, <1>5, BothSides DEF Side
  <2>3. Dist[b.p] <= Dist[e.p] + 1
    BY <1>1, <2>1, <2>2
  <2> QED
    BY <2>3 DEF e
<1> QED
  BY <1>1, <1>2, <1>3, <1>4, <1>5

LEMMA SearchComplete ==
  ASSUME NEW n \in 0..MaxDepth, NEW c \in Calls, Ready(c, n)
  PROVE  Search[n][c].sol = 0
<1> DEFINE T == {k \in 0..MaxDepth : \A b \in Calls : Ready(b, k) => Search[k][b].sol = 0}
<1>1. MaxDepth \in Nat
  BY DEF MaxDepth
<1>2. 0 \in T
  <2>1. ASSUME NEW b \in Calls, Ready(b, 0) PROVE Search[0][b].sol = 0
    <3>1. b.p \in Pos /\ Dist[b.p] = 0
      BY <2>1 DEF Calls, Ready
    <3>2. b.p = Solved
      BY <3>1, DistAssumption
    <3> QED
      BY <3>2, SearchDefined DEF Success
  <2> QED
    BY <1>1, <2>1
<1>3. ASSUME NEW k \in 0..MaxDepth, k # MaxDepth, k \in T PROVE k + 1 \in T
  <2> DEFINE i == k + 1
  <2>1. /\ i \in 1..MaxDepth /\ i \in 0..MaxDepth /\ i - 1 = k /\ i \in Nat /\ i = k + 1
        /\ k \in Nat /\ i # 0
    BY <1>1, <1>3
  <2> HIDE DEF i
  <2>2. ASSUME NEW b \in Calls, Ready(b, i) PROVE Search[i][b].sol = 0
    <3>1. PICK look, t : \E ahead \in BOOLEAN, turns \in SUBSET Turns : \E child \in [turns -> Results] :
            /\ Node(i, b, look, ahead, turns, child, t)
            /\ look.prune \in 0..16 /\ look.vals \in [0..5 -> 0..15] /\ look.mask \in SUBSET (0..5)
      BY <2>1, SearchStep
    <3>2. PICK ahead \in BOOLEAN, turns \in SUBSET Turns : \E child \in [turns -> Results] :
            /\ Node(i, b, look, ahead, turns, child, t)
            /\ look.prune \in 0..16 /\ look.vals \in [0..5 -> 0..15] /\ look.mask \in SUBSET (0..5)
      BY <3>1
    <3>3. PICK child \in [turns -> Results] :
            /\ Node(i, b, look, ahead, turns, child, t)
            /\ look.prune \in 0..16 /\ look.vals \in [0..5 -> 0..15] /\ look.mask \in SUBSET (0..5)
      BY <3>2
    <3>4. /\ look = Lookup(b.p, i, b.skip, b.val, b.stray)
          /\ turns = TurnsAt(b, look, ahead)
          /\ \A m \in turns : child[m] = Search[k][Below(b, look.vals, ahead, m)]
      BY <2>1, <3>3 DEF Node
    <3>5. Dist[b.p] = i /\ Known(b.skip, b.val, b.p) /\ b.stray = {}
      BY <2>2 DEF Ready
    <3>6. look.prune <= Dist[b.p] /\ \A v \in 0..5 : look.vals[v] <= Prune[v][b.p]
      <4>1. b.p \in Pos /\ b.skip \in (0..5) \union {NoView} /\ b.val \in 0..15 /\ b.stray \in SUBSET (0..5)
        BY DEF Calls
      <4> QED
        BY <2>1, <3>4, <3>5, <4>1, LookupType
    <3>7. ~(look.prune > i)
      BY <2>1, <3>3, <3>5, <3>6
    <3>8. Search[i][b] = t /\ Outcome(i, look, ahead, turns, child, t)
      BY <3>3, <3>7 DEF Node
    <3>9. PICK a \in turns : a \in Turns /\ Ready(Below(b, look.vals, ahead, a), k)
      BY <2>1, <2>2, <3>4, GoodTurn
    <3>10. ASSUME NEW m \in turns
           PROVE  LET e == Below(b, look.vals, ahead, m) IN
                  /\ e \in Calls
                  /\ child[m].sol \in Nat
                  /\ child[m].sol \in {0, 1} \/ child[m].sol <= Dist[e.p]
                  /\ Dist[e.p] \in Nat /\ Dist[e.p] <= i + 1
                  /\ Face(a) = Face(m) => Dist[e.p] <= k + 1
      <4> DEFINE e == Below(b, look.vals, ahead, m)
      <4>1. m \in Turns /\ e = Below(b, look.vals, ahead, m) /\ look.vals \in [0..5 -> 0..15]
        BY <3>2, <3>3
      <4>2. child[m] = Search[k][e]
        BY <3>4
      <4> HIDE DEF e
      <4>3. /\ e \in Calls /\ Known(e.skip, e.val, e.p)
            /\ e.p \in Pos /\ Dist[e.p] \in Nat /\ Dist[e.p] <= Dist[b.p] + 1
            /\ \A x \in Turns : Face(x) = Face(m) => Dist[e.p] <= Dist[Below(b, look.vals, ahead, x).p] + 1
        BY <3>6, <4>1, Children
      <4>4. child[m].sol \in Nat
        BY <3>3 DEF Results
      <4>5. child[m].sol \in {0, 1} \/ child[m].sol <= Dist[e.p]
        BY <4>2, <4>3, SearchAdmissible
      <4>6. Dist[Below(b, look.vals, ahead, a).p] = k
        BY <3>9 DEF Ready
      <4>7. Face(a) = Face(m) => Dist[e.p] <= k + 1
        BY <3>9, <4>3, <4>6
      <4>8. Dist[e.p] <= i + 1
        BY <3>5, <4>3
      <4> QED
        BY <4>3, <4>4, <4>5, <4>7, <4>8 DEF e
    <3>11. child[a].sol = 0
      <4>1. Below(b, look.vals, ahead, a) \in Calls
        BY <3>10
      <4> QED
        BY <1>3, <3>4, <3>9, <4>1
    <3>12. ASSUME NEW m \in turns PROVE child[m].sol \in Nat /\ ~(child[m].sol > i + 1)
      <4>1. child[m].sol \in Nat /\ (child[m].sol \in {0, 1} \/ child[m].sol <= i + 1)
        BY <2>1, <3>10
      <4> QED
        BY <2>1, <4>1
    <3>13. ASSUME NEW m \in turns, Face(m) = Face(a) PROVE child[m].sol # i + 1
      <4>1. child[m].sol \in Nat /\ (child[m].sol \in {0, 1} \/ child[m].sol <= k + 1)
        BY <2>1, <3>10, <3>13
      <4> QED
        BY <2>1, <4>1
    <3>14. \E m \in turns : t = [sol |-> 0, path |-> Append(child[m].path, <<m, ~ahead>>)]
      BY <3>8, <3>11, <3>12, <3>13 DEF Outcome
    <3> QED
      BY <3>8, <3>14
  <2>3. i \in T
    BY <2>1, <2>2
  <2> QED
    BY <2>1, <2>3
<1>4. \A k \in 0..MaxDepth : k \in T
  <2> HIDE DEF T
  <2> QED
    BY <1>1, <1>2, <1>3, InductionUpTo
<1> QED
  BY <1>4

-----------------------------------------------------------------------------
(***************************************************************************)
(* The queue: its levels, and that a way leads through one of its entries. *)
(***************************************************************************)
EntrySet == [c6 : Pos, turns : Words, moves : Nat, last : 0..6]
LevelSet == [entries : SUBSET EntrySet, seen : SUBSET Pos]

LEMMA EntryType ==
  ASSUME NEW q \in EntrySet, NEW m \in Turns
  PROVE  /\ Entry(q, m) \in EntrySet
         /\ Entry(q, m).c6 = Move[m][q.c6] /\ Entry(q, m).last = Face(m)
         /\ Entry(q, m).turns = Append(q.turns, m)
<1>1. q.c6 \in Pos /\ q.turns \in Words /\ q.moves \in Nat
  BY DEF EntrySet
<1>2. m \in Nat /\ Face(m) \in 0..6
  BY TurnTypes
<1>3. Move[m][q.c6] \in Pos
  BY <1>1, MoveType
<1>4. Append(q.turns, m) \in Words
  BY <1>1 DEF Words
<1>5. (256 * q.moves) + m \in Nat
  BY <1>1, <1>2
<1> QED
  BY <1>2, <1>3, <1>4, <1>5 DEF Entry, EntrySet

(* A level is made of the turns after the entries of the one before; every *)
(* position that is new has an entry.                                      *)
LevelAfter(level, next) ==
  /\ \A r \in next.entries : \E q \in level.entries, m \in Turns : r = Entry(q, m)
  /\ \A x \in next.seen : x \in level.seen \/ \E q \in level.entries, m \in Turns : x = Move[m][q.c6]
  /\ \A q \in level.entries, m \in Turns :
       Move[m][q.c6] \notin level.seen => \E r \in next.entries : r.c6 = Move[m][q.c6]

LEMMA NextLevelIs ==
  ASSUME NEW level \in LevelSet
  PROVE  NextLevel(level) \in LevelSet /\ LevelAfter(level, NextLevel(level))
<1> DEFINE found == {q \in {Entry(x[1], x[2]) : x \in level.entries \X Turns} : q.c6 \notin level.seen}
           kept  == {q \in found : \A r \in found : r.c6 = q.c6 => q.moves <= r.moves}
           more  == level.seen \union {q.c6 : q \in found}
<1>1. level.entries \subseteq EntrySet /\ level.seen \subseteq Pos
  BY DEF LevelSet
<1>2. ASSUME NEW r \in found
      PROVE  /\ r \in EntrySet /\ r.c6 \in Pos /\ r.moves \in Nat /\ r.c6 \notin level.seen
             /\ \E q \in level.entries, m \in Turns : r = Entry(q, m) /\ r.c6 = Move[m][q.c6]
  <2>1. PICK x \in level.entries \X Turns : r = Entry(x[1], x[2])
    OBVIOUS
  <2>2. x[1] \in level.entries /\ x[2] \in Turns
    BY <2>1
  <2>3. r.c6 = Move[x[2]][x[1].c6] /\ r \in EntrySet
    BY <1>1, <2>1, <2>2, EntryType
  <2>4. r.c6 \in Pos /\ r.moves \in Nat
    BY <2>3 DEF EntrySet
  <2>5. r.c6 \notin level.seen
    OBVIOUS
  <2> QED
    BY <2>1, <2>2, <2>3, <2>4, <2>5
<1>3. ASSUME NEW q \in level.entries, NEW m \in Turns, Move[m][q.c6] \notin level.seen
      PROVE  \E r \in found : r.c6 = Move[m][q.c6]
  <2>1. Entry(q, m).c6 = Move[m][q.c6]
    BY <1>1, EntryType
  <2> DEFINE x == <<q, m>>
  <2>2. x \in level.entries \X Turns /\ x[1] = q /\ x[2] = m
    OBVIOUS
  <2>3. Entry(q, m) \in {Entry(y[1], y[2]) : y \in level.entries \X Turns}
    BY <2>2
  <2>4. Entry(q, m) \in found
    BY <1>3, <2>1, <2>3
  <2> QED
    BY <2>1, <2>4
<1>4. kept \subseteq found
  OBVIOUS
<1>5. ASSUME NEW r \in found PROVE \E s \in kept : s.c6 = r.c6
  <2> DEFINE numbers == {s.moves : s \in {s \in found : s.c6 = r.c6}}
  <2> HIDE DEF found
  <2>1. numbers \in SUBSET Nat /\ numbers # {}
    BY <1>2, <1>5
  <2>2. PICK k \in numbers : \A l \in numbers : k <= l
    <3> HIDE DEF numbers
    <3> QED
      BY <2>1, LeastNatural
  <2>3. PICK s \in found : s.c6 = r.c6 /\ s.moves = k
    BY <2>2
  <2>4. ASSUME NEW u \in found, u.c6 = s.c6 PROVE s.moves <= u.moves
    BY <2>2, <2>3, <2>4
  <2> QED
    BY <2>3, <2>4
<1>6. NextLevel(level) = [entries |-> kept, seen |-> more]
  BY DEF NextLevel
<1> HIDE DEF found, kept
<1>7. more \subseteq Pos /\ \A x \in more : x \in level.seen \/ \E r \in found : x = r.c6
  BY <1>1, <1>2
<1>8. kept \subseteq EntrySet
  BY <1>2, <1>4
<1> HIDE DEF more
<1>9. NextLevel(level) \in LevelSet
  BY <1>6, <1>7, <1>8 DEF LevelSet
<1>10. NextLevel(level).entries = kept /\ NextLevel(level).seen = more
  BY <1>6
<1>11. \A r \in kept : \E q \in level.entries, m \in Turns : r = Entry(q, m)
  BY <1>2, <1>4
<1>12. \A x \in more : x \in level.seen \/ \E q \in level.entries, m \in Turns : x = Move[m][q.c6]
  BY <1>2, <1>7
<1>13. \A q \in level.entries, m \in Turns :
         Move[m][q.c6] \notin level.seen => \E r \in kept : r.c6 = Move[m][q.c6]
  BY <1>3, <1>5
<1> QED
  BY <1>9, <1>10, <1>11, <1>12, <1>13 DEF LevelAfter

LEMMA LevelDefined ==
  /\ Level \in [0..LEAD -> LevelSet]
  /\ Level[0] = [entries |-> {Root}, seen |-> {Solved}]
  /\ \A n \in 1..LEAD : n - 1 \in 0..LEAD /\ n \in 0..LEAD /\ LevelAfter(Level[n - 1], Level[n])
<1> DEFINE base == [entries |-> {Root}, seen |-> {Solved}]
           N == LEAD
           step == [n \in 1..N |-> [level \in LevelSet |-> NextLevel(level)]]
           rec(g) == [n \in 0..N |-> IF n = 0 THEN base ELSE NextLevel(g[n - 1])]
<1>1. N \in Nat
  BY SearchAssumption
<1>2. base \in LevelSet
  <2>1. Solved \in Pos /\ <<>> \in Words
    BY SearchAssumption DEF Words
  <2>2. Root \in EntrySet
    BY <2>1 DEF Root, EntrySet, NoFace
  <2> QED
    BY <2>1, <2>2 DEF LevelSet
<1>3. step \in [1..N -> [LevelSet -> LevelSet]] /\ \A n \in 1..N, level \in LevelSet : step[n][level] = NextLevel(level)
  BY NextLevelIs
<1>4. Level = CHOOSE g : g = rec(g)
  BY DEF Level
<1> HIDE DEF base, step, N
<1>5. PICK f : Iteration(f, LevelSet, base, N, step)
  <2>1. Steps(LevelSet, N, step)
    BY <1>3 DEF Steps
  <2> QED
    BY <1>1, <1>2, <2>1, IterationExists
<1>6. f \in [0..N -> LevelSet] /\ f[0] = base /\ \A n \in 1..N : f[n] = step[n][f[n - 1]]
  BY <1>5 DEF Iteration
<1>7. f = rec(f)
  <2>1. ASSUME NEW n \in 0..N PROVE f[n] = IF n = 0 THEN base ELSE NextLevel(f[n - 1])
    <3>1. CASE n = 0
      BY <3>1, <1>6
    <3>2. CASE n # 0
      <4>1. n \in 1..N /\ n - 1 \in 0..N
        BY <3>2, <1>1
      <4>2. f[n - 1] \in LevelSet
        BY <1>6, <4>1
      <4> QED
        BY <3>2, <4>1, <4>2, <1>3, <1>6
    <3> QED
      BY <3>1, <3>2
  <2>2. f = [n \in 0..N |-> f[n]]
    BY <1>6
  <2> QED
    BY <2>1, <2>2, Zenon
<1>8. Level = rec(Level)
  <2> HIDE DEF rec
  <2> QED
    BY <1>4, <1>7, Zenon
<1>9. Level[0] = base
  BY <1>1, <1>8
<1>10. \A n \in 1..N : n - 1 \in 0..N /\ n \in 0..N /\ n # 0 /\ Level[n] = NextLevel(Level[n - 1])
  <2>1. ASSUME NEW n \in 1..N PROVE n - 1 \in 0..N /\ n \in 0..N /\ n # 0
    BY <1>1
  <2>2. ASSUME NEW n \in 1..N PROVE Level[n] = NextLevel(Level[n - 1])
    <3>1. rec(Level)[n] = NextLevel(Level[n - 1])
      BY <2>1
    <3> HIDE DEF rec
    <3> QED
      BY <1>8, <3>1
  <2> QED
    BY <2>1, <2>2
<1> DEFINE T == {n \in 0..N : Level[n] \in LevelSet}
<1>11. 0 \in T
  BY <1>1, <1>2, <1>9
<1>12. ASSUME NEW n \in 0..N, n # N, n \in T PROVE n + 1 \in T
  <2>1. n + 1 \in 1..N /\ (n + 1) - 1 = n /\ n + 1 \in 0..N
    BY <1>1, <1>12
  <2>2. Level[n + 1] = NextLevel(Level[n])
    BY <1>10, <2>1
  <2> QED
    BY <1>12, <2>1, <2>2, NextLevelIs
<1>13. \A n \in 0..N : n \in T
  <2> HIDE DEF T
  <2> QED
    BY <1>1, <1>11, <1>12, InductionUpTo
<1>14. Level = [n \in 0..N |-> Level[n]]
  BY <1>8
<1>15. Level \in [0..N -> LevelSet]
  BY <1>13, <1>14
<1>16. \A n \in 1..N : LevelAfter(Level[n - 1], Level[n])
  BY <1>10, <1>13, NextLevelIs
<1> QED
  BY <1>9, <1>10, <1>15, <1>16 DEF base, N

(* An entry of level n is reached by its n turns; a position seen by then  *)
(* by n at most.                                                           *)
Made(q, n) == q \in EntrySet /\ Len(q.turns) = n /\ q.c6 = Apply(Solved, q.turns)
Within(x, n) == x \in Pos /\ \E w \in Words : Len(w) <= n /\ x = Apply(Solved, w)
LevelMade(level, n) ==
  (\A q \in level.entries : Made(q, n)) /\ (\A x \in level.seen : Within(x, n))

LEMMA EntryMade ==
  ASSUME NEW n \in Nat, NEW q, Made(q, n), NEW m \in Turns
  PROVE  Made(Entry(q, m), n + 1) /\ Within(Move[m][q.c6], n + 1)
<1>1. q \in EntrySet /\ q.turns \in Words /\ Len(q.turns) = n /\ q.c6 = Apply(Solved, q.turns)
      /\ q.c6 \in Pos
  BY DEF Made, EntrySet
<1>2. /\ Entry(q, m) \in EntrySet /\ Entry(q, m).c6 = Move[m][q.c6]
      /\ Entry(q, m).turns = Append(q.turns, m)
  BY <1>1, EntryType
<1>3. Append(q.turns, m) \in Words /\ Len(Append(q.turns, m)) = n + 1
  BY <1>1 DEF Words
<1>4. Apply(Solved, Append(q.turns, m)) = Move[m][q.c6]
  <2>1. q.turns \in Seq(Turns) /\ Solved \in Pos
    BY <1>1, SearchAssumption DEF Words
  <2> QED
    BY <1>1, <2>1, ApplyBack
<1>5. Move[m][q.c6] \in Pos
  BY <1>1, MoveType
<1>6. Made(Entry(q, m), n + 1)
  BY <1>2, <1>3, <1>4 DEF Made
<1>7. Within(Move[m][q.c6], n + 1)
  <2> DEFINE w == Append(q.turns, m)
  <2>1. w \in Words /\ Len(w) <= n + 1 /\ Move[m][q.c6] = Apply(Solved, w)
    BY <1>3, <1>4
  <2> HIDE DEF w
  <2> QED
    BY <1>5, <2>1 DEF Within
<1> QED
  BY <1>6, <1>7

LEMMA LevelsMade ==
  ASSUME NEW n \in 0..LEAD
  PROVE  LevelMade(Level[n], n)
<1> DEFINE N == LEAD
           T == {k \in 0..N : LevelMade(Level[k], k)}
<1>1. N \in Nat
  BY SearchAssumption
<1> HIDE DEF N
<1>2. 0 \in T
  <2>1. Solved \in Pos /\ <<>> \in Words /\ Len(<<>>) = 0 /\ Apply(Solved, <<>>) = Solved
    BY SearchAssumption, ApplyNone DEF Words
  <2>2. Root \in EntrySet /\ Root.turns = <<>> /\ Root.c6 = Solved
    BY <2>1 DEF Root, EntrySet, NoFace
  <2>3. Made(Root, 0)
    BY <2>1, <2>2 DEF Made
  <2>4. Within(Solved, 0)
    BY <2>1 DEF Within
  <2>5. Level[0].entries = {Root} /\ Level[0].seen = {Solved}
    BY LevelDefined
  <2> QED
    BY <1>1, <2>3, <2>4, <2>5 DEF LevelMade
<1>3. ASSUME NEW k \in 0..N, k # N, k \in T PROVE k + 1 \in T
  <2>1. k + 1 \in 1..N /\ (k + 1) - 1 = k /\ k + 1 \in 0..N /\ k \in Nat
    BY <1>1, <1>3
  <2>2. LevelAfter(Level[k], Level[k + 1])
    BY <2>1, LevelDefined DEF N
  <2>3. LevelMade(Level[k], k)
    BY <1>3
  <2>4. ASSUME NEW r \in Level[k + 1].entries PROVE Made(r, k + 1)
    <3>1. PICK q \in Level[k].entries, m \in Turns : r = Entry(q, m)
      BY <2>2 DEF LevelAfter
    <3> QED
      BY <2>1, <2>3, <3>1, EntryMade DEF LevelMade
  <2>5. ASSUME NEW x \in Level[k + 1].seen PROVE Within(x, k + 1)
    <3>1. CASE x \in Level[k].seen
      <4>1. PICK w \in Words : Len(w) <= k /\ x = Apply(Solved, w)
        BY <2>3, <3>1 DEF LevelMade, Within
      <4>2. x \in Pos
        BY <2>3, <3>1 DEF LevelMade, Within
      <4>3. Len(w) \in Nat
        BY DEF Words
      <4>4. Len(w) <= k + 1
        BY <2>1, <4>1, <4>3
      <4> QED
        BY <4>1, <4>2, <4>4 DEF Within
    <3>2. CASE \E q \in Level[k].entries, m \in Turns : x = Move[m][q.c6]
      <4>1. PICK q \in Level[k].entries, m \in Turns : x = Move[m][q.c6]
        BY <3>2
      <4> QED
        BY <2>1, <2>3, <4>1, EntryMade DEF LevelMade
    <3> QED
      BY <2>2, <3>1, <3>2 DEF LevelAfter
  <2>6. LevelMade(Level[k + 1], k + 1)
    BY <2>4, <2>5 DEF LevelMade
  <2> QED
    BY <2>1, <2>6
<1>4. \A k \in 0..N : k \in T
  <2> HIDE DEF T
  <2> QED
    BY <1>1, <1>2, <1>3, InductionUpTo
<1> QED
  BY <1>4 DEF N

(* Some turns lead closer to a solution by their number at most.           *)
LEMMA AfterTurns ==
  ASSUME NEW p \in Pos, NEW w \in Words
  PROVE  /\ Apply(p, w) = Product[p][Apply(Solved, w)]
         /\ Dist[p] <= Len(w) + Dist[Product[p][Apply(Solved, w)]]
<1>1. w \in Seq(Turns) /\ Solved \in Pos
  BY SearchAssumption DEF Words
<1>2. Product[p][Solved] = p
  BY PuzzleAssumption
<1>3. Apply(Product[p][Solved], w) = Product[p][Apply(Solved, w)]
  BY <1>1, ApplyProduct
<1>4. Dist[p] <= Len(w) + Dist[Apply(p, w)]
  BY <1>1, NoShorter
<1> QED
  BY <1>2, <1>3, <1>4

(* A turn on a shortest solution, behind an entry, leads to an entry.      *)
LEMMA OnTheWay ==
  ASSUME NEW n \in 1..LEAD, NEW p \in Pos, NEW q \in Level[n - 1].entries, NEW m \in Turns,
         NEW k \in Nat, Dist[p] = k + n, Dist[Move[m][Product[p][q.c6]]] = k
  PROVE  \E r \in Level[n].entries : /\ r.c6 = Move[m][q.c6]
                                     /\ Product[p][r.c6] = Move[m][Product[p][q.c6]]
<1> DEFINE x == Move[m][q.c6]
<1>1. n \in Nat /\ n - 1 \in Nat /\ n - 1 \in 0..LEAD
  BY SearchAssumption
<1>2. LevelMade(Level[n - 1], n - 1) /\ LevelAfter(Level[n - 1], Level[n])
  BY <1>1, LevelsMade, LevelDefined
<1>3. q.c6 \in Pos
  BY <1>2 DEF LevelMade, Made, EntrySet
<1>4. Move[m][Product[p][q.c6]] = Product[p][x]
  BY <1>3, Multiplied
<1>5. x \notin Level[n - 1].seen
  <2>1. SUFFICES ASSUME x \in Level[n - 1].seen PROVE FALSE
    OBVIOUS
  <2> HIDE DEF x
  <2>2. PICK w \in Words : Len(w) <= n - 1 /\ x = Apply(Solved, w)
    BY <1>2, <2>1 DEF LevelMade, Within
  <2>3. Dist[p] <= Len(w) + Dist[Product[p][x]]
    BY <2>2, AfterTurns
  <2>4. Len(w) \in Nat
    BY DEF Words
  <2>5. Dist[Product[p][x]] = k
    BY <1>4
  <2> QED
    BY <1>1, <2>2, <2>3, <2>4, <2>5
<1>6. PICK r \in Level[n].entries : r.c6 = x
  BY <1>2, <1>5 DEF LevelAfter
<1> QED
  BY <1>4, <1>6

(* Of a position that is far enough some entry of each level is on a       *)
(* shortest solution.                                                      *)
LEMMA LevelWay ==
  ASSUME NEW p \in Pos, NEW n \in 0..LEAD, n <= Dist[p]
  PROVE  \E q \in Level[n].entries : Dist[Product[p][q.c6]] = Dist[p] - n
<1> DEFINE N == n
           T == {k \in 0..N : \E q \in Level[k].entries : Dist[Product[p][q.c6]] = Dist[p] - k}
<1>1. N \in Nat /\ N <= LEAD /\ LEAD \in Nat /\ Dist[p] \in Nat /\ N <= Dist[p]
  BY SearchAssumption, DistAssumption
<1> HIDE DEF N
<1>2. 0 \in T
  <2>1. Root \in Level[0].entries
    BY LevelDefined
  <2>2. Product[p][Root.c6] = p
    BY PuzzleAssumption DEF Root
  <2>3. Dist[p] = Dist[p] - 0
    BY <1>1
  <2> QED
    BY <1>1, <2>1, <2>2, <2>3
<1>3. ASSUME NEW k \in 0..N, k # N, k \in T PROVE k + 1 \in T
  <2>1. /\ k + 1 \in 1..LEAD /\ (k + 1) - 1 = k /\ k + 1 \in 0..N /\ k \in Nat /\ k \in 0..LEAD
        /\ k + 1 <= Dist[p]
    BY <1>1, <1>3
  <2>2. PICK q \in Level[k].entries : Dist[Product[p][q.c6]] = Dist[p] - k
    BY <1>3
  <2>3. q.c6 \in Pos /\ Product[p][q.c6] \in Pos
    <3>1. q.c6 \in Pos
      BY <2>1, LevelsMade DEF LevelMade, Made, EntrySet
    <3> QED
      BY <3>1, SearchAssumption
  <2>4. Product[p][q.c6] # Solved
    <3>1. Dist[Product[p][q.c6]] # 0
      BY <1>1, <2>1, <2>2
    <3> QED
      BY <2>3, <3>1, DistAssumption
  <2>5. PICK m \in Turns : Dist[Move[m][Product[p][q.c6]]] = Dist[Product[p][q.c6]] - 1
    BY <2>3, <2>4, DistAssumption
  <2> DEFINE i == k + 1
             l == Dist[p] - (k + 1)
  <2>6. l \in Nat /\ Dist[p] = l + i /\ Dist[Move[m][Product[p][q.c6]]] = l
    BY <1>1, <2>1, <2>2, <2>5
  <2>7. i \in 1..LEAD /\ q \in Level[i - 1].entries
    BY <2>1
  <2> HIDE DEF i, l
  <2>8. PICK r \in Level[i].entries : Product[p][r.c6] = Move[m][Product[p][q.c6]]
    BY <2>6, <2>7, OnTheWay
  <2>9. Dist[Product[p][r.c6]] = l
    BY <2>6, <2>8
  <2> QED
    BY <2>1, <2>9 DEF i, l
<1>4. \A k \in 0..N : k \in T
  <2> HIDE DEF T
  <2> QED
    BY <1>1, <1>2, <1>3, InductionUpTo
<1>5. N \in T
  BY <1>1, <1>4
<1> QED
  BY <1>5 DEF N

(* The face turned last is spent at an entry that is on a shortest         *)
(* solution.                                                               *)
LEMMA EntrySpent ==
  ASSUME NEW p \in Pos, NEW k \in Nat, Dist[p] = k + LEAD, NEW q \in Queue,
         Dist[Product[p][q.c6]] = k
  PROVE  \E r \in Level[LEAD - 1].entries, m \in Turns :
           /\ q.last = Face(m) /\ Product[p][r.c6] \in Pos
           /\ Product[p][q.c6] = Move[m][Product[p][r.c6]]
           /\ Dist[Product[p][r.c6]] = k + 1
           /\ Spent(Move, Product[p][q.c6], q.last)
<1>1. LEAD \in Nat /\ LEAD # 0 /\ LEAD \in 1..LEAD /\ LEAD - 1 \in 0..LEAD /\ LEAD - 1 \in Nat
  <2>1. LEAD \in Nat \ {0}
    BY SearchAssumption
  <2> QED
    BY <2>1
<1>2. LevelAfter(Level[LEAD - 1], Level[LEAD]) /\ LevelMade(Level[LEAD - 1], LEAD - 1)
  BY <1>1, LevelDefined, LevelsMade
<1>3. PICK r \in Level[LEAD - 1].entries, m \in Turns : q = Entry(r, m)
  BY <1>2 DEF LevelAfter, Queue
<1>4. Made(r, LEAD - 1) /\ r \in EntrySet /\ r.c6 \in Pos
  BY <1>2 DEF LevelMade, Made, EntrySet
<1>5. q.c6 = Move[m][r.c6] /\ q.last = Face(m)
  BY <1>3, <1>4, EntryType
<1> DEFINE s == Product[p][r.c6]
           t == Product[p][q.c6]
<1>6. s \in Pos /\ Dist[s] \in Nat /\ t = Move[m][s]
  <2>1. s \in Pos /\ t = Move[m][s]
    <3>1. Product[p] \in [Pos -> Pos]
      BY SearchAssumption
    <3>2. Move[m][Product[p][r.c6]] = Product[p][Move[m][r.c6]]
      BY <1>4, Multiplied
    <3> QED
      BY <1>4, <1>5, <3>1, <3>2
  <2> QED
    BY <2>1, DistAssumption
<1>7. Dist[p] <= (LEAD - 1) + Dist[s]
  <2>1. r.turns \in Words /\ Len(r.turns) = LEAD - 1 /\ r.c6 = Apply(Solved, r.turns)
    BY <1>4 DEF Made, EntrySet
  <2> QED
    BY <2>1, AfterTurns
<1> HIDE DEF s, t
<1>8. Dist[s] <= Dist[t] + 1
  BY <1>6, DistAssumption
<1>9. Dist[t] = k
  BY DEF t
<1>10. Dist[s] = k + 1
  BY <1>1, <1>6, <1>7, <1>8, <1>9
<1>11. ASSUME NEW x \in Turns, Face(x) = q.last PROVE Dist[t] <= Dist[Move[x][t]]
  <2>1. Dist[s] <= Dist[Move[x][Move[m][s]]] + 1
    <3>1. Face(m) = Face(x)
      BY <1>5, <1>11
    <3> QED
      BY <1>6, <3>1, BothSides, OneFace
  <2>2. Dist[Move[x][t]] \in Nat
    BY <1>6, MoveType, DistAssumption
  <2> QED
    BY <1>6, <1>9, <1>10, <2>1, <2>2
<1>12. Spent(Move, t, q.last)
  BY <1>11 DEF Spent
<1> QED
  BY <1>5, <1>6, <1>10, <1>12 DEF s, t

(* A shortest solution leads through an entry of the queue and goes on     *)
(* with a turn that may follow the last one of the entry: otherwise it     *)
(* goes on with the opposite face, and the two turns exchange.             *)
LEMMA QueueWay ==
  ASSUME NEW p \in Pos, NEW k \in Nat, k # 0, Dist[p] = k + LEAD
  PROVE  \E q \in Queue, a \in Turns :
           /\ a \in Followers(q.last) /\ Dist[Product[p][q.c6]] = k
           /\ Dist[Move[a][Product[p][q.c6]]] = k - 1
           /\ Spent(Move, Product[p][q.c6], q.last)
<1>1. LEAD \in Nat /\ LEAD # 0 /\ LEAD \in 1..LEAD /\ LEAD \in 0..LEAD /\ LEAD <= Dist[p]
  BY SearchAssumption
<1>2. PICK q \in Queue : Dist[Product[p][q.c6]] = k
  <2>1. PICK q \in Level[LEAD].entries : Dist[Product[p][q.c6]] = Dist[p] - LEAD
    BY <1>1, LevelWay
  <2>2. Dist[Product[p][q.c6]] = k
    BY <1>1, <2>1
  <2> QED
    BY <2>2 DEF Queue
<1>3. PICK r \in Level[LEAD - 1].entries, m \in Turns :
        /\ q.last = Face(m) /\ Product[p][r.c6] \in Pos
        /\ Product[p][q.c6] = Move[m][Product[p][r.c6]]
        /\ Dist[Product[p][r.c6]] = k + 1
        /\ Spent(Move, Product[p][q.c6], q.last)
  BY <1>2, EntrySpent
<1> DEFINE s == Product[p][r.c6]
           t == Product[p][q.c6]
<1>4. s \in Pos /\ t \in Pos /\ t = Move[m][s] /\ Dist[t] = k /\ Dist[s] = k + 1
  BY <1>2, <1>3, MoveType
<1> HIDE DEF s, t
<1>5. PICK a \in Turns : Dist[Move[a][t]] = k - 1
  <2>1. t # Solved
    BY <1>4, DistAssumption
  <2> QED
    BY <1>4, <2>1, DistAssumption
<1>6. Face(a) # Face(m)
  <2>1. Spent(Move, t, Face(m))
    BY <1>3 DEF t
  <2>2. SUFFICES ASSUME Face(a) = Face(m) PROVE FALSE
    OBVIOUS
  <2>3. Dist[t] <= Dist[Move[a][t]]
    BY <2>1, <2>2 DEF Spent
  <2> QED
    BY <1>4, <1>5, <2>3
<1>7. CASE a \in Followers(Face(m))
  BY <1>2, <1>3, <1>5, <1>7 DEF t
<1>8. CASE /\ Axis(Face(m)) = Axis(Face(a))
           /\ Face(m) \in 3..5 /\ Face(a) = Face(m) - 3
  <2>1. Move[a][Move[m][s]] = Move[m][Move[a][s]]
    BY <1>4, <1>6, <1>8, OppositeFaces
  <2> DEFINE u == Move[a][s]
  <2>2. u \in Pos /\ Dist[u] \in Nat
    BY <1>4, MoveType, DistAssumption
  <2>3. Dist[Move[m][u]] = k - 1
    BY <1>4, <1>5, <2>1
  <2> HIDE DEF u
  <2>4. Dist[u] <= Dist[Move[m][u]] + 1
    BY <2>2, DistAssumption
  <2>5. Dist[s] <= Dist[u] + 1
    BY <1>4, DistAssumption DEF u
  <2>6. Dist[u] = k
    BY <1>4, <2>2, <2>3, <2>4, <2>5
  <2>7. PICK e \in Queue : Product[p][e.c6] = u
    <3>1. Dist[Move[a][Product[p][r.c6]]] = k
      BY <2>6 DEF u, s
    <3>2. \E e \in Level[LEAD].entries : Product[p][e.c6] = Move[a][Product[p][r.c6]]
      BY <1>1, <3>1, OnTheWay
    <3> QED
      BY <3>2 DEF u, s, Queue
  <2>8. Spent(Move, u, e.last) /\ e.last \in 0..5
    <3>1. Dist[Product[p][e.c6]] = k
      BY <2>6, <2>7
    <3>2. \E x \in Turns : e.last = Face(x) /\ Spent(Move, Product[p][e.c6], e.last)
      BY <3>1, EntrySpent
    <3> QED
      BY <2>7, <3>2, TurnTypes
  <2>9. Face(m) # e.last
    <3>1. SUFFICES ASSUME Face(m) = e.last PROVE FALSE
      OBVIOUS
    <3>2. Dist[u] <= Dist[Move[m][u]]
      BY <2>8, <3>1 DEF Spent
    <3> QED
      BY <2>3, <2>6, <3>2
  <2>10. m \in Followers(e.last)
    BY <1>8, <2>8, <2>9 DEF Followers
  <2> QED
    BY <2>3, <2>6, <2>7, <2>8, <2>10
<1> QED
  BY <1>6, <1>7, <1>8, FollowOrSwap

-----------------------------------------------------------------------------
(***************************************************************************)
(* The calls that solve and queue_search make.                             *)
(***************************************************************************)
LEMMA CallType ==
  ASSUME NEW p \in Pos, NEW last \in 0..6, NEW mask \in SUBSET (0..5),
         NEW c, c = Call(p, last, mask)
  PROVE  /\ c \in Calls /\ c.p = p /\ c.last = last /\ c.lastR = NoFace /\ c.stray = mask
         /\ Known(c.skip, c.val, c.p)
<1>1. c = [p |-> p, last |-> last, lastR |-> NoFace, skip |-> NoView, val |-> 0, stray |-> mask]
  BY DEF Call
<1>2. c \in Calls
  BY <1>1 DEF Calls, NoFace
<1>3. c.p = p /\ c.last = last /\ c.lastR = NoFace /\ c.stray = mask /\ c.skip = 255
  BY <1>1 DEF NoView
<1>4. Known(c.skip, c.val, c.p)
  BY <1>3 DEF Known
<1> QED
  BY <1>2, <1>3, <1>4

LEMMA AllFollow == Followers(NoFace) = Turns
<1>1. \A m \in Turns : Face(m) # 6
  BY TurnTypes
<1> QED
  BY <1>1 DEF Followers, NoFace

(* A way is open that begins with a turn that may follow the last; at the  *)
(* other end no face is spent yet.                                         *)
LEMMA OpenAfter ==
  ASSUME NEW p \in Pos, NEW f, Spent(Move, p, f),
         Dist[p] # 0 => \E a \in Turns : a \in Followers(f) /\ Dist[Move[a][p]] = Dist[p] - 1
  PROVE  Open(Move, Premove, p, f, NoFace)
<1>1. Dist[p] \in Nat
  BY DistAssumption
<1>2. Spent(Premove, p, NoFace)
  BY TurnTypes DEF Spent, NoFace
<1>3. ASSUME Dist[p] = 1
      PROVE  \E a \in Followers(f) \intersect Followers(NoFace) : Move[a][p] = Solved
  <2>1. PICK a \in Turns : a \in Followers(f) /\ Dist[Move[a][p]] = 0
    BY <1>3
  <2>2. Move[a][p] = Solved
    BY <2>1, MoveType, DistAssumption
  <2> QED
    BY <2>1, <2>2, AllFollow
<1>4. ASSUME Dist[p] >= 2
      PROVE  \E a \in Followers(f), b \in Followers(NoFace) : Dist[Premove[b][Move[a][p]]] = Dist[p] - 2
  <2>1. PICK a \in Turns : a \in Followers(f) /\ Dist[Move[a][p]] = Dist[p] - 1
    BY <1>1, <1>4
  <2> DEFINE q == Move[a][p]
  <2>2. q \in Pos /\ Dist[q] = Dist[p] - 1
    BY <2>1, MoveType
  <2> HIDE DEF q
  <2>3. q # Solved
    <3>1. Dist[q] # 0
      BY <1>1, <1>4, <2>2
    <3> QED
      BY <2>2, <3>1, DistAssumption
  <2>4. PICK b \in Turns : Dist[Premove[b][q]] = Dist[q] - 1
    BY <2>2, <2>3, PremoveProgress
  <2>5. Dist[Premove[b][q]] = Dist[p] - 2
    BY <1>1, <2>2, <2>4
  <2> QED
    BY <2>1, <2>5, AllFollow DEF q
<1> QED
  BY <1>2, <1>3, <1>4 DEF Open

(* The search from the start finds a solution at the distance.             *)
LEMMA StartSolved ==
  ASSUME NEW p \in Pos, Dist[p] \in 0..MaxDepth
  PROVE  Search[Dist[p]][Call(p, NoFace, {})].sol = 0
<1> DEFINE c == Call(p, NoFace, {})
<1>1. NoFace \in 0..6
  BY DEF NoFace
<1>2. /\ c \in Calls /\ c.p = p /\ c.last = NoFace /\ c.lastR = NoFace /\ c.stray = {}
      /\ Known(c.skip, c.val, c.p)
  <2> HIDE DEF c
  <2>1. c = Call(p, NoFace, {}) /\ {} \in SUBSET (0..5)
    BY DEF c
  <2> QED
    BY <1>1, <2>1, CallType
<1> HIDE DEF c
<1>3. Spent(Move, p, NoFace)
  BY TurnTypes DEF Spent, NoFace
<1>4. Dist[p] # 0 => \E a \in Turns : a \in Followers(NoFace) /\ Dist[Move[a][p]] = Dist[p] - 1
  BY AllFollow, DistAssumption
<1>5. Open(Move, Premove, p, NoFace, NoFace)
  BY <1>3, <1>4, OpenAfter
<1>6. Ready(c, Dist[p])
  BY <1>2, <1>5 DEF Ready
<1>7. Search[Dist[p]][c].sol = 0
  BY <1>2, <1>6, SearchComplete
<1> QED
  BY <1>7 DEF c

(* The search behind the queue finds one as well, at the rest of the       *)
(* distance.                                                               *)
LEMMA QueueSolved ==
  ASSUME NEW p \in Pos, NEW k \in 0..MaxDepth, k # 0, Dist[p] = k + LEAD
  PROVE  \E q \in Queue : Search[k][Call(Product[p][q.c6], q.last, {})].sol = 0
<1>1. k \in Nat
  BY DEF MaxDepth
<1>2. PICK q \in Queue, a \in Turns :
        /\ a \in Followers(q.last) /\ Dist[Product[p][q.c6]] = k
        /\ Dist[Move[a][Product[p][q.c6]]] = k - 1
        /\ Spent(Move, Product[p][q.c6], q.last)
  BY <1>1, QueueWay
<1>3. q.c6 \in Pos /\ q.last \in 0..6
  <2>1. Made(q, LEAD)
    <3>1. LEAD \in 0..LEAD
      BY SearchAssumption
    <3> QED
      BY <3>1, LevelsMade DEF LevelMade, Queue
  <2> QED
    BY <2>1 DEF Made, EntrySet
<1> DEFINE t == Product[p][q.c6]
           c == Call(t, q.last, {})
<1>4. t \in Pos
  BY <1>3, SearchAssumption
<1>5. Dist[t] = k /\ Dist[Move[a][t]] = k - 1 /\ Spent(Move, t, q.last)
  BY <1>2
<1> HIDE DEF t
<1>6. /\ c \in Calls /\ c.p = t /\ c.last = q.last /\ c.lastR = NoFace /\ c.stray = {}
      /\ Known(c.skip, c.val, c.p)
  <2> HIDE DEF c
  <2>1. c = Call(t, q.last, {}) /\ {} \in SUBSET (0..5)
    BY DEF c
  <2> QED
    BY <1>3, <1>4, <2>1, CallType
<1> HIDE DEF c
<1>7. Open(Move, Premove, t, q.last, NoFace)
  BY <1>2, <1>4, <1>5, OpenAfter
<1>8. Ready(c, k)
  BY <1>5, <1>6, <1>7 DEF Ready
<1>9. Search[k][c].sol = 0
  BY <1>6, <1>8, SearchComplete
<1> QED
  BY <1>9 DEF c, t

LEMMA ApplyConcat ==
  ASSUME NEW p \in Pos, NEW u \in Seq(Turns), NEW w \in Seq(Turns)
  PROVE  Apply(p, u \o w) = Apply(Apply(p, u), w)
<1> DEFINE v == u \o w
           I == Len(u)
           J == Len(w)
<1>1. /\ v \in Seq(Turns) /\ I \in Nat /\ J \in Nat /\ Len(v) = I + J
      /\ \A k \in 1..I : v[k] = u[k]
      /\ \A k \in (I + 1)..(I + J) : v[k] = w[k - I]
  OBVIOUS
<1>2. PICK f : Trail(f, p, u)
  BY TrailExists
<1>3. f \in [0..I -> Pos] /\ f[0] = p /\ \A k \in 1..I : f[k] = Move[u[k]][f[k - 1]]
  BY <1>2 DEF Trail
<1>4. Apply(p, u) = f[I]
  BY <1>2, TrailApply
<1>5. f[I] \in Pos
  BY <1>1, <1>3
<1>6. PICK g : Trail(g, f[I], w)
  BY <1>5, TrailExists
<1>7. g \in [0..J -> Pos] /\ g[0] = f[I] /\ \A k \in 1..J : g[k] = Move[w[k]][g[k - 1]]
  BY <1>6 DEF Trail
<1>8. Apply(f[I], w) = g[J]
  BY <1>5, <1>6, TrailApply
<1> HIDE DEF v, I, J
<1> DEFINE h == [k \in 0..(I + J) |-> IF k <= I THEN f[k] ELSE g[k - I]]
<1>9. h \in [0..(I + J) -> Pos] /\ h[0] = p
  <2>1. ASSUME NEW k \in 0..(I + J) PROVE (IF k <= I THEN f[k] ELSE g[k - I]) \in Pos
    <3>1. CASE k <= I
      BY <1>1, <1>3, <3>1
    <3>2. CASE ~(k <= I)
      <4>1. k - I \in 0..J
        BY <1>1, <3>2
      <4> QED
        BY <1>7, <3>2, <4>1
    <3> QED
      BY <3>1, <3>2
  <2>2. h[0] = p
    BY <1>1, <1>3
  <2> QED
    BY <2>1, <2>2
<1>10. ASSUME NEW k \in 1..(I + J) PROVE h[k] = Move[v[k]][h[k - 1]]
  <2>1. k \in 0..(I + J) /\ k - 1 \in 0..(I + J) /\ k \in Int
    BY <1>1
  <2>2. CASE k <= I
    <3>1. k \in 1..I /\ k - 1 <= I
      BY <1>1, <2>1, <2>2
    <3>2. h[k] = f[k] /\ h[k - 1] = f[k - 1]
      BY <2>1, <2>2, <3>1
    <3> HIDE DEF h
    <3> QED
      BY <1>1, <1>3, <3>1, <3>2
  <2>3. CASE ~(k <= I)
    <3>1. k - I \in 1..J /\ k \in (I + 1)..(I + J) /\ (k - 1) - I = (k - I) - 1
      BY <1>1, <2>1, <2>3
    <3>2. h[k] = g[k - I]
      BY <2>1, <2>3
    <3>3. h[k - 1] = g[(k - I) - 1]
      <4>1. CASE k - 1 <= I
        <5>1. k - 1 = I /\ (k - I) - 1 = 0
          BY <1>1, <2>1, <2>3, <4>1
        <5>2. h[k - 1] = f[k - 1]
          BY <2>1, <4>1
        <5> HIDE DEF h
        <5> QED
          BY <1>7, <5>1, <5>2
      <4>2. CASE ~(k - 1 <= I)
        BY <2>1, <3>1, <4>2
      <4> QED
        BY <4>1, <4>2
    <3> HIDE DEF h
    <3> QED
      BY <1>1, <1>7, <3>1, <3>2, <3>3
  <2> QED
    BY <2>2, <2>3
<1>11. h[I + J] = g[J]
  <2>1. I + J \in 0..(I + J)
    BY <1>1
  <2>2. CASE J = 0
    <3>1. h[I + J] = f[I]
      BY <1>1, <2>1, <2>2
    <3> QED
      BY <1>7, <2>2, <3>1
  <2>3. CASE J # 0
    <3>1. ~(I + J <= I) /\ (I + J) - I = J
      BY <1>1, <2>3
    <3> QED
      BY <2>1, <3>1
  <2> QED
    BY <2>2, <2>3
<1>12. Trail(h, p, v)
  <2> HIDE DEF h
  <2> QED
    BY <1>1, <1>9, <1>10 DEF Trail
<1>13. Apply(p, v) = h[I + J]
  <2> HIDE DEF h
  <2> QED
    BY <1>1, <1>12, TrailApply
<1> QED
  BY <1>4, <1>8, <1>11, <1>13 DEF v, I, J

(* A solution that queue_search puts together from an entry and the search *)
(* behind it.                                                              *)
Answers(p, w, n) == w \in Seq(Turns) /\ Len(w) = n /\ Apply(p, w) = Solved
FoundBehind(p, q, n, mask, r, w) ==
  /\ r = Search[n][Call(Product[p][q.c6], q.last, mask)] /\ r.sol = 0
  /\ w = q.turns \o GetMoves(r.path)

LEMMA EntrySound ==
  ASSUME NEW p \in Pos, NEW q \in Queue, NEW n \in 0..MaxDepth, NEW mask \in SUBSET (0..5),
         NEW r, NEW v, FoundBehind(p, q, n, mask, r, v)
  PROVE  Answers(p, v, LEAD + n)
<1>0. /\ r = Search[n][Call(Product[p][q.c6], q.last, mask)] /\ r.sol = 0
      /\ v = q.turns \o GetMoves(r.path)
  BY DEF FoundBehind
<1> DEFINE u == q.turns
           w == GetMoves(r.path)
           t == Product[p][q.c6]
           c == Call(t, q.last, mask)
<1>1. q.c6 \in Pos /\ q.last \in 0..6 /\ u \in Words /\ Len(u) = LEAD /\ q.c6 = Apply(Solved, u)
  <2>1. LEAD \in 0..LEAD
    BY SearchAssumption
  <2>2. Made(q, LEAD)
    BY <2>1, LevelsMade DEF LevelMade, Queue
  <2> QED
    BY <2>2 DEF Made, EntrySet
<1>2. t \in Pos
  BY <1>1, SearchAssumption
<1>3. Apply(p, u) = t
  BY <1>1, AfterTurns
<1> HIDE DEF u, t
<1>4. c \in Calls /\ c.p = t
  <2> HIDE DEF c
  <2>1. c = Call(t, q.last, mask)
    BY DEF c
  <2> QED
    BY <1>1, <1>2, <2>1, CallType
<1>5. r = Search[n][c] /\ r.sol = 0
  BY <1>0 DEF c, t
<1> HIDE DEF c
<1>6. r.path \in Paths /\ Len(r.path) = n /\ Apply(t, GetMoves(r.path)) = Solved
  BY <1>4, <1>5, SearchSound DEF Solves
<1>7. w \in Words /\ Len(w) = n /\ Apply(t, w) = Solved
  BY <1>6, GetMovesType
<1> HIDE DEF w
<1>8. u \in Seq(Turns) /\ w \in Seq(Turns)
  BY <1>1, <1>7 DEF Words
<1>9. u \o w \in Seq(Turns) /\ Len(u \o w) = LEAD + n
  BY <1>1, <1>7, <1>8
<1>10. Apply(p, u \o w) = Solved
  BY <1>3, <1>7, <1>8, ApplyConcat
<1> QED
  BY <1>0, <1>9, <1>10 DEF u, w, Answers

(* A solution that the search from the start finds.                        *)
LEMMA StartSound ==
  ASSUME NEW p \in Pos, NEW n \in 0..MaxDepth, NEW mask \in SUBSET (0..5),
         NEW r, r = Search[n][Call(p, NoFace, mask)], r.sol = 0
  PROVE  /\ GetMoves(r.path) \in Seq(Turns)
         /\ Len(GetMoves(r.path)) = n
         /\ Apply(p, GetMoves(r.path)) = Solved
<1> DEFINE c == Call(p, NoFace, mask)
<1>1. c \in Calls /\ c.p = p
  <2> HIDE DEF c
  <2>1. c = Call(p, NoFace, mask) /\ NoFace \in 0..6
    BY DEF c, NoFace
  <2> QED
    BY <2>1, CallType
<1>2. r = Search[n][c]
  OBVIOUS
<1> HIDE DEF c
<1>3. r.path \in Paths /\ Len(r.path) = n /\ Apply(p, GetMoves(r.path)) = Solved
  BY <1>1, <1>2, SearchSound DEF Solves
<1> QED
  BY <1>3, GetMovesType DEF Words

-----------------------------------------------------------------------------
(***************************************************************************)
(* The invariants of solve.                                                *)
(***************************************************************************)
(* Whatever a mask holds that lookup leaves unset: an answer solves the    *)
(* cube, in as many turns as the depth that was searched last, which is    *)
(* within the limit.                                                       *)
Sound ==
  phase = "done" /\ answer # <<>> =>
    Apply(start, answer) = Solved /\ Len(answer) = d /\ d <= limit

SoundInv ==
  /\ TypeOK
  /\ phase # "done" => answer = <<>>
  /\ phase = "queue" => d > BASE + LEAD
  /\ Sound

LEMMA Numbers ==
  /\ BASE \in Nat /\ LEAD \in Nat /\ LEAD # 0 /\ MaxDepth \in Nat
  /\ BASE + LEAD <= MaxDepth /\ MaxDepth + 1 < 256 /\ 16 <= MaxDepth
  /\ \A l \in Limits : l \in 0..MaxDepth /\ l \in Nat
  /\ \A mask \in Stray : mask \in SUBSET (0..5)
BY SearchAssumption DEF MaxDepth

LEMMA InitialDepthType ==
  ASSUME NEW p \in Pos
  PROVE  InitialDepth(p) \in 0..16 /\ InitialDepth(p) <= Dist[p]
<1> DEFINE n == 255
           skip == NoView
           val == 0
           mask == {}
           look == Lookup(p, n, skip, val, mask)
<1>1. /\ n \in Nat /\ skip \in (0..5) \union {NoView} /\ val \in 0..15 /\ mask \in SUBSET (0..5)
      /\ Known(skip, val, p)
  BY DEF Known, NoView
<1>2. InitialDepth(p) = look.prune
  BY DEF InitialDepth
<1> HIDE DEF n, skip, val, mask
<1>3. look = Lookup(p, n, skip, val, mask)
  OBVIOUS
<1> HIDE DEF look
<1>4. look.prune \in 0..16 /\ look.prune <= Dist[p]
  BY <1>1, <1>3, LookupType
<1> QED
  BY <1>2, <1>4

(* The outcomes of the two steps that search.                              *)
DeepenStep(r) ==
  \/ r.sol = 0 /\ phase' = "done" /\ answer' = GetMoves(r.path) /\ d' = d
  \/ r.sol # 0 /\ phase' = phase /\ answer' = answer /\ d' = d + 1

LEMMA DeepenIs ==
  ASSUME Deepen
  PROVE  /\ phase = "deepen" /\ d <= Limit1
         /\ DeepenStep(Search[d][Call(start, NoFace, stray)])
         /\ UNCHANGED <<start, limit, stray>>
BY DEF Deepen, DeepenStep

PassStep ==
  \/ /\ phase' = "done" /\ d' = d
     /\ \E q \in Queue : Behind(q).sol = 0 /\ answer' = q.turns \o GetMoves(Behind(q).path)
  \/ /\ \A q \in Queue : Behind(q).sol # 0
     /\ phase' = phase /\ answer' = answer /\ d' = (d + 1) % 256

LEMMA QueuePassIs ==
  ASSUME QueuePass
  PROVE  phase = "queue" /\ d <= limit /\ PassStep /\ UNCHANGED <<start, limit, stray>>
<1> DEFINE solving == {q \in Queue : Behind(q).sol = 0}
<1>1. PassStep
  <2>1. CASE solving # {}
    <3>1. phase' = "done" /\ d' = d /\ \E q \in solving : answer' = q.turns \o GetMoves(Behind(q).path)
      BY <2>1 DEF QueuePass
    <3> QED
      BY <3>1 DEF PassStep
  <2>2. CASE solving = {}
    <3>1. phase' = phase /\ answer' = answer /\ d' = (d + 1) % 256
      BY <2>2 DEF QueuePass
    <3> QED
      BY <2>2, <3>1 DEF PassStep
  <2> QED
    BY <2>1, <2>2
<1>2. phase = "queue" /\ d <= limit /\ UNCHANGED <<start, limit, stray>>
  BY DEF QueuePass
<1> QED
  BY <1>1, <1>2

(* The limit of the first loop of solve.                                   *)
LEMMA LimitOne ==
  ASSUME TypeOK
  PROVE  /\ Limit1 <= limit /\ Limit1 <= BASE + LEAD
         /\ Limit1 = limit \/ Limit1 = BASE + LEAD
         /\ limit \in Nat /\ limit <= MaxDepth /\ d \in Nat
<1>1. limit \in Nat /\ limit \in 0..MaxDepth
  BY Numbers DEF TypeOK
<1>2. d \in Nat
  BY Numbers DEF TypeOK
<1> QED
  BY <1>1, <1>2, Numbers DEF Limit1

(* The invariant of soundness holds at the start ...                       *)
THEOREM SoundInit == Init => SoundInv
<1> SUFFICES ASSUME Init PROVE SoundInv
  OBVIOUS
<1>1. start \in Pos /\ limit \in Limits /\ stray \in Stray /\ phase = "deepen"
      /\ d = InitialDepth(start) /\ answer = <<>>
  BY DEF Init
<1>2. d \in 0..16
  BY <1>1, InitialDepthType
<1>3. d \in 0..(MaxDepth + 1)
  BY <1>2, Numbers
<1>4. answer \in Seq(Turns)
  BY <1>1
<1> QED
  BY <1>1, <1>3, <1>4 DEF SoundInv, TypeOK, Sound

(* ... and after every step: what Search answers is turned into a solution *)
(* by get_moves, at the end of an entry's turns when there is a queue.     *)
THEOREM SoundStep == SoundInv /\ [Next]_vars => SoundInv'
<1> SUFFICES ASSUME SoundInv, [Next]_vars PROVE SoundInv'
  OBVIOUS
<1>1. /\ start \in Pos /\ limit \in Limits /\ stray \in Stray
      /\ phase \in {"deepen", "queue", "done"}
      /\ d \in 0..(MaxDepth + 1) /\ answer \in Seq(Turns)
      /\ phase # "done" => answer = <<>>
      /\ phase = "queue" => d > BASE + LEAD
  BY DEF SoundInv, TypeOK
<1>2. /\ Limit1 <= limit /\ Limit1 \in Nat /\ limit \in Nat /\ limit <= MaxDepth /\ d \in Nat
      /\ stray \in SUBSET (0..5)
  <2>1. TypeOK
    BY DEF SoundInv
  <2> QED
    BY <1>1, <2>1, LimitOne, Numbers
<1>3. CASE Deepen
  <2> DEFINE r == Search[d][Call(start, NoFace, stray)]
  <2>1. /\ phase = "deepen" /\ d <= Limit1 /\ DeepenStep(r)
        /\ start' = start /\ limit' = limit /\ stray' = stray
    BY <1>3, DeepenIs
  <2>2. d \in 0..MaxDepth /\ d <= limit /\ d + 1 \in 0..(MaxDepth + 1)
    BY <1>2, <2>1, Numbers
  <2> HIDE DEF r
  <2>3. CASE r.sol = 0 /\ phase' = "done" /\ answer' = GetMoves(r.path) /\ d' = d
    <3>1. r = Search[d][Call(start, NoFace, stray)]
      BY DEF r
    <3>2. /\ answer' \in Seq(Turns) /\ Len(answer') = d /\ Apply(start, answer') = Solved
      BY <1>1, <1>2, <2>2, <2>3, <3>1, StartSound
    <3>3. TypeOK'
      BY <1>1, <2>1, <2>3, <3>2 DEF TypeOK
    <3>4. Sound'
      BY <2>1, <2>2, <2>3, <3>2 DEF Sound
    <3> QED
      BY <2>3, <3>3, <3>4 DEF SoundInv
  <2>4. CASE r.sol # 0 /\ phase' = phase /\ answer' = answer /\ d' = d + 1
    <3>1. TypeOK'
      BY <1>1, <2>1, <2>2, <2>4 DEF TypeOK
    <3> QED
      BY <1>1, <2>1, <2>4, <3>1 DEF SoundInv, Sound
  <2> QED
    BY <2>1, <2>3, <2>4 DEF DeepenStep
<1>4. CASE ToQueue
  <2>1. /\ phase = "deepen" /\ phase' = "queue" /\ d' = BASE + LEAD + 1 /\ answer' = answer
        /\ start' = start /\ limit' = limit /\ stray' = stray
    BY <1>4 DEF ToQueue
  <2>2. d' \in 0..(MaxDepth + 1) /\ d' > BASE + LEAD
    BY <2>1, Numbers
  <2>3. TypeOK'
    BY <1>1, <2>1, <2>2 DEF TypeOK
  <2> QED
    BY <1>1, <2>1, <2>2, <2>3 DEF SoundInv, Sound
<1>5. CASE QueuePass
  <2>1. /\ phase = "queue" /\ d <= limit /\ PassStep
        /\ start' = start /\ limit' = limit /\ stray' = stray
    BY <1>5, QueuePassIs
  <2>2. /\ d > BASE + LEAD /\ d - LEAD \in 0..MaxDepth /\ LEAD + (d - LEAD) = d
        /\ (d + 1) % 256 = d + 1 /\ d + 1 \in 0..(MaxDepth + 1)
    <3>1. d > BASE + LEAD /\ d <= MaxDepth
      BY <1>1, <1>2, <2>1, Numbers
    <3>2. d - LEAD \in 0..MaxDepth /\ LEAD + (d - LEAD) = d /\ d + 1 \in 0..255
      BY <1>2, <3>1, Numbers
    <3>3. (d + 1) % 256 = d + 1
      BY <3>2
    <3> QED
      BY <3>1, <3>2, <3>3, Numbers
  <2>3. CASE /\ phase' = "done" /\ d' = d
             /\ \E q \in Queue : Behind(q).sol = 0 /\ answer' = q.turns \o GetMoves(Behind(q).path)
    <3>1. PICK q \in Queue : Behind(q).sol = 0 /\ answer' = q.turns \o GetMoves(Behind(q).path)
      BY <2>3
    <3> DEFINE r == Behind(q)
    <3>2. r = Search[d - LEAD][Call(Product[start][q.c6], q.last, stray)]
      BY DEF Behind
    <3> HIDE DEF r
    <3>3. r.sol = 0 /\ answer' = q.turns \o GetMoves(r.path)
      BY <3>1 DEF r
    <3>4. /\ answer' \in Seq(Turns) /\ Len(answer') = LEAD + (d - LEAD) /\ Apply(start, answer') = Solved
      <4> DEFINE k == d - LEAD
      <4>1. k \in 0..MaxDepth /\ r = Search[k][Call(Product[start][q.c6], q.last, stray)]
        BY <2>2, <3>2
      <4> HIDE DEF k
      <4>2. start \in Pos /\ stray \in SUBSET (0..5) /\ r.sol = 0
        BY <1>1, <1>2, <3>3
      <4> DEFINE w == q.turns \o GetMoves(r.path)
      <4>3. FoundBehind(start, q, k, stray, r, w)
        BY <4>1, <4>2 DEF FoundBehind
      <4>4. answer' = w
        BY <3>3
      <4> HIDE DEF w
      <4>5. Answers(start, w, LEAD + k)
        BY <4>1, <4>2, <4>3, EntrySound
      <4> QED
        BY <4>4, <4>5 DEF k, Answers
    <3>5. Len(answer') = d
      BY <2>2, <3>4
    <3>6. TypeOK'
      BY <1>1, <2>1, <2>3, <3>4 DEF TypeOK
    <3>7. Sound'
      BY <2>1, <2>3, <3>4, <3>5 DEF Sound
    <3> QED
      BY <2>3, <3>6, <3>7 DEF SoundInv
  <2>4. CASE phase' = phase /\ answer' = answer /\ d' = (d + 1) % 256
    <3>1. TypeOK'
      BY <1>1, <2>1, <2>2, <2>4 DEF TypeOK
    <3>2. d' > BASE + LEAD
      BY <1>2, <2>2, <2>4, Numbers
    <3> QED
      BY <1>1, <2>1, <2>4, <3>1, <3>2 DEF SoundInv, Sound
  <2> QED
    BY <2>1, <2>3, <2>4 DEF PassStep
<1>6. CASE GiveUp
  <2>1. /\ phase = "queue" /\ phase' = "done" /\ d' = d /\ answer' = answer
        /\ start' = start /\ limit' = limit /\ stray' = stray
    BY <1>6 DEF GiveUp
  <2>2. TypeOK'
    BY <1>1, <2>1 DEF TypeOK
  <2> QED
    BY <1>1, <2>1, <2>2 DEF SoundInv, Sound
<1>7. CASE Done \/ UNCHANGED vars
  <2>1. UNCHANGED vars
    BY <1>7 DEF Done
  <2> QED
    BY <2>1 DEF SoundInv, TypeOK, Sound, vars
<1> QED
  BY <1>3, <1>4, <1>5, <1>6, <1>7 DEF Next

(* The types hold, whatever the masks hold that lookup leaves unset.       *)
THEOREM TypeCorrect == Spec => []TypeOK
<1>1. SoundInv => TypeOK
  BY DEF SoundInv
<1> QED
  BY <1>1, SoundInit, SoundStep, PTL DEF Spec

(* An answer solves the cube within the limit, whatever the masks hold     *)
(* that lookup leaves unset: a stray mask costs optimality, never          *)
(* correctness.                                                            *)
THEOREM AnswersSolve == Spec => []Sound
<1>1. SoundInv => Sound
  BY DEF SoundInv
<1> QED
  BY <1>1, SoundInit, SoundStep, PTL DEF Spec

-----------------------------------------------------------------------------
(***************************************************************************)
(* Optimality, where the masks that lookup leaves unset are empty.         *)
(***************************************************************************)
(* No depth up to the one searched next has a solution: the depth never    *)
(* passes the distance, except where the distance is beyond the limit.     *)
OptimalInv ==
  /\ SoundInv
  /\ phase = "deepen" => d <= Dist[start]
  /\ phase = "queue" => d <= Dist[start] \/ limit < Dist[start]
  /\ Optimal

LEMMA OptimalStart == Init => OptimalInv
<1> SUFFICES ASSUME Init PROVE OptimalInv
  OBVIOUS
<1>1. start \in Pos /\ phase = "deepen" /\ d = InitialDepth(start)
  BY DEF Init
<1>2. d <= Dist[start]
  BY <1>1, InitialDepthType
<1> QED
  BY <1>1, <1>2, SoundInit DEF OptimalInv, Optimal

(* A solution at a depth that does not pass the distance is optimal.       *)
LEMMA AtDistance ==
  ASSUME NEW p \in Pos, NEW w \in Seq(Turns), NEW n \in Nat, Len(w) = n, Apply(p, w) = Solved,
         NEW l \in Nat, n <= l, n <= Dist[p] \/ l < Dist[p]
  PROVE  Dist[p] <= l /\ Len(w) = Dist[p]
<1>1. Dist[p] <= Len(w) + Dist[Apply(p, w)]
  BY NoShorter
<1>2. Dist[Apply(p, w)] = 0 /\ Dist[p] \in Nat
  BY DistAssumption, SearchAssumption
<1> QED
  BY <1>1, <1>2

LEMMA OptimalStep ==
  ASSUME Stray = {{}}, OptimalInv, [Next]_vars
  PROVE  OptimalInv'
<1>1. /\ start \in Pos /\ limit \in Limits /\ stray = {}
      /\ phase \in {"deepen", "queue", "done"}
      /\ phase # "done" => answer = <<>>
      /\ phase = "queue" => d > BASE + LEAD
  BY DEF OptimalInv, SoundInv, TypeOK
<1>2. /\ Limit1 <= limit /\ (Limit1 = limit \/ Limit1 = BASE + LEAD) /\ Limit1 \in Nat
      /\ limit \in Nat /\ limit <= MaxDepth /\ d \in Nat
  <2>1. TypeOK
    BY DEF OptimalInv, SoundInv
  <2> QED
    BY <1>1, <2>1, LimitOne, Numbers
<1>3. SoundInv'
  BY SoundStep DEF OptimalInv
<1>4. Dist[start] \in Nat
  BY <1>1, DistAssumption
<1>5. /\ phase = "deepen" => d <= Dist[start]
      /\ phase = "queue" => d <= Dist[start] \/ limit < Dist[start]
  BY DEF OptimalInv
<1>6. Sound' /\ answer' \in Seq(Turns)
  BY <1>3 DEF SoundInv, TypeOK
<1>7. CASE Deepen
  <2> DEFINE r == Search[d][Call(start, NoFace, stray)]
  <2>1. /\ phase = "deepen" /\ d <= Limit1 /\ DeepenStep(r)
        /\ start' = start /\ limit' = limit /\ stray' = stray
    BY <1>7, DeepenIs
  <2>2. d \in 0..MaxDepth /\ d <= limit /\ d <= Dist[start]
    <3>1. d <= limit /\ d <= MaxDepth
      BY <1>2, <2>1, Numbers
    <3> QED
      BY <1>2, <1>5, <2>1, <3>1, Numbers
  <2>3. CASE r.sol = 0 /\ phase' = "done" /\ answer' = GetMoves(r.path) /\ d' = d
    <3>1. GetMoves(r.path) \in Seq(Turns) /\ Len(GetMoves(r.path)) = d
          /\ Apply(start, GetMoves(r.path)) = Solved
      <4> HIDE DEF r
      <4>1. r = Search[d][Call(start, NoFace, stray)] /\ stray \in SUBSET (0..5)
        BY <1>1 DEF r
      <4> QED
        BY <1>1, <2>2, <2>3, <4>1, StartSound
    <3> HIDE DEF r
    <3>2. Dist[start] <= limit /\ Len(GetMoves(r.path)) = Dist[start]
      BY <1>1, <1>2, <2>2, <3>1, AtDistance
    <3>3. Optimal'
      BY <2>1, <2>3, <3>1, <3>2 DEF Optimal
    <3> QED
      BY <1>3, <2>3, <3>3 DEF OptimalInv
  <2>4. CASE r.sol # 0 /\ phase' = phase /\ answer' = answer /\ d' = d + 1
    <3>1. d # Dist[start]
      BY <1>1, <2>2, <2>4, StartSolved
    <3> HIDE DEF r
    <3>2. d' <= Dist[start]
      BY <1>2, <1>4, <2>2, <2>4, <3>1
    <3> QED
      BY <1>3, <2>1, <2>4, <3>2 DEF OptimalInv, Optimal
  <2> QED
    BY <2>1, <2>3, <2>4 DEF DeepenStep
<1>8. CASE ToQueue
  <2>1. /\ phase = "deepen" /\ d > Limit1 /\ phase' = "queue" /\ d' = BASE + LEAD + 1
        /\ start' = start /\ limit' = limit
    BY <1>8 DEF ToQueue
  <2>2. d' <= Dist[start] \/ limit < Dist[start]
    BY <1>2, <1>4, <1>5, <2>1, Numbers
  <2> QED
    BY <1>3, <2>1, <2>2 DEF OptimalInv, Optimal
<1>9. CASE QueuePass
  <2>1. /\ phase = "queue" /\ d <= limit /\ PassStep
        /\ start' = start /\ limit' = limit /\ stray' = stray
    BY <1>9, QueuePassIs
  <2> DEFINE k == d - LEAD
  <2>2. d > BASE + LEAD /\ k \in 0..MaxDepth /\ k # 0 /\ d = k + LEAD /\ (d + 1) % 256 = d + 1
    <3>1. d > BASE + LEAD /\ d <= MaxDepth
      BY <1>1, <1>2, <2>1, Numbers
    <3>2. k \in 0..MaxDepth /\ k # 0 /\ d = k + LEAD /\ d + 1 \in 0..255
      BY <1>2, <3>1, Numbers
    <3>3. (d + 1) % 256 = d + 1
      BY <3>2
    <3> QED
      BY <3>1, <3>2, <3>3
  <2>3. \A q : Behind(q) = Search[k][Call(Product[start][q.c6], q.last, stray)]
    BY DEF Behind
  <2> HIDE DEF k
  <2>4. CASE /\ phase' = "done" /\ d' = d
             /\ \E q \in Queue : Behind(q).sol = 0 /\ answer' = q.turns \o GetMoves(Behind(q).path)
    <3>1. PICK q \in Queue : Behind(q).sol = 0 /\ answer' = q.turns \o GetMoves(Behind(q).path)
      BY <2>4
    <3> DEFINE r == Behind(q)
    <3>2. r = Search[k][Call(Product[start][q.c6], q.last, stray)] /\ stray \in SUBSET (0..5)
      BY <1>1, <2>3
    <3> HIDE DEF r
    <3>3. r.sol = 0 /\ answer' = q.turns \o GetMoves(r.path)
      BY <3>1 DEF r
    <3> DEFINE w == q.turns \o GetMoves(r.path)
    <3>4. FoundBehind(start, q, k, stray, r, w) /\ answer' = w
      BY <3>2, <3>3 DEF FoundBehind
    <3> HIDE DEF w
    <3>5. w \in Seq(Turns) /\ Len(w) = LEAD + k /\ Apply(start, w) = Solved
      <4>1. Answers(start, w, LEAD + k)
        BY <1>1, <2>2, <3>2, <3>4, EntrySound
      <4> QED
        BY <4>1 DEF Answers
    <3>6. Len(w) = d
      <4>1. LEAD \in Nat /\ k \in Nat
        BY <2>2, Numbers
      <4> QED
        BY <2>2, <3>5, <4>1
    <3>7. Dist[start] <= limit /\ Len(w) = Dist[start]
      BY <1>1, <1>2, <1>5, <2>1, <3>5, <3>6, AtDistance
    <3>8. Optimal'
      BY <2>1, <2>4, <3>4, <3>5, <3>7 DEF Optimal
    <3> QED
      BY <1>3, <2>4, <3>8 DEF OptimalInv
  <2>5. CASE /\ \A q \in Queue : Behind(q).sol # 0
             /\ phase' = phase /\ answer' = answer /\ d' = (d + 1) % 256
    <3>1. d # Dist[start]
      <4>1. SUFFICES ASSUME d = Dist[start] PROVE FALSE
        OBVIOUS
      <4>2. \E q \in Queue : Search[k][Call(Product[start][q.c6], q.last, {})].sol = 0
        BY <1>1, <2>2, <4>1, QueueSolved
      <4> QED
        BY <1>1, <2>3, <2>5, <4>2
    <3>2. d' <= Dist[start] \/ limit < Dist[start]
      BY <1>2, <1>4, <1>5, <2>1, <2>2, <2>5, <3>1
    <3> QED
      BY <1>3, <2>1, <2>5, <3>2 DEF OptimalInv, Optimal
  <2> QED
    BY <2>1, <2>4, <2>5 DEF PassStep
<1>10. CASE GiveUp
  <2>1. /\ phase = "queue" /\ d > limit /\ phase' = "done" /\ answer' = answer
        /\ start' = start /\ limit' = limit
    BY <1>10 DEF GiveUp
  <2>2. limit < Dist[start]
    BY <1>2, <1>4, <1>5, <2>1
  <2>3. Optimal'
    BY <1>1, <1>2, <1>4, <2>1, <2>2 DEF Optimal
  <2> QED
    BY <1>3, <2>1, <2>3 DEF OptimalInv
<1>11. CASE Done \/ UNCHANGED vars
  <2>1. UNCHANGED vars
    BY <1>11 DEF Done
  <2> QED
    BY <1>3, <2>1 DEF OptimalInv, Optimal, vars
<1> QED
  BY <1>7, <1>8, <1>9, <1>10, <1>11 DEF Next

LEMMA OptimalInduction == Stray = {{}} => (Spec => []OptimalInv)
<1>1. Stray = {{}} => (OptimalInv /\ [Next]_vars => OptimalInv')
  BY OptimalStep
<1>2. Stray = {{}} => [](Stray = {{}})
  OBVIOUS
<1> QED
  BY <1>1, <1>2, OptimalStart, PTL DEF Spec

(* vcube is an optimal solver, for every puzzle and every table that meets *)
(* the assumptions, if lookup's caller starts from an empty mask: neither  *)
(* the masked axes, nor the values passed on, the one order of opposite    *)
(* faces, the skipped turns or the queue cut the last shortest solution.   *)
THEOREM SearchIsOptimal == Stray = {{}} => (Spec => []Optimal)
<1>1. OptimalInv => Optimal
  BY DEF OptimalInv
<1> QED
  BY <1>1, OptimalInduction, PTL

=============================================================================
