---------------------------- MODULE OptimalSearch ----------------------------
(***************************************************************************)
(* The search for a shortest solution: solver::solve, search, queue_search *)
(* and get_moves, solver_base::init (src/src/nxsolve.h, nxsolve.cpp) and   *)
(* prune::lookup (src/src/nxprune.h).                                      *)
(*                                                                         *)
(* The search deepens iteratively and works at both ends of the solution:  *)
(* at a node it either appends a move to the cube (forward) or prepends    *)
(* one (reverse), whichever end leaves fewer moves to try.  The cube is    *)
(* seen from three directions, and so is its inverse; each of the six      *)
(* views has a pruning value.  Turning a face of axis a leaves view a + 3  *)
(* (the inverse) unchanged, and prepending such a turn leaves view a       *)
(* unchanged, so that a view at the limit rules out an axis.  Beyond       *)
(* BASE + LEAD the search starts from all positions at depth LEAD.         *)
(*                                                                         *)
(* The puzzle is a parameter: its positions, what a turn does at either    *)
(* end, and the pruning values.  A turn is its face and its amount.        *)
(***************************************************************************)
EXTENDS Integers, Sequences, FiniteSets

CONSTANTS
  Pos,       (* positions                                                  *)
  Solved,    (* the solved one                                             *)
  Product,   (* Product[p][q]: p followed by what leads from Solved to q   *)
  Turns,     (* the turns 3 * face + amount, face in 0..5, amount in 0..2  *)
  Move,      (* Move[m][p]: p followed by m                                *)
  Premove,   (* Premove[m][p]: m followed by p                             *)
  Prune,     (* Prune[v][p]: the pruning value of view v, v in 0..5        *)
  BASE,      (* the base depth of the table                                *)
  LEAD,      (* the depth the queue starts from, 4 in the code             *)
  Limits,    (* the values of --depth that are considered                  *)
  Stray,     (* what axis_mask may hold when lookup does not set it        *)
  Dist       (* Dist[p]: length of a shortest solution of p                *)

Faces  == 0..5
NoFace == 6
Axes   == 0..2
NoView == 255
MaxDepth == 254   \* of a depth that, with one more, fits a uint8_t
Face(m) == m \div 3
Axis(f) == f % 3

ASSUME SearchAssumption ==
  /\ Solved \in Pos
  /\ Turns \subseteq 0..17
  /\ Product \in [Pos -> [Pos -> Pos]]
  /\ Move \in [Turns -> [Pos -> Pos]]
  /\ Premove \in [Turns -> [Pos -> Pos]]
  /\ Prune \in [0..5 -> [Pos -> 0..15]]
  /\ BASE \in Nat /\ LEAD \in Nat \ {0} /\ BASE + LEAD <= MaxDepth
  /\ Limits \subseteq 0..MaxDepth
  /\ Stray \subseteq SUBSET (0..5)

(* What makes it a twisty puzzle: positions are multiplied, and a turn is  *)
(* multiplied like a position.  The two turns of one face amount to a turn *)
(* or to nothing, and a turn of the same face undoes a turn; turns of      *)
(* opposite faces commute.                                                 *)
ASSUME PuzzleAssumption ==
  /\ \A p \in Pos : Product[p][Solved] = p /\ Product[Solved][p] = p
  /\ \A m \in Turns, p, q \in Pos :
       /\ Move[m][Product[p][q]] = Product[p][Move[m][q]]
       /\ Product[Move[m][p]][q] = Product[p][Premove[m][q]]
  /\ \A m, n \in Turns : Face(m) = Face(n) =>
       Move[n][Move[m][Solved]] \in {Solved} \union {Move[k][Solved] : k \in Turns}
  /\ \A m \in Turns : \E n \in Turns : Face(n) = Face(m) /\ Move[n][Move[m][Solved]] = Solved
  /\ \A m, n \in Turns : Axis(Face(m)) = Axis(Face(n)) /\ Face(m) # Face(n)
       => Move[m][Move[n][Solved]] = Move[n][Move[m][Solved]]

(* Dist is the length of a shortest solution: a turn shortens it by one at *)
(* most, and some turn does unless the position is solved.                 *)
ASSUME DistAssumption ==
  /\ Dist \in [Pos -> Nat]
  /\ \A p \in Pos : Dist[p] = 0 <=> p = Solved
  /\ \A m \in Turns, p \in Pos : Dist[p] <= Dist[Move[m][p]] + 1
  /\ \A p \in Pos \ {Solved} : \E m \in Turns : Dist[Move[m][p]] = Dist[p] - 1

(* What the tables promise: admissible values, unchanged by the turns of   *)
(* their axis at the other end.                                            *)
ASSUME TableAssumption ==
  /\ \A v \in 0..5, p \in Pos : Prune[v][p] <= Dist[p]
  /\ \A m \in Turns, p \in Pos :
       /\ Prune[Axis(Face(m)) + 3][Move[m][p]] = Prune[Axis(Face(m)) + 3][p]
       /\ Prune[Axis(Face(m))][Premove[m][p]] = Prune[Axis(Face(m))][p]

-----------------------------------------------------------------------------
(* axis_mask_expand: the turns of the axes that are not masked.            *)
Unmasked(axes) == {m \in Turns : Axis(Face(m)) \notin axes}

(* Defect: opposite faces follow each other in neither order.              *)
MutFollowers(f) == {m \in Turns : Face(m) # f /\ ~(f < 3 /\ Face(m) = f + 3)
                                              /\ ~(f \in 3..5 /\ Face(m) = f - 3)}

(* last_face_mask: the turns that may follow a turn of face f.  Opposite   *)
(* faces are turned in one order only.                                     *)
Followers(f) == {m \in Turns : Face(m) # f /\ ~(f \in 3..5 /\ Face(m) = f - 3)}

(* prune_cmp: the largest of three values; one more if they are equal, for *)
(* the last turn of a solution is on some axis and preserves one of them.  *)
Bound(a, b, c) ==
  IF a = b /\ b = c THEN a + 1 ELSE CHOOSE x \in {a, b, c} : \A y \in {a, b, c} : x >= y

(* lookup.  The pruning values P of the views and a bound for each of the  *)
(* two cubes are checked in turn, the fourth and the last check being the  *)
(* bounds; the first that exceeds the limit is returned, and nothing else  *)
(* is set.  The value of view "skip" is known and not checked.  Three      *)
(* zeros return zero and set no mask.  Otherwise the views at the limit    *)
(* are masked.                                                             *)
Values(p, skip, val) == [v \in 0..5 |-> IF v = skip THEN val ELSE Prune[v][p]]

Check(P, skip, k) ==
  LET v == k - 1 - (k \div 4)
  IN  IF k \in {4, 8} THEN Bound(P[v - 2], P[v - 1], P[v])
      ELSE IF v = skip THEN 0 ELSE P[v]

Lookup(p, limit, skip, val, stray) ==
  LET P        == Values(p, skip, val)
      check(k) == Check(P, skip, k)
      above    == {k \in 1..8 : check(k) > limit}
  IN  IF \A v \in 0..2 : P[v] = 0
      THEN [prune |-> 0, vals |-> [v \in 0..5 |-> 0], mask |-> stray]
      ELSE [prune |-> IF above # {} THEN check(CHOOSE k \in above : \A l \in above : k <= l)
                      ELSE IF check(4) < check(8) THEN check(8) ELSE check(4),
            vals  |-> P,
            mask  |-> {v \in 0..5 : P[v] = limit}]

InitialDepth(p) == Lookup(p, 255, NoView, 0, {}).prune

(* The choice of the end: forward if fewer turns are left there, or as     *)
(* many and the sum of the forward values is larger.                       *)
Forward(forward, reverse, vals) ==
  \/ Cardinality(reverse) > Cardinality(forward)
  \/ /\ Cardinality(reverse) = Cardinality(forward)
     /\ vals[0] + vals[1] + vals[2] > vals[3] + vals[4] + vals[5]

(* What lookup returns.                                                    *)
Looks == [prune : 0..16, vals : [0..5 -> 0..15], mask : SUBSET (0..5)]

Failed(n)    == [sol |-> n, path |-> <<>>]
Success      == [sol |-> 0, path |-> <<>>]

(* A call of search: the cube, the last faces turned at both ends, the     *)
(* view that is known and its value; and the stray mask.                   *)
Calls == [p : Pos, last : 0..6, lastR : 0..6,
          skip : (0..5) \union {NoView}, val : 0..15, stray : SUBSET (0..5)]

Call(p, last, stray) ==
  [p |-> p, last |-> last, lastR |-> NoFace, skip |-> NoView, val |-> 0, stray |-> stray]

(* The turns that are left at the two ends of the cube.                    *)
AtEnd(c, look) ==
  Unmasked({v - 3 : v \in look.mask \ 0..2}) \intersect Followers(c.last)
AtStart(c, look) ==
  Unmasked(look.mask \intersect 0..2) \intersect Followers(c.lastR)

(* The call for one turn; the value of the view it leaves unchanged is     *)
(* passed on.                                                              *)
Below(c, vals, ahead, m) ==
  LET view == Axis(Face(m)) + IF ahead THEN 3 ELSE 0
  IN  [p     |-> IF ahead THEN Move[m][c.p] ELSE Premove[m][c.p],
       last  |-> IF ahead THEN Face(m) ELSE c.last,
       lastR |-> IF ahead THEN c.lastR ELSE Face(m),
       skip  |-> view, val |-> vals[view], stray |-> c.stray]

(* search, where the children answer "below": the turns are tried from the *)
(* lowest bit of the mask until one of them ends the search, by a solution *)
(* or by a value well above its depth.  A value somewhat above its depth   *)
(* skips the other turns of its face.                                      *)
Try(n, c, look, ahead, below) ==
  LET results == {[turn |-> m, child |-> below[Below(c, look.vals, ahead, m)]] :
                    m \in IF ahead THEN AtEnd(c, look) ELSE AtStart(c, look)}
      skips(r, s) == r.turn < s.turn /\ Face(r.turn) = Face(s.turn) /\ r.child.sol = n + 1
      ending  == {s \in results : /\ s.child.sol = 0 \/ s.child.sol > n + 1
                                  /\ \A r \in results : ~skips(r, s)}
      first   == CHOOSE s \in ending : \A r \in ending : s.turn <= r.turn
  IN  IF ending = {} THEN Failed(IF look.prune = 0 THEN 1 ELSE look.prune)
      ELSE IF first.child.sol = 0
      THEN [sol |-> 0, path |-> Append(first.child.path, <<first.turn, ~ahead>>)]
      ELSE Failed(first.child.sol - 1)

Visit(n, c, below) ==
  LET visit[look \in Looks] ==
        LET ahead == Forward(AtEnd(c, look), AtStart(c, look), look.vals)
        IN  IF look.prune > n THEN Failed(look.prune) ELSE Try(n, c, look, ahead, below)
  IN  visit[Lookup(c.p, n, c.skip, c.val, c.stray)]

(* search with max_depth n: the value it returns, and the turns it leaves  *)
(* in moves[], innermost first: <<m, TRUE>> was prepended to the cube,     *)
(* <<m, FALSE>> appended.                                                  *)
Search[n \in 0..MaxDepth] ==
  IF n = 0 THEN [c \in Calls |-> IF c.p = Solved THEN Success ELSE Failed(1)]
  ELSE [c \in Calls |-> Visit(n, c, Search[n - 1])]

(* Defect: the mark of a prepended turn is left on.                        *)
MutGetMoves(path) ==
  LET inner[k \in 0..Len(path)] ==
        IF k = 0 THEN <<>>
        ELSE IF path[k][2] THEN Append(inner[k - 1], path[k][1] + 128)
        ELSE <<path[k][1]>> \o inner[k - 1]
  IN  inner[Len(path)]

(* get_moves fills a sequence from its front with appended turns, and from *)
(* its back with prepended ones, the outermost first; here it is built     *)
(* around the innermost.                                                   *)
GetMoves(path) ==
  LET inner[k \in 0..Len(path)] ==
        IF k = 0 THEN <<>>
        ELSE IF path[k][2] THEN Append(inner[k - 1], path[k][1])
        ELSE <<path[k][1]>> \o inner[k - 1]
  IN  inner[Len(path)]

(* The position after some turns.                                          *)
Apply(p, turns) ==
  LET after[k \in 0..Len(turns)] == IF k = 0 THEN p ELSE Move[turns[k]][after[k - 1]]
  IN  after[Len(turns)]

-----------------------------------------------------------------------------
(* solver_base::init: the positions at depth LEAD, each with the turns     *)
(* that led there first.  An entry also has its turns packed in a number,  *)
(* as in the code; entries are found in the order of these numbers.  A     *)
(* level has its entries and all positions seen so far.                    *)
Root == [c6 |-> Solved, turns |-> <<>>, moves |-> 0, last |-> NoFace]

Entry(q, m) ==
  [c6 |-> Move[m][q.c6], turns |-> Append(q.turns, m), moves |-> (256 * q.moves) + m,
   last |-> Face(m)]

NextLevel(level) ==
  LET found == {q \in {Entry(x[1], x[2]) : x \in level.entries \X Turns} : q.c6 \notin level.seen}
  IN  [entries |-> {q \in found : \A r \in found : r.c6 = q.c6 => q.moves <= r.moves},
       seen    |-> level.seen \union {q.c6 : q \in found}]

Level[n \in 0..LEAD] ==
  IF n = 0 THEN [entries |-> {Root}, seen |-> {Solved}] ELSE NextLevel(Level[n - 1])

Queue == Level[LEAD].entries

-----------------------------------------------------------------------------
VARIABLES
  start,    (* the cube to solve                                           *)
  limit,    (* --depth                                                     *)
  stray,    (* what axis_mask holds when lookup leaves it, in this solve   *)
  phase,    (* "deepen", "queue" or "done"                                 *)
  d,        (* the depth to search next                                    *)
  answer    (* the solution                                                *)

vars == <<start, limit, stray, phase, d, answer>>

Init ==
  /\ start \in Pos
  /\ limit \in Limits
  /\ stray \in Stray
  /\ phase = "deepen"
  /\ d = InitialDepth(start)
  /\ answer = <<>>

Limit1 == IF limit < BASE + LEAD THEN limit ELSE BASE + LEAD

(* solve: one iteration of the loop over the depths.                       *)
Deepen ==
  /\ phase = "deepen"
  /\ d <= Limit1
  /\ LET s == Search[d][Call(start, NoFace, stray)]
     IN  IF s.sol = 0
         THEN /\ phase' = "done"
              /\ answer' = GetMoves(s.path)
              /\ UNCHANGED d
         ELSE /\ d' = d + 1
              /\ UNCHANGED <<phase, answer>>
  /\ UNCHANGED <<start, limit, stray>>

(* solve: no solution up to BASE + LEAD, the queue takes over.             *)
ToQueue ==
  /\ phase = "deepen"
  /\ d > Limit1
  /\ phase' = "queue"
  /\ d' = BASE + LEAD + 1
  /\ UNCHANGED <<start, limit, stray, answer>>

(* The search behind one entry of the queue at depth d.                    *)
Behind(q) ==
  Search[d - LEAD][Call(Product[start][q.c6], q.last, stray)]

(* queue_search: a pass over the queue.  Its order follows the cost of the *)
(* previous pass, so that any solution may come first; d is a uint8_t.     *)
QueuePass ==
  /\ phase = "queue"
  /\ d <= limit
  /\ LET solving == {q \in Queue : Behind(q).sol = 0}
     IN  IF solving # {}
         THEN /\ phase' = "done"
              /\ \E q \in solving :
                   answer' = q.turns \o GetMoves(Behind(q).path)
              /\ UNCHANGED d
         ELSE /\ d' = (d + 1) % 256
              /\ UNCHANGED <<phase, answer>>
  /\ UNCHANGED <<start, limit, stray>>

(* solve: nothing up to the limit; the sequence that is returned is empty. *)
GiveUp ==
  /\ phase = "queue"
  /\ d > limit
  /\ phase' = "done"
  /\ UNCHANGED <<start, limit, stray, d, answer>>

Done == phase = "done" /\ UNCHANGED vars

Next == Deepen \/ ToQueue \/ QueuePass \/ GiveUp \/ Done

Spec == Init /\ [][Next]_vars

-----------------------------------------------------------------------------
TypeOK ==
  /\ start \in Pos
  /\ limit \in Limits
  /\ stray \in Stray
  /\ phase \in {"deepen", "queue", "done"}
  /\ d \in 0..(MaxDepth + 1)
  /\ answer \in Seq(Turns)

(* vcube is an optimal solver: the answer solves the cube and no shorter   *)
(* one exists, unless it takes more turns than the limit.  Masked axes,    *)
(* preserved pruning values, the one order of opposite faces at both ends, *)
(* BPMX and the queue must none of them cut the last shortest solution.    *)
Optimal ==
  phase = "done" =>
    IF Dist[start] <= limit
    THEN Len(answer) = Dist[start] /\ Apply(start, answer) = Solved
    ELSE answer = <<>>

=============================================================================
