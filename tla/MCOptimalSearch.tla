--------------------------- MODULE MCOptimalSearch ---------------------------
(***************************************************************************)
(* A puzzle for OptimalSearch: five pieces, 120 positions, six turns on    *)
(* five faces, at most seven of them in a shortest solution.  Face 0 has   *)
(* two turns (a cycle of three and its inverse), the others one (a swap);  *)
(* faces 0 and 3 are opposite, and so are 1 and 4.                         *)
(*                                                                         *)
(* A view is the coset of a position under the turns of its axis, and its  *)
(* pruning value is built as in the table: exact above BASE and up to      *)
(* BASE + 3, and the least of a stripe of cosets up to BASE.               *)
(***************************************************************************)
EXTENDS LineSolver, FiniteSetsExt, TLC

CONSTANT Striped   (* stripes hold several cosets                          *)

Pieces   == 1..5
Identity == [i \in Pieces |-> i]
Cycles   == 0 :> <<2, 3, 1, 4, 5>> @@ 1 :> <<3, 1, 2, 4, 5>>    \* face 0
         @@ 9 :> <<1, 2, 3, 5, 4>>                              \* face 3
         @@ 3 :> <<2, 1, 3, 4, 5>>                              \* face 1
         @@ 12 :> <<1, 2, 4, 3, 5>>                             \* face 4
         @@ 6 :> <<1, 3, 2, 4, 5>>                              \* face 2

MCPos     == {p \in [Pieces -> Pieces] : \A i, k \in Pieces : i # k => p[i] # p[k]}
MCTurns   == DOMAIN Cycles
After(a, b) == [i \in Pieces |-> b[a[i]]]
MCProduct == [p \in MCPos |-> [q \in MCPos |-> After(p, q)]]
MCMove    == [m \in MCTurns |-> [p \in MCPos |-> After(p, Cycles[m])]]
MCPremove == [m \in MCTurns |-> [p \in MCPos |-> After(Cycles[m], p)]]
InverseOf(p) == [i \in Pieces |-> CHOOSE k \in Pieces : p[k] = i]

(* Least number of turns from the set of positions "from" to each other.   *)
RECURSIVE Spread(_, _, _)
Spread(reached, frontier, n) ==
  IF frontier = {} THEN reached
  ELSE LET new == {MCMove[m][p] : m \in MCTurns, p \in frontier} \ DOMAIN reached
       IN  Spread(reached @@ [p \in new |-> n + 1], new, n + 1)
Distances(from) == Spread([p \in from |-> 0], from, 0)
MCDist == Distances({Identity})

AxisGroup(a) == {p \in MCPos :
  LET own == {m \in MCTurns : Axis(Face(m)) = a}
      RECURSIVE Closure(_)
      Closure(S) == LET T == S \union {After(q, Cycles[m]) : q \in S, m \in own}
                    IN  IF T = S THEN S ELSE Closure(T)
  IN  p \in Closure({Identity})}

Groups == [a \in Axes |-> AxisGroup(a)]
Coset(a, p) == {After(g, p) : g \in Groups[a]}
CosetDist == [a \in Axes |-> Distances(Groups[a])]

(* Cosets that take piece 5 to the same place share a stripe.              *)
StripeOf(a, p) == IF Striped THEN {q[5] : q \in Coset(a, p)} ELSE Coset(a, p)

TableValue(a) ==
  LET depth == CosetDist[a]
      stripe == [p \in MCPos |-> StripeOf(a, p)]
  IN  [p \in MCPos |->
         IF depth[p] > BASE THEN Min({depth[p], BASE + 3})
         ELSE Min({depth[q] : q \in {r \in MCPos : stripe[r] = stripe[p]}})]

Tables == [a \in Axes |-> TableValue(a)]
MCPrune == [v \in 0..5 |-> IF v \in Axes THEN Tables[v]
                           ELSE [p \in MCPos |-> Tables[v - 3][InverseOf(p)]]]

(* A word for each position or its inverse, in either style, and some less *)
(* tidy lines, as in the tests of moveseq_t.                               *)
MCInverse == [p \in MCPos |-> InverseOf(p)]
Words[n \in 0..7] ==
  IF n = 0 THEN (Identity :> <<>>)
  ELSE LET words == Words[n - 1]
           steps == {<<p, m>> \in (DOMAIN words) \X MCTurns : MCMove[m][p] \notin DOMAIN words}
           first(q) == CHOOSE x \in steps : MCMove[x[2]][x[1]] = q
       IN  words @@ [q \in {MCMove[x[2]][x[1]] : x \in steps} |->
                       Append(words[first(q)[1]], first(q)[2])]
Sloppy == {<<"u", "u", "\n">>, <<"?", "U", "2", "1", "X", "r">>, <<"2">>, <<"f", " ", "2", "D", "l">>}
MCLines == Sloppy \union
  LET words == Words[7]
  IN  {Written(words[p], IF p[1] % 2 = 0 THEN "fixed" ELSE "singmaster") :
         p \in {CHOOSE q \in {r, InverseOf(r)} : TRUE : r \in MCPos}}

NoStray  == {{}}
AnyStray == {{}, {0}, {4}, {1, 3}, {2, 5}, 0..2, 3..5, 0..5}

=============================================================================
