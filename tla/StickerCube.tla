---------------------------- MODULE StickerCube ----------------------------
(***************************************************************************)
(* The puzzle as one holds it: faces whose stickers move when a face is    *)
(* turned.  It knows nothing of cubies, bytes or coordinates, and is what  *)
(* the cubes of the program are compared with.                             *)
(*                                                                         *)
(* A facelet is a face of a place, and a place is named by its faces:      *)
(* <<F, {F, U}>> is the upper one of the front.  A sticker is named by the *)
(* facelet that it has on the solved puzzle.                               *)
(***************************************************************************)
EXTENDS Integers, Sequences, FiniteSets

Faces == {"U", "R", "F", "D", "L", "B"}

(* The neighbours of a face, clockwise, from the one that is up when one   *)
(* looks at it.                                                            *)
Ring == [U |-> <<"B", "R", "F", "L">>, R |-> <<"U", "B", "D", "F">>,
         F |-> <<"U", "R", "D", "L">>, D |-> <<"F", "R", "B", "L">>,
         L |-> <<"U", "F", "D", "B">>, B |-> <<"U", "L", "D", "R">>]

Beside(f, k)  == Ring[f][(k % 4) + 1]
EdgeFacelets   == {<<f, {f, Beside(f, k)}>> : f \in Faces, k \in 0..3}
CornerFacelets == {<<f, {f, Beside(f, k), Beside(f, k + 1)}>> : f \in Faces, k \in 0..3}
Facelets == EdgeFacelets \union CornerFacelets

(* Where a face goes when face f is turned by n quarters, clockwise.       *)
Around(f, n, g) ==
  IF g = f THEN f ELSE Beside(f, n - 1 + CHOOSE k \in 1..4 : Ring[f][k] = g)

(* Where stickers go and where they come from.                             *)
Turned(f, n, x) ==
  IF f \in x[2] THEN <<Around(f, n, x[1]), {Around(f, n, g) : g \in x[2]}>> ELSE x
CameFrom == [f \in Faces |-> [n \in 1..3 |-> [x \in Facelets |-> Turned(f, 4 - n, x)]]]

VARIABLE pic   (* pic[x]: the sticker seen at x                            *)

Home == [x \in Facelets |-> x]

(* A turn of the puzzle; and a turn made before all the others, which      *)
(* leaves the others to be made on a puzzle that is not solved.            *)
AfterTurn(p, f, n)  == [x \in Facelets |-> p[CameFrom[f][n][x]]]
BeforeTurn(p, f, n) == [x \in Facelets |-> CameFrom[f][n][p[x]]]

Turn(f, n)    == pic' = AfterTurn(pic, f, n)
PreTurn(f, n) == pic' = BeforeTurn(pic, f, n)

Init == pic = Home
Next == \E f \in Faces, n \in 1..3 : Turn(f, n) \/ PreTurn(f, n)
Spec == Init /\ [][Next]_pic

-----------------------------------------------------------------------------
(* Speffz: the letters A to X, as numbers, name the facelets of each kind, *)
(* four to a face, clockwise from the top edge and the corner before it.   *)
Speffz == <<"U", "L", "F", "R", "B", "D">>
EdgeNamed(k) ==
  LET f == Speffz[(k \div 4) + 1] IN <<f, {f, Beside(f, k)}>>
CornerNamed(k) ==
  LET f == Speffz[(k \div 4) + 1] IN <<f, {f, Beside(f, k + 3), Beside(f, k)}>>

(* The n-th facelet of the place of x, clockwise, after x.                 *)
Clockwise(x) ==
  IF Cardinality(x[2]) = 2 THEN <<CHOOSE g \in x[2] : g # x[1], x[2]>>
  ELSE <<CHOOSE g \in x[2] : \E h \in x[2] \ {g} :
           \E k \in 0..3 : Beside(x[1], k) = g /\ Beside(x[1], k + 1) = h, x[2]>>
After(x, n) == CASE n = 0 -> x
                 [] n = 1 -> Clockwise(x)
                 [] n = 2 -> Clockwise(Clockwise(x))

(* The stickers at x and y change places, and the rest of their cubies     *)
(* goes with them.                                                         *)
Exchanged(p, x, y) ==
  LET Partner(z) ==
        CASE z[2] = x[2] -> After(y, CHOOSE n \in 0..2 : After(x, n) = z)
          [] z[2] = y[2] -> After(x, CHOOSE n \in 0..2 : After(y, n) = z)
  IN  IF x[2] = y[2] THEN p
      ELSE [z \in Facelets |-> IF z[2] \in {x[2], y[2]} THEN p[Partner(z)] ELSE p[z]]

(* A cubie turns in its place, so that the sticker at x comes to y.        *)
Twisted(p, x, y) ==
  LET n == CHOOSE n \in 0..2 : After(y, n) = x
  IN  [z \in Facelets |-> IF z[2] = x[2] THEN p[After(z, n)] ELSE p[z]]

(* The sticker of a cubie that belongs up or down marks its twist.         *)
Marker(x) == <<CHOOSE g \in x[2] : g \in {"U", "D"}, x[2]>>

(* A letter in lowercase exchanges its sticker with that of the buffer; in *)
(* uppercase it says where a cubie turned in place has its marker, takes   *)
(* it home, and turns the cubie of the buffer the other way.               *)
Cycled(p, buffer, x) == Exchanged(p, buffer, x)
InPlace(p, buffer, x) ==
  LET from == IF Cardinality(x[2]) = 2 THEN Clockwise(x) ELSE Marker(x)
      n    == CHOOSE k \in 0..2 : After(from, k) = x
  IN  Twisted(Twisted(p, buffer, After(buffer, n)), x, from)

=============================================================================
