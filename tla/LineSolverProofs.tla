--------------------------- MODULE LineSolverProofs ---------------------------
(***************************************************************************)
(* Theorems about LineSolver: what is printed for a line is a shortest     *)
(* solution of its cube, for every puzzle, table and set of lines that     *)
(* the assumptions admit.                                                  *)
(*                                                                         *)
(* parse and canonical are loops.  For each, the state after every turn of *)
(* the loop is stated in closed form, shown to be a solution of the        *)
(* recursion and, by induction up to the length, the one that is computed. *)
(***************************************************************************)
EXTENDS LineSolver, OptimalSearchProofs

-----------------------------------------------------------------------------
(***************************************************************************)
(* Text.  The characters that to_string writes, and what parse makes of    *)
(* each of them.                                                           *)
(***************************************************************************)
LEMMA BlankDiffers ==
  /\ Blank \notin {"U", "R", "F", "D", "L", "B"}
  /\ Blank \notin {"u", "r", "f", "d", "l", "b"}
  /\ Blank \notin {"3", "'"} /\ Blank # "2"
BY Zenon DEF Blank

LEMMA FaceLetter ==
  ASSUME NEW f \in Faces
  PROVE  FaceIn(Upper[f + 1]) = 3 * f /\ Upper[f + 1] # Blank
<1> DEFINE named == {k \in 1..6 : Upper[f + 1] \in {Upper[k], Lower[k]}}
           number == CHOOSE k \in named : TRUE
<1>1. f \in {0, 1, 2, 3, 4, 5}
  BY DEF Faces
<1>2. \A k \in 1..6 : Upper[f + 1] \in {Upper[k], Lower[k]} <=> k = f + 1
  <2>1. ASSUME NEW k \in {1, 2, 3, 4, 5, 6}
        PROVE  Upper[f + 1] \in {Upper[k], Lower[k]} <=> k = f + 1
    BY <1>1 DEF Upper, Lower
  <2> QED
    BY <2>1
<1>3. named = {f + 1}
  BY <1>1, <1>2
<1>4. number = f + 1
  BY <1>3
<1>5. FaceIn(Upper[f + 1]) = 3 * (number - 1)
  BY <1>3 DEF FaceIn
<1>6. Upper[f + 1] # Blank
  <2>1. Upper[f + 1] \in {"U", "R", "F", "D", "L", "B"}
    BY <1>1 DEF Upper
  <2> QED
    BY <2>1, BlankDiffers
<1>7. FaceIn(Upper[f + 1]) = 3 * f
  <2> HIDE DEF number
  <2> QED
    BY <1>1, <1>4, <1>5
<1> QED
  BY <1>6, <1>7

LEMMA NoFaceLetter ==
  ASSUME NEW ch \in {Blank, "1", "2", "3", "'"}
  PROVE  FaceIn(ch) = None
<1>1. \A k \in 1..6 : Upper[k] \in {"U", "R", "F", "D", "L", "B"}
                     /\ Lower[k] \in {"u", "r", "f", "d", "l", "b"}
  <2>1. ASSUME NEW k \in {1, 2, 3, 4, 5, 6}
        PROVE  Upper[k] \in {"U", "R", "F", "D", "L", "B"}
            /\ Lower[k] \in {"u", "r", "f", "d", "l", "b"}
    BY DEF Upper, Lower
  <2>2. \A k \in 1..6 : k \in {1, 2, 3, 4, 5, 6}
    OBVIOUS
  <2> QED
    BY <2>1, <2>2
<1>2. /\ ch \notin {"U", "R", "F", "D", "L", "B"}
      /\ ch \notin {"u", "r", "f", "d", "l", "b"}
  BY BlankDiffers
<1>3. \A k \in 1..6 : ch # Upper[k] /\ ch # Lower[k]
  BY <1>1, <1>2
<1>4. {k \in 1..6 : ch \in {Upper[k], Lower[k]}} = {}
  BY <1>3
<1> QED
  BY <1>4 DEF FaceIn

LEMMA AmountLetter ==
  ASSUME NEW style \in {"singmaster", "fixed"}, NEW a \in 0..2
  PROVE  /\ AmountIn(Amounts(style)[a + 1]) = a
         /\ Amounts(style)[a + 1] \in {Blank, "1", "2", "3", "'"}
         /\ Amounts(style)[a + 1] = Blank => a = 0
<1>1. a \in {0, 1, 2}
  OBVIOUS
<1>2. /\ AmountIn(Blank) = 0 /\ AmountIn("1") = 0 /\ AmountIn("2") = 1
      /\ AmountIn("3") = 2 /\ AmountIn("'") = 2
  BY BlankDiffers DEF AmountIn
<1>3. CASE style = "fixed"
  <2>1. Amounts(style)[1] = "1" /\ Amounts(style)[2] = "2" /\ Amounts(style)[3] = "3"
    BY <1>3 DEF Amounts
  <2> QED
    BY <1>1, <1>2, <2>1, BlankDiffers
<1>4. CASE style = "singmaster"
  <2>1. Amounts(style)[1] = Blank /\ Amounts(style)[2] = "2" /\ Amounts(style)[3] = "'"
    BY <1>4 DEF Amounts
  <2> QED
    BY <1>1, <1>2, <2>1, BlankDiffers
<1> QED
  BY <1>3, <1>4

(* The turns of the real cube, in which parse and to_string speak.         *)
Moves == 0..17

LEMMA MoveParts ==
  ASSUME NEW m \in Moves
  PROVE  /\ Face(m) \in Faces /\ m % 3 \in 0..2 /\ m = (3 * Face(m)) + (m % 3)
         /\ m \in Int /\ 3 * Face(m) # None
BY DEF Moves, Face, Faces, None

(* A character stands at place r of the text of move j + 1.                *)
Place(k, n, width, j, r) ==
  /\ j \in 0..(n - 1) /\ r \in 1..width /\ k = (width * j) + r
  /\ (k - 1) \div width = j /\ (k - 1) % width = r - 1

LEMMA PlaceExists ==
  ASSUME NEW n \in Nat, NEW width \in {2, 3}, NEW k \in 1..(width * n)
  PROVE  \E j, r : Place(k, n, width, j, r)
<1> DEFINE j == (k - 1) \div width
           r == ((k - 1) % width) + 1
<1>1. CASE width = 2
  <2>1. Place(k, n, width, j, r)
    BY <1>1 DEF Place
  <2> QED
    BY <2>1
<1>2. CASE width = 3
  <2>1. Place(k, n, width, j, r)
    BY <1>2 DEF Place
  <2> QED
    BY <2>1
<1> QED
  BY <1>1, <1>2

(* What parse has read after k characters of the text of ms.               *)
Begun(k, width) == (k + width - 1) \div width
State(ms, width, k) ==
  IF k % width = 1
  THEN [moves |-> SubSeq(ms, 1, Begun(k, width) - 1), face |-> 3 * Face(ms[Begun(k, width)])]
  ELSE [moves |-> SubSeq(ms, 1, Begun(k, width)), face |-> None]

LEMMA PlaceStates ==
  ASSUME NEW ms, NEW n \in Nat, NEW width \in {2, 3}, NEW k \in 1..(width * n), NEW j, NEW r,
         Place(k, n, width, j, r)
  PROVE  /\ r = 1 =>
              /\ State(ms, width, k - 1) = [moves |-> SubSeq(ms, 1, j), face |-> None]
              /\ State(ms, width, k) = [moves |-> SubSeq(ms, 1, j), face |-> 3 * Face(ms[j + 1])]
         /\ r = 2 =>
              /\ State(ms, width, k - 1) = [moves |-> SubSeq(ms, 1, j), face |-> 3 * Face(ms[j + 1])]
              /\ State(ms, width, k) = [moves |-> SubSeq(ms, 1, j + 1), face |-> None]
         /\ r = 3 =>
              /\ State(ms, width, k - 1) = [moves |-> SubSeq(ms, 1, j + 1), face |-> None]
              /\ State(ms, width, k) = [moves |-> SubSeq(ms, 1, j + 1), face |-> None]
<1>1. j \in 0..(n - 1) /\ r \in 1..width /\ k = (width * j) + r
  BY DEF Place
<1>2. /\ r = 1 => k % width = 1 /\ Begun(k, width) = j + 1
                  /\ (k - 1) % width # 1 /\ Begun(k - 1, width) = j
      /\ r = 2 => k % width # 1 /\ Begun(k, width) = j + 1
                  /\ (k - 1) % width = 1 /\ Begun(k - 1, width) = j + 1
      /\ r = 3 => k % width # 1 /\ Begun(k, width) = j + 1
                  /\ (k - 1) % width # 1 /\ Begun(k - 1, width) = j + 1
  <2>1. CASE width = 2
    BY <1>1, <2>1 DEF Begun
  <2>2. CASE width = 3
    BY <1>1, <2>2 DEF Begun
  <2> QED
    BY <2>1, <2>2
<1>3. (j + 1) - 1 = j
  BY <1>1
<1> QED
  BY <1>2, <1>3, Zenon DEF State

LEMMA WordFacts ==
  ASSUME NEW ms \in Seq(Moves)
  PROVE  /\ Len(ms) \in Nat /\ \A j \in 1..Len(ms) : ms[j] \in Moves
         /\ SubSeq(ms, 1, 0) = <<>> /\ SubSeq(ms, 1, Len(ms)) = ms
         /\ \A j \in 0..(Len(ms) - 1) : Append(SubSeq(ms, 1, j), ms[j + 1]) = SubSeq(ms, 1, j + 1)
<1>1. Len(ms) \in Nat /\ \A j \in 1..Len(ms) : ms[j] \in Moves
  OBVIOUS
<1>2. SubSeq(ms, 1, 0) = <<>> /\ SubSeq(ms, 1, Len(ms)) = ms
  OBVIOUS
<1>3. ASSUME NEW j \in 0..(Len(ms) - 1)
      PROVE  Append(SubSeq(ms, 1, j), ms[j + 1]) = SubSeq(ms, 1, j + 1)
  OBVIOUS
<1> QED
  BY <1>1, <1>2, <1>3

LEMMA ReadFace ==
  ASSUME NEW w, NEW ch, NEW f, FaceIn(ch) = f
  PROVE  ReadChar([moves |-> w, face |-> None], ch) = [moves |-> w, face |-> f]
BY DEF ReadChar

LEMMA ReadAmount ==
  ASSUME NEW w, NEW ch, NEW f, f # None, FaceIn(ch) = None
  PROVE  ReadChar([moves |-> w, face |-> f], ch)
           = [moves |-> Append(w, f + AmountIn(ch)), face |-> None]
BY DEF ReadChar

(* One character of a text is read as it was meant.                        *)
LEMMA LetterRead ==
  ASSUME NEW ms \in Seq(Moves), NEW style \in {"singmaster", "fixed"},
         NEW k \in 1..(Width(style) * Len(ms))
  PROVE  State(ms, Width(style), k) = ReadChar(State(ms, Width(style), k - 1), Letter(ms, style, k))
<1> DEFINE n == Len(ms)
           width == Width(style)
<1>1. n \in Nat /\ width \in {2, 3} /\ k \in 1..(width * n)
  BY WordFacts DEF Width
<1> HIDE DEF n, width
<1>2. PICK j, r : Place(k, n, width, j, r)
  BY <1>1, PlaceExists
<1>3. j \in 0..(n - 1) /\ r \in 1..width /\ (k - 1) \div width = j /\ (k - 1) % width = r - 1
  BY <1>2 DEF Place
<1> DEFINE m == ms[j + 1]
<1>4. m \in Moves /\ Append(SubSeq(ms, 1, j), m) = SubSeq(ms, 1, j + 1)
  <2>1. j + 1 \in 1..Len(ms) /\ j \in 0..(Len(ms) - 1)
    BY <1>1, <1>3 DEF n
  <2> QED
    BY <2>1, WordFacts
<1> HIDE DEF m
<1>5. /\ Face(m) \in Faces /\ m % 3 \in 0..2 /\ m = (3 * Face(m)) + (m % 3) /\ 3 * Face(m) # None
  BY <1>4, MoveParts
<1>6. CASE r = 1
  <2>1. /\ State(ms, width, k - 1) = [moves |-> SubSeq(ms, 1, j), face |-> None]
        /\ State(ms, width, k) = [moves |-> SubSeq(ms, 1, j), face |-> 3 * Face(m)]
    BY ZenonT(30), <1>1, <1>2, <1>6, PlaceStates DEF m
  <2>2. Letter(ms, style, k) = Upper[Face(m) + 1]
    BY <1>3, <1>6 DEF Letter, width, m, Face
  <2>3. FaceIn(Letter(ms, style, k)) = 3 * Face(m)
    BY <1>5, <2>2, FaceLetter
  <2> QED
    BY <2>1, <2>3, ReadFace DEF width
<1>7. CASE r = 2
  <2>1. /\ State(ms, width, k - 1) = [moves |-> SubSeq(ms, 1, j), face |-> 3 * Face(m)]
        /\ State(ms, width, k) = [moves |-> SubSeq(ms, 1, j + 1), face |-> None]
    BY ZenonT(30), <1>1, <1>2, <1>7, PlaceStates DEF m
  <2>2. Letter(ms, style, k) = Amounts(style)[(m % 3) + 1]
    BY <1>3, <1>7 DEF Letter, width, m
  <2>3. AmountIn(Letter(ms, style, k)) = m % 3 /\ FaceIn(Letter(ms, style, k)) = None
    BY <1>5, <2>2, AmountLetter, NoFaceLetter
  <2>4. Append(SubSeq(ms, 1, j), 3 * Face(m) + AmountIn(Letter(ms, style, k))) = SubSeq(ms, 1, j + 1)
    BY <1>4, <1>5, <2>3
  <2>5. ReadChar([moves |-> SubSeq(ms, 1, j), face |-> 3 * Face(m)], Letter(ms, style, k))
          = [moves |-> Append(SubSeq(ms, 1, j), 3 * Face(m) + AmountIn(Letter(ms, style, k))),
             face  |-> None]
    BY <1>5, <2>3, ReadAmount
  <2> QED
    BY <2>1, <2>4, <2>5 DEF width
<1>8. CASE r = 3
  <2>1. /\ State(ms, width, k - 1) = [moves |-> SubSeq(ms, 1, j + 1), face |-> None]
        /\ State(ms, width, k) = [moves |-> SubSeq(ms, 1, j + 1), face |-> None]
    BY ZenonT(30), <1>1, <1>2, <1>8, PlaceStates
  <2>2. Letter(ms, style, k) = Blank
    BY <1>3, <1>8 DEF Letter, width
  <2>3. FaceIn(Letter(ms, style, k)) = None
    BY <2>2, NoFaceLetter
  <2> QED
    BY <2>1, <2>3, ReadFace DEF width
<1> QED
  BY <1>1, <1>3, <1>6, <1>7, <1>8

LEMMA GreatestIs ==
  ASSUME NEW S, NEW x \in S, \A k \in S : k \in Nat /\ k <= x
  PROVE  S # {} /\ (CHOOSE k \in S : \A l \in S : l <= k) = x
<1>1. \A l \in S : l <= x
  OBVIOUS
<1>2. \A k \in S : (\A l \in S : l <= k) => k = x
  OBVIOUS
<1> QED
  BY <1>1, <1>2

(* Only blanks are cut off a text, so that the last face remains.          *)
TextSize(ms, style) == Len(Written(ms, style))

LEMMA WrittenFacts ==
  ASSUME NEW ms \in Seq(Moves), NEW style \in {"singmaster", "fixed"}
  PROVE  LET width == Width(style)
             n     == Len(ms)
             total  == TextSize(ms, style)
         IN  /\ total \in Nat
             /\ \A k \in 1..total : Written(ms, style)[k] = Letter(ms, style, k)
             /\ n = 0 => total = 0
             /\ n # 0 => \/ total = (width * (n - 1)) + 1 /\ ms[n] % 3 = 0
                         \/ total = (width * (n - 1)) + 2
<1> DEFINE width == Width(style)
           n     == Len(ms)
           all   == 1..(width * n)
           solid == {k \in all : Letter(ms, style, k) # Blank}
           last  == IF solid = {} THEN 0 ELSE CHOOSE k \in solid : \A l \in solid : l <= k
           first == (width * (n - 1)) + 1
<1>1. n \in Nat /\ width \in {2, 3}
  BY WordFacts DEF Width
<1>2. Written(ms, style) = [k \in 1..last |-> Letter(ms, style, k)]
  BY DEF Written
<1>3. ASSUME NEW x \in Nat, last = x
      PROVE  TextSize(ms, style) = x /\ \A k \in 1..x : Written(ms, style)[k] = Letter(ms, style, k)
  <2> HIDE DEF last
  <2> QED
    BY <1>2, <1>3 DEF TextSize
<1>4. CASE n = 0
  <2>1. all = {}
    <3>1. width * n = 0
      BY <1>1, <1>4
    <3> QED
      BY <3>1
  <2>2. last = 0
    BY <2>1
  <2> HIDE DEF last
  <2> QED
    BY <1>3, <1>4, <2>2
<1>5. CASE n # 0
  <2>1. first \in all /\ first \in Nat /\ n \in 1..Len(ms)
    <3> HIDE DEF n, width
    <3>1. CASE width = 2
      BY <1>1, <1>5, <3>1 DEF n
    <3>2. CASE width = 3
      BY <1>1, <1>5, <3>2 DEF n
    <3> QED
      BY <1>1, <3>1, <3>2
  <2>2. ms[n] \in Moves
    BY <2>1, WordFacts
  <2>3. Letter(ms, style, first) = Upper[Face(ms[n]) + 1]
    <3>1. (first - 1) \div width = n - 1 /\ (first - 1) % width = 0 /\ (n - 1) + 1 = n
      <4> HIDE DEF n, width
      <4>1. CASE width = 2
        BY <1>1, <4>1
      <4>2. CASE width = 3
        BY <1>1, <4>2
      <4> QED
        BY <1>1, <4>1, <4>2
    <3> HIDE DEF n, first
    <3> QED
      BY <3>1 DEF Letter, Face
  <2>4. first \in solid
    BY <2>1, <2>2, <2>3, MoveParts, FaceLetter
  <2>5. Letter(ms, style, first + 1) = Amounts(style)[(ms[n] % 3) + 1]
    <3>1. ((first + 1) - 1) \div width = n - 1 /\ ((first + 1) - 1) % width = 1 /\ (n - 1) + 1 = n
      <4> HIDE DEF n, width
      <4>1. CASE width = 2
        BY <1>1, <4>1
      <4>2. CASE width = 3
        BY <1>1, <4>2
      <4> QED
        BY <1>1, <4>1, <4>2
    <3> HIDE DEF n, first
    <3> QED
      BY <3>1 DEF Letter
  <2>6. first + 1 \in all /\ \A k \in all : k > first + 1 => k = first + 2 /\ width = 3
    <3> HIDE DEF n, width
    <3>1. CASE width = 2
      BY <1>1, <1>5, <3>1
    <3>2. CASE width = 3
      BY <1>1, <1>5, <3>2
    <3> QED
      BY <1>1, <3>1, <3>2
  <2>7. width = 3 => Letter(ms, style, first + 2) = Blank
    <3> SUFFICES ASSUME width = 3 PROVE Letter(ms, style, first + 2) = Blank
      OBVIOUS
    <3>1. ((first + 2) - 1) % width = 2
      <4> HIDE DEF n, width
      <4> QED
        BY <1>1
    <3> HIDE DEF n, first
    <3> QED
      BY <3>1 DEF Letter
  <2>8. \A k \in solid : k \in Nat /\ k <= first + 1
    <3> SUFFICES ASSUME NEW k \in all, Letter(ms, style, k) # Blank PROVE k \in Nat /\ k <= first + 1
      OBVIOUS
    <3>1. k \in Nat
      OBVIOUS
    <3> HIDE DEF all, first, width, n
    <3> QED
      BY <2>1, <2>6, <2>7, <3>1
  <2>9. CASE first + 1 \in solid
    <3>1. last = first + 1
      <4> HIDE DEF solid, first
      <4> QED
        BY <2>8, <2>9, GreatestIs
    <3>2. /\ TextSize(ms, style) = first + 1 /\ first + 1 \in Nat
          /\ \A k \in 1..(first + 1) : Written(ms, style)[k] = Letter(ms, style, k)
      <4> HIDE DEF last, first
      <4> QED
        BY <1>3, <2>1, <3>1
    <3>3. first + 1 = (width * (n - 1)) + 2
      <4> HIDE DEF width, n
      <4> QED
        BY <1>1, <2>1
    <3> HIDE DEF first
    <3> QED
      BY <1>5, <3>2, <3>3
  <2>10. CASE first + 1 \notin solid
    <3>1. last = first
      <4>1. \A k \in solid : k \in Nat /\ k <= first
        <5> HIDE DEF solid, first
        <5> QED
          BY <2>1, <2>8, <2>10
      <4> HIDE DEF solid, first
      <4> QED
        BY <2>4, <4>1, GreatestIs
    <3>2. ms[n] % 3 = 0
      <4>1. Amounts(style)[(ms[n] % 3) + 1] = Blank
        BY <2>5, <2>6, <2>10
      <4> QED
        BY <2>2, <4>1, AmountLetter, MoveParts
    <3>3. /\ TextSize(ms, style) = first
          /\ \A k \in 1..first : Written(ms, style)[k] = Letter(ms, style, k)
      <4> HIDE DEF last, first
      <4> QED
        BY <1>3, <2>1, <3>1
    <3> HIDE DEF last, solid
    <3> QED
      BY <1>5, <2>1, <3>2, <3>3
  <2> QED
    BY <2>9, <2>10
<1> QED
  BY <1>4, <1>5

(* The text of some turns, read again.                                     *)
LEMMA ParseWritten ==
  ASSUME NEW ms \in Seq(Moves), NEW style \in {"singmaster", "fixed"}
  PROVE  Parse(Written(ms, style)) = ms
<1> DEFINE text  == Written(ms, style)
           width == Width(style)
           n     == Len(ms)
           total  == TextSize(ms, style)
           rec(g) == [k \in 0..Len(text) |-> IF k = 0 THEN [moves |-> <<>>, face |-> None]
                                             ELSE ReadChar(g[k - 1], text[k])]
           read  == CHOOSE g : g = rec(g)
           f     == [k \in 0..total |-> State(ms, width, k)]
           T     == {k \in 0..total : read[k] = State(ms, width, k)}
<1>1. /\ n \in Nat /\ width \in {2, 3} /\ total \in Nat /\ Len(text) = total
      /\ \A k \in 1..total : text[k] = Letter(ms, style, k)
      /\ n = 0 => total = 0
      /\ n # 0 => \/ total = (width * (n - 1)) + 1 /\ ms[n] % 3 = 0
                  \/ total = (width * (n - 1)) + 2
  BY WordFacts, WrittenFacts DEF Width, TextSize
<1>2. \A k \in 1..total : k \in 1..(width * n)
  <2> HIDE DEF width, n, total
  <2>1. CASE width = 2
    BY <1>1, <2>1
  <2>2. CASE width = 3
    BY <1>1, <2>2
  <2> QED
    BY <1>1, <2>1, <2>2
<1>3. State(ms, width, 0) = [moves |-> <<>>, face |-> None]
  <2>1. 0 % width # 1 /\ Begun(0, width) = 0
    <3> HIDE DEF width
    <3> QED
      BY <1>1 DEF Begun
  <2> HIDE DEF width
  <2> QED
    BY <2>1, WordFacts DEF State
<1>4. \A k \in 1..total : State(ms, width, k) = ReadChar(State(ms, width, k - 1), text[k])
  BY <1>1, <1>2, LetterRead
<1>5. Parse(text) = IF read[Len(text)].face # None
                    THEN Append(read[Len(text)].moves, read[Len(text)].face)
                    ELSE read[Len(text)].moves
  BY Zenon DEF Parse
<1> HIDE DEF text, width, total
<1>6. f = rec(f)
  <2>1. ASSUME NEW k \in 0..total
        PROVE  f[k] = IF k = 0 THEN [moves |-> <<>>, face |-> None] ELSE ReadChar(f[k - 1], text[k])
    <3>1. CASE k = 0
      BY <1>1, <1>3, <3>1
    <3>2. CASE k # 0
      <4>1. k \in 1..total /\ k - 1 \in 0..total
        BY <1>1, <3>2
      <4>2. f[k] = State(ms, width, k) /\ f[k - 1] = State(ms, width, k - 1)
        BY <4>1
      <4> HIDE DEF f
      <4> QED
        BY <1>4, <3>2, <4>1, <4>2
    <3> QED
      BY <3>1, <3>2
  <2>2. f = [k \in 0..total |-> f[k]]
    OBVIOUS
  <2> HIDE DEF f
  <2> QED
    BY <1>1, <2>1, <2>2, Zenon
<1>7. read = rec(read)
  <2> HIDE DEF rec, f
  <2> QED
    BY <1>6, Zenon
<1> HIDE DEF read, f
<1>8. 0 \in T
  <2>1. 0 \in 0..total /\ 0 \in 0..Len(text)
    BY <1>1
  <2>2. rec(read)[0] = [moves |-> <<>>, face |-> None]
    BY <2>1
  <2>3. read[0] = [moves |-> <<>>, face |-> None]
    <3> HIDE DEF rec
    <3> QED
      BY <1>7, <2>2
  <2> QED
    BY <1>3, <2>1, <2>3
<1>9. ASSUME NEW k \in 0..total, k # total, k \in T PROVE k + 1 \in T
  <2>1. k + 1 \in 1..total /\ k + 1 \in 0..total /\ (k + 1) - 1 = k /\ k + 1 # 0 /\ k + 1 \in 0..Len(text)
    BY <1>1, <1>9
  <2>2. rec(read)[k + 1] = ReadChar(read[(k + 1) - 1], text[k + 1])
    BY <2>1
  <2>3. read[k + 1] = ReadChar(read[k], text[k + 1])
    <3> HIDE DEF rec
    <3> QED
      BY <1>7, <2>1, <2>2
  <2>4. State(ms, width, k + 1) = ReadChar(State(ms, width, k), text[k + 1])
    BY <1>4, <2>1
  <2> QED
    BY <1>9, <2>1, <2>3, <2>4
<1>10. \A k \in 0..total : k \in T
  <2> HIDE DEF T
  <2> QED
    BY <1>1, <1>8, <1>9, InductionUpTo
<1>11. read[Len(text)] = State(ms, width, total)
  <2>1. total \in T
    BY <1>1, <1>10
  <2> QED
    BY <1>1, <2>1
<1>12. CASE n = 0
  <2>1. ms = <<>>
    BY <1>12
  <2>2. read[Len(text)] = [moves |-> <<>>, face |-> None]
    BY <1>1, <1>3, <1>11, <1>12
  <2> QED
    BY <1>5, <2>1, <2>2 DEF text
<1>13. CASE n # 0 /\ total = (width * (n - 1)) + 1 /\ ms[n] % 3 = 0
  <2>1. total % width = 1 /\ Begun(total, width) = n
    <3> HIDE DEF n
    <3>1. CASE width = 2
      BY <1>1, <1>13, <3>1 DEF Begun
    <3>2. CASE width = 3
      BY <1>1, <1>13, <3>2 DEF Begun
    <3> QED
      BY <1>1, <3>1, <3>2
  <2>2. State(ms, width, total) = [moves |-> SubSeq(ms, 1, n - 1), face |-> 3 * Face(ms[n])]
    <3> HIDE DEF n
    <3> QED
      BY <2>1, Zenon DEF State
  <2>3. n \in 1..Len(ms) /\ n - 1 \in 0..(Len(ms) - 1) /\ (n - 1) + 1 = n
    BY <1>1, <1>13
  <2>4. ms[n] \in Moves /\ Append(SubSeq(ms, 1, n - 1), ms[n]) = ms
    <3>1. Append(SubSeq(ms, 1, n - 1), ms[(n - 1) + 1]) = SubSeq(ms, 1, (n - 1) + 1)
      BY <2>3, WordFacts
    <3> QED
      BY <2>3, <3>1, WordFacts
  <2>5. 3 * Face(ms[n]) = ms[n] /\ 3 * Face(ms[n]) # None
    <3>1. ms[n] = (3 * Face(ms[n])) + 0 /\ Face(ms[n]) \in 0..5 /\ 3 * Face(ms[n]) # None
      BY <1>13, <2>4, MoveParts DEF Faces
    <3> QED
      BY <3>1
  <2>6. read[Len(text)].moves = SubSeq(ms, 1, n - 1) /\ read[Len(text)].face = ms[n] /\ ms[n] # None
    <3>1. read[Len(text)] = [moves |-> SubSeq(ms, 1, n - 1), face |-> ms[n]]
      <4> HIDE DEF n
      <4> QED
        BY <1>11, <2>2, <2>5, Zenon
    <3>2. ms[n] # None
      BY <2>5, Zenon
    <3> DEFINE end == read[Len(text)]
               w   == SubSeq(ms, 1, n - 1)
               m   == ms[n]
    <3>3. end = [moves |-> w, face |-> m]
      BY <3>1, Zenon
    <3> HIDE DEF end, w, m
    <3>4. end.moves = w /\ end.face = m
      BY <3>3
    <3> QED
      BY <3>2, <3>4, Zenon DEF end, w, m
  <2> QED
    BY <1>5, <2>4, <2>6 DEF text
<1>14. CASE n # 0 /\ total = (width * (n - 1)) + 2
  <2>1. total % width # 1 /\ Begun(total, width) = n
    <3> HIDE DEF n
    <3>1. CASE width = 2
      BY <1>1, <1>14, <3>1 DEF Begun
    <3>2. CASE width = 3
      BY <1>1, <1>14, <3>2 DEF Begun
    <3> QED
      BY <1>1, <3>1, <3>2
  <2>2. State(ms, width, total) = [moves |-> ms, face |-> None]
    BY <2>1, WordFacts DEF State
  <2> QED
    BY <1>5, <1>11, <2>2 DEF text
<1> QED
  BY <1>1, <1>12, <1>13, <1>14

-----------------------------------------------------------------------------
(***************************************************************************)
(* canonical.  In a shortest solution no face is turned twice in a run of  *)
(* turns of one axis, so that a run is one turn or two of opposite faces:  *)
(* canonical exchanges those that are in the wrong order, and does no      *)
(* more.  The sequence c is the one that canonical goes through, with its  *)
(* last move, and n the number of moves that are not added.                *)
(***************************************************************************)
Pole(m) == IF m >= 9 THEN 1 ELSE 0
Alike(c, k) == Axis(Face(c[k])) = Axis(Face(c[k + 1]))
InPair(c, k) == k > 1 /\ Alike(c, k - 1)

Runs(c, n) ==
  /\ n \in Nat \ {0}
  /\ c \in [1..(n + 1) -> 0..20]
  /\ \A k \in 1..n : c[k] \in Moves
  /\ \A k \in 1..n : Alike(c, k) => /\ k < n /\ ~InPair(c, k)
                                     /\ Pole(c[k]) # Pole(c[k + 1])

(* The turns of each pair in the order of canonical.                       *)
InOrder(c, k) ==
  IF Alike(c, k) THEN IF Pole(c[k]) = 0 THEN c[k] ELSE c[k + 1]
  ELSE IF InPair(c, k) THEN IF Pole(c[k - 1]) = 0 THEN c[k] ELSE c[k - 1]
  ELSE c[k]

(* The state of canonical after i moves: those not written back yet, and   *)
(* the powers of the two poles.                                            *)
Pending(c, i) == IF i = 0 THEN 0 ELSE IF InPair(c, i) THEN 2 ELSE 1
Power(c, i) ==
  [k \in 0..1 |-> IF i # 0 /\ Pole(c[i]) = k THEN (c[i] % 3) + 1
                  ELSE IF InPair(c, i) /\ Pole(c[i - 1]) = k THEN (c[i - 1] % 3) + 1
                  ELSE 0]
Sifted(c, n, i) ==
  [canon |-> [j \in 1..(n + 1) |-> IF j <= i - Pending(c, i) THEN InOrder(c, j) ELSE c[j]],
   tail  |-> i - Pending(c, i),
   axis  |-> IF i = 0 THEN 0 ELSE Axis(Face(c[i])),
   power |-> Power(c, i)]

LEMMA MoveIs ==
  ASSUME NEW m \in Moves
  PROVE  /\ m = (Axis(Face(m)) * 3) + (Pole(m) * 9) + (m % 3)
         /\ Axis(Face(m)) \in 0..2 /\ Pole(m) \in 0..1 /\ m % 3 \in 0..2
BY DEF Moves, Axis, Face, Pole

LEMMA Joined ==
  ASSUME NEW x \in Int, NEW y \in Int
  PROVE  /\ <<>> \o <<>> = <<>> /\ <<x>> \o <<>> = <<x>> /\ <<>> \o <<y>> = <<y>>
         /\ <<x>> \o <<y>> = <<x, y>>
<1>1. <<>> \in Seq(Int) /\ <<x>> \in Seq(Int) /\ <<y>> \in Seq(Int) /\ <<x, y>> \in Seq(Int)
  OBVIOUS
<1>2. <<>> \o <<>> = <<>> /\ <<x>> \o <<>> = <<x>> /\ <<>> \o <<y>> = <<y>>
  BY <1>1
<1>3. <<x>> \o <<y>> = <<x, y>>
  <2> DEFINE u == <<x>> \o <<y>>
             v == <<x, y>>
  <2>1. u \in Seq(Int) /\ v \in Seq(Int) /\ Len(u) = 2 /\ Len(v) = 2
    BY <1>1
  <2>2. u[1] = x /\ u[2] = y /\ v[1] = x /\ v[2] = y
    BY <1>1
  <2> HIDE DEF u, v
  <2>3. \A k \in 1..2 : u[k] = v[k]
    BY <2>2
  <2>4. u = [k \in 1..2 |-> u[k]] /\ v = [k \in 1..2 |-> v[k]]
    BY <2>1
  <2>5. u = v
    BY <2>3, <2>4
  <2> QED
    BY <2>5 DEF u, v
<1> QED
  BY <1>2, <1>3

LEMMA FlushedIs ==
  ASSUME NEW axis \in 0..2, NEW power, NEW a \in 0..3, NEW b \in 0..3,
         power[0] = a, power[1] = b
  PROVE  /\ a = 0 /\ b = 0 => Flushed(axis, power) = <<>>
         /\ a # 0 /\ b = 0 => Flushed(axis, power) = <<(axis * 3) + a - 1>>
         /\ a = 0 /\ b # 0 => Flushed(axis, power) = <<(axis * 3) + 9 + b - 1>>
         /\ a # 0 /\ b # 0 => Flushed(axis, power) = <<(axis * 3) + a - 1, (axis * 3) + 9 + b - 1>>
<1> DEFINE pole(k) == IF power[k] % 4 = 0 THEN <<>>
                      ELSE <<(axis * 3) + (k * 9) + (power[k] % 4) - 1>>
<1>1. a % 4 = a /\ b % 4 = b
  OBVIOUS
<1>2. pole(0) = IF a = 0 THEN <<>> ELSE <<(axis * 3) + a - 1>>
  BY <1>1
<1>3. pole(1) = IF b = 0 THEN <<>> ELSE <<(axis * 3) + 9 + b - 1>>
  BY <1>1
<1>4. Flushed(axis, power) = pole(0) \o pole(1)
  BY DEF Flushed
<1> HIDE DEF pole
<1> DEFINE x == (axis * 3) + a - 1
           y == (axis * 3) + 9 + b - 1
<1>9. x \in Int /\ y \in Int
  OBVIOUS
<1> HIDE DEF x, y
<1>5. CASE a = 0 /\ b = 0
  BY <1>2, <1>3, <1>4, <1>5
<1>6. CASE a # 0 /\ b = 0
  <2>1. pole(0) = <<x>> /\ pole(1) = <<>>
    BY <1>2, <1>3, <1>6 DEF x
  <2>2. Flushed(axis, power) = <<x>>
    BY <1>4, <1>9, <2>1, Joined
  <2> QED
    BY <1>6, <2>2 DEF x
<1>7. CASE a = 0 /\ b # 0
  <2>1. pole(0) = <<>> /\ pole(1) = <<y>>
    BY <1>2, <1>3, <1>7 DEF y
  <2>2. Flushed(axis, power) = <<y>>
    BY <1>4, <1>9, <2>1, Joined
  <2> QED
    BY <1>7, <2>2 DEF y
<1>8. CASE a # 0 /\ b # 0
  <2>1. pole(0) = <<x>> /\ pole(1) = <<y>>
    BY <1>2, <1>3, <1>8 DEF x, y
  <2>2. Flushed(axis, power) = <<x, y>>
    BY <1>4, <1>9, <2>1, Joined
  <2> QED
    BY <1>8, <2>2 DEF x, y
<1> QED
  BY <1>5, <1>6, <1>7, <1>8

LEMMA RunFacts ==
  ASSUME NEW c, NEW n, Runs(c, n)
  PROVE  /\ n \in Nat /\ n >= 1
         /\ \A k \in 1..n : /\ c[k] \in Moves
                            /\ c[k] = (Axis(Face(c[k])) * 3) + (Pole(c[k]) * 9) + (c[k] % 3)
                            /\ Axis(Face(c[k])) \in 0..2 /\ Pole(c[k]) \in 0..1 /\ c[k] % 3 \in 0..2
         /\ \A k \in 1..n : Alike(c, k) =>
              k < n /\ ~InPair(c, k) /\ Pole(c[k]) # Pole(c[k + 1])
         /\ \A k \in 1..n : InPair(c, k) =>
              /\ k - 1 \in 1..n /\ ~InPair(c, k - 1) /\ Pole(c[k - 1]) # Pole(c[k])
              /\ Axis(Face(c[k - 1])) = Axis(Face(c[k])) /\ ~Alike(c, k)
<1>1. n \in Nat /\ n >= 1 /\ \A k \in 1..n : c[k] \in Moves
  BY DEF Runs
<1>2. \A k \in 1..n : Alike(c, k) => k < n /\ ~InPair(c, k) /\ Pole(c[k]) # Pole(c[k + 1])
  BY DEF Runs
<1>3. ASSUME NEW k \in 1..n, InPair(c, k)
      PROVE  /\ k - 1 \in 1..n /\ ~InPair(c, k - 1) /\ Pole(c[k - 1]) # Pole(c[k])
             /\ Axis(Face(c[k - 1])) = Axis(Face(c[k])) /\ ~Alike(c, k)
  <2>1. k > 1 /\ Alike(c, k - 1)
    BY <1>3 DEF InPair
  <2>2. k - 1 \in 1..n /\ (k - 1) + 1 = k
    BY <1>1, <2>1
  <2>3. ~InPair(c, k - 1) /\ Pole(c[k - 1]) # Pole(c[(k - 1) + 1])
    BY <1>2, <2>1, <2>2
  <2>4. ~Alike(c, k)
    BY <1>2, <1>3
  <2>5. Axis(Face(c[k - 1])) = Axis(Face(c[(k - 1) + 1]))
    BY <2>1 DEF Alike
  <2> QED
    BY <2>2, <2>3, <2>4, <2>5
<1> QED
  BY <1>1, <1>2, <1>3, MoveIs

(* What the end of a run writes back are its turns in order.               *)
RunEnd(c, p) == Flushed(IF p = 0 THEN 0 ELSE Axis(Face(c[p])), Power(c, p))

LEMMA FlushedRun ==
  ASSUME NEW c, NEW n, Runs(c, n), NEW p \in 0..n, p # 0 => ~Alike(c, p)
  PROVE  /\ Len(RunEnd(c, p)) = Pending(c, p) /\ p - Pending(c, p) \in 0..p
         /\ \A j \in (p - Pending(c, p) + 1)..p :
               RunEnd(c, p)[j - (p - Pending(c, p))] = InOrder(c, j)
<1> DEFINE out  == RunEnd(c, p)
           tail == p - Pending(c, p)
<1>1. CASE p = 0
  <2>1. Power(c, p)[0] = 0 /\ Power(c, p)[1] = 0
    BY <1>1 DEF Power, InPair
  <2>2. out = <<>>
    BY <1>1, <2>1, FlushedIs DEF RunEnd
  <2>3. Pending(c, p) = 0
    BY <1>1 DEF Pending
  <2> QED
    BY <1>1, <2>2, <2>3
<1>2. CASE p # 0
  <2>1. p \in 1..n /\ n \in Nat
    BY <1>2, RunFacts
  <2> DEFINE m == c[p]
             x == (m % 3) + 1
             axis == Axis(Face(m))
  <2>2. /\ m \in Moves /\ m = (axis * 3) + (Pole(m) * 9) + (m % 3)
        /\ axis \in 0..2 /\ Pole(m) \in 0..1 /\ m % 3 \in 0..2 /\ m \in Int
    BY <2>1, RunFacts DEF Moves
  <2>3. out = Flushed(axis, Power(c, p))
    BY <1>2 DEF RunEnd
  <2>4. CASE ~InPair(c, p)
    <3>1. /\ Pole(m) = 0 => Power(c, p)[0] = x /\ Power(c, p)[1] = 0
          /\ Pole(m) = 1 => Power(c, p)[0] = 0 /\ Power(c, p)[1] = x
      BY <1>2, <2>2, <2>4 DEF Power
    <3>2. out = <<m>>
      <4> HIDE DEF m, axis, out
      <4>1. x \in 0..3 /\ x # 0 /\ 0 \in 0..3
        BY <2>2
      <4>2. CASE Pole(m) = 0
        <5>1. out = <<(axis * 3) + x - 1>>
          <6> HIDE DEF x
          <6> QED
            BY <2>2, <2>3, <3>1, <4>1, <4>2, FlushedIs
        <5>2. (axis * 3) + x - 1 = m
          BY <2>2, <4>2
        <5> QED
          BY <5>1, <5>2
      <4>3. CASE Pole(m) = 1
        <5>1. out = <<(axis * 3) + 9 + x - 1>>
          <6> HIDE DEF x
          <6> QED
            BY <2>2, <2>3, <3>1, <4>1, <4>3, FlushedIs
        <5>2. (axis * 3) + 9 + x - 1 = m
          BY <2>2, <4>3
        <5> QED
          BY <5>1, <5>2
      <4> QED
        BY <2>2, <4>2, <4>3
    <3>3. Pending(c, p) = 1 /\ InOrder(c, p) = m
      BY <1>2, <2>4 DEF Pending, InOrder
    <3> HIDE DEF m
    <3> QED
      BY <2>1, <3>2, <3>3
  <2>5. CASE InPair(c, p)
    <3> DEFINE l == c[p - 1]
               y == (l % 3) + 1
    <3>1. p - 1 \in 1..n /\ Pole(l) # Pole(m) /\ Axis(Face(l)) = axis /\ ~InPair(c, p - 1)
      BY <2>1, <2>5, RunFacts
    <3>2. /\ l \in Moves /\ l = (axis * 3) + (Pole(l) * 9) + (l % 3)
          /\ Pole(l) \in 0..1 /\ l % 3 \in 0..2 /\ l \in Int
      <4>1. l = (Axis(Face(l)) * 3) + (Pole(l) * 9) + (l % 3)
        BY <3>1, RunFacts
      <4> QED
        BY <3>1, <4>1, RunFacts DEF Moves
    <3>3. /\ Pole(m) = 0 => Power(c, p)[0] = x /\ Power(c, p)[1] = y
          /\ Pole(m) = 1 => Power(c, p)[0] = y /\ Power(c, p)[1] = x
      BY <1>2, <2>2, <2>5, <3>1, <3>2 DEF Power
    <3>4. out = IF Pole(l) = 0 THEN <<l, m>> ELSE <<m, l>>
      <4> HIDE DEF m, l, axis, out
      <4>1. x \in 0..3 /\ x # 0 /\ y \in 0..3 /\ y # 0
        BY <2>2, <3>2
      <4>2. CASE Pole(m) = 0
        <5>1. out = <<(axis * 3) + x - 1, (axis * 3) + 9 + y - 1>>
          <6> HIDE DEF x, y
          <6> QED
            BY SMTT(30), <2>2, <2>3, <3>3, <4>1, <4>2, FlushedIs
        <5>2. (axis * 3) + x - 1 = m /\ (axis * 3) + 9 + y - 1 = l /\ Pole(l) = 1
          BY <2>2, <3>1, <3>2, <4>2
        <5> QED
          BY <5>1, <5>2
      <4>3. CASE Pole(m) = 1
        <5>1. out = <<(axis * 3) + y - 1, (axis * 3) + 9 + x - 1>>
          <6> HIDE DEF x, y
          <6> QED
            BY <2>2, <2>3, <3>3, <4>1, <4>3, FlushedIs
        <5>2. (axis * 3) + y - 1 = l /\ (axis * 3) + 9 + x - 1 = m /\ Pole(l) = 0
          BY <2>2, <3>1, <3>2, <4>3
        <5> QED
          BY <5>1, <5>2
      <4> QED
        BY <2>2, <4>2, <4>3
    <3>5. Pending(c, p) = 2
      BY <1>2, <2>5 DEF Pending
    <3>6. InOrder(c, p) = IF Pole(l) = 0 THEN m ELSE l
      BY <1>2, <2>5 DEF InOrder
    <3>7. InOrder(c, p - 1) = IF Pole(l) = 0 THEN l ELSE m
      <4>1. Alike(c, p - 1) /\ (p - 1) + 1 = p
        BY <2>1, <2>5 DEF InPair
      <4> QED
        BY <4>1 DEF InOrder
    <3>8. tail = p - 2 /\ p - 2 \in 0..p
      BY <2>1, <3>1, <3>5
    <3>9. Len(out) = 2 /\ out[1] = InOrder(c, p - 1) /\ out[2] = InOrder(c, p)
      <4> HIDE DEF out, l, m
      <4> QED
        BY <3>4, <3>6, <3>7
    <3>10. ASSUME NEW j \in (tail + 1)..p PROVE out[j - tail] = InOrder(c, j)
      <4>1. j = p - 1 \/ j = p
        BY <2>1, <3>8
      <4>2. (p - 1) - tail = 1 /\ p - tail = 2
        BY <2>1, <3>8
      <4> HIDE DEF out, tail
      <4> QED
        BY <3>9, <4>1, <4>2
    <3> QED
      BY <3>5, <3>8, <3>9, <3>10
  <2> QED
    BY <2>4, <2>5
<1> QED
  BY <1>1, <1>2

IsRaised(raised, power, e, a) == raised = [power EXCEPT ![e] = (@ + a + 1) % 256]

LEMMA Raised ==
  ASSUME NEW power \in [0..1 -> 0..3], NEW e \in 0..1, NEW a \in 0..2, power[e] = 0,
         NEW raised, IsRaised(raised, power, e, a)
  PROVE  raised = [k \in 0..1 |-> IF k = e THEN a + 1 ELSE power[k]]
<1>1. (power[e] + a + 1) % 256 = a + 1
  OBVIOUS
<1> QED
  BY <1>1 DEF IsRaised

LEMMA PowerType ==
  ASSUME NEW c, NEW n, Runs(c, n), NEW p \in 0..n
  PROVE  Power(c, p) \in [0..1 -> 0..3]
<1>1. ASSUME NEW k \in 0..1 PROVE Power(c, p)[k] \in 0..3
  <2>1. p # 0 => c[p] % 3 \in 0..2
    BY RunFacts
  <2>2. InPair(c, p) => c[p - 1] % 3 \in 0..2
    BY RunFacts DEF InPair
  <2> QED
    BY <2>1, <2>2 DEF Power
<1> QED
  BY <1>1 DEF Power

(* One turn of the loop of canonical.                                      *)
LEMMA SiftStep ==
  ASSUME NEW c, NEW n, Runs(c, n), NEW i \in 1..(n + 1)
  PROVE  Sift(Sifted(c, n, i - 1), i) = Sifted(c, n, i)
<1> DEFINE p == i - 1
           acc == Sifted(c, n, p)
           m == acc.canon[i]
           ended == Axis(Face(m)) # acc.axis
           out == IF ended THEN Flushed(acc.axis, acc.power) ELSE <<>>
           kept == IF ended THEN [k \in 0..1 |-> 0] ELSE acc.power
           canon == [j \in 1..(n + 1) |->
                       IF j \in acc.tail + 1 .. acc.tail + Len(out) THEN out[j - acc.tail]
                       ELSE acc.canon[j]]
           power == [kept EXCEPT ![Pole(m)] = (@ + (m % 3) + 1) % 256]
<1>1. n \in Nat /\ n >= 1 /\ p \in 0..n /\ i \in 1..(n + 1) /\ p + 1 = i /\ i # 0
  BY RunFacts
<1>3. /\ acc.tail = p - Pending(c, p) /\ acc.power = Power(c, p)
      /\ acc.axis = IF p = 0 THEN 0 ELSE Axis(Face(c[p]))
      /\ DOMAIN acc.canon = 1..(n + 1)
      /\ \A j \in 1..(n + 1) : acc.canon[j] = IF j <= p - Pending(c, p) THEN InOrder(c, j) ELSE c[j]
  BY DEF Sifted
<1>4. Pending(c, p) \in Nat /\ m = c[i]
  BY <1>1, <1>3 DEF Pending
<1>2. m \in 0..20 /\ Pole(m) \in 0..1 /\ m % 3 \in 0..2
  <2> HIDE DEF m
  <2>1. m \in 0..20
    BY <1>1, <1>4 DEF Runs
  <2> QED
    BY <2>1 DEF Pole
<1>5. Sift(acc, i) = [canon |-> canon, tail |-> acc.tail + Len(out), axis |-> Axis(Face(m)), power |-> power]
  <2> DEFINE written(j) == IF j \in acc.tail + 1 .. acc.tail + Len(out) THEN out[j - acc.tail]
                           ELSE acc.canon[j]
  <2>1. Sift(acc, i) = [canon |-> [j \in DOMAIN acc.canon |-> written(j)],
                        tail |-> acc.tail + Len(out), axis |-> Axis(Face(m)), power |-> power]
    <3> HIDE DEF acc
    <3> QED
      BY Zenon DEF Sift, Axis, Face, Pole
  <2>2. [j \in DOMAIN acc.canon |-> written(j)] = canon
    <3> HIDE DEF acc, out
    <3> QED
      BY <1>3, Zenon
  <2> HIDE DEF acc, out, canon, power, written, m
  <2> QED
    BY <2>1, <2>2, Zenon
<1>6. CASE ended
  <2>1. p # 0 => ~Alike(c, p)
    <3> HIDE DEF m
    <3> QED
      BY <1>1, <1>3, <1>4, <1>6 DEF Alike
  <2>2. out = RunEnd(c, p)
    <3> HIDE DEF acc
    <3> QED
      BY <1>3, <1>6 DEF RunEnd
  <2>3. ~InPair(c, i)
    BY <1>1, <2>1 DEF InPair
  <2>4. Pending(c, i) = 1
    BY <1>1, <2>3 DEF Pending
  <2>5. /\ Len(out) = Pending(c, p) /\ p - Pending(c, p) \in 0..p
        /\ \A j \in (p - Pending(c, p) + 1)..p : out[j - (p - Pending(c, p))] = InOrder(c, j)
    <3> HIDE DEF out, p
    <3> QED
      BY <1>1, <2>1, <2>2, FlushedRun
  <2>6. acc.tail + Len(out) = i - Pending(c, i)
    <3> HIDE DEF acc, out
    <3> QED
      BY <1>1, <1>3, <1>4, <2>4, <2>5
  <2>7. canon = [j \in 1..(n + 1) |-> IF j <= i - Pending(c, i) THEN InOrder(c, j) ELSE c[j]]
    <3> SUFFICES ASSUME NEW j \in 1..(n + 1)
                 PROVE  (IF j \in acc.tail + 1 .. acc.tail + Len(out) THEN out[j - acc.tail] ELSE acc.canon[j])
                          = IF j <= i - Pending(c, i) THEN InOrder(c, j) ELSE c[j]
      BY Zenon
    <3> DEFINE tail == p - Pending(c, p)
    <3>1. acc.tail = tail /\ tail \in 0..p /\ acc.tail + Len(out) = p /\ i - Pending(c, i) = p
      <4> HIDE DEF acc, out, p
      <4> QED
        BY <1>1, <1>3, <1>4, <2>4, <2>5
    <3>2. acc.canon[j] = IF j <= tail THEN InOrder(c, j) ELSE c[j]
      BY <1>3
    <3>3. j \in (tail + 1)..p => out[j - tail] = InOrder(c, j)
      BY <2>5
    <3> HIDE DEF acc, out, p, tail
    <3> QED
      BY <1>1, <3>1, <3>2, <3>3
  <2>8. power = Power(c, i)
    <3>1. kept = [k \in 0..1 |-> 0]
      BY <1>6
    <3>2. kept \in [0..1 -> 0..3] /\ kept[Pole(m)] = 0
      BY <1>2, <3>1
    <3>3. power = [k \in 0..1 |-> IF k = Pole(m) THEN (m % 3) + 1 ELSE kept[k]]
      <4> DEFINE e == Pole(m)
                 a == m % 3
      <4>1. /\ IsRaised(power, kept, e, a)
            /\ e \in 0..1 /\ a \in 0..2 /\ kept[e] = 0
        BY <1>2, <3>2, Zenon DEF IsRaised
      <4> HIDE DEF kept, power, e, a
      <4>2. power = [k \in 0..1 |-> IF k = e THEN a + 1 ELSE kept[k]]
        BY <3>2, <4>1, Raised
      <4> QED
        BY <4>2 DEF e, a
    <3>4. Power(c, i) = [k \in 0..1 |-> IF k = Pole(m) THEN (m % 3) + 1 ELSE 0]
      <4> HIDE DEF m
      <4> QED
        BY <1>1, <1>4, <2>3 DEF Power
    <3> HIDE DEF m, power, kept
    <3> QED
      BY <3>1, <3>3, <3>4
  <2>10. Axis(Face(m)) = Axis(Face(c[i]))
    BY <1>4
  <2> HIDE DEF acc, out, canon, power, p, m
  <2>9. Sifted(c, n, i) = [canon |-> canon, tail |-> acc.tail + Len(out), axis |-> Axis(Face(m)), power |-> power]
    BY <1>1, <2>6, <2>7, <2>8, <2>10, Zenon DEF Sifted
  <2> QED
    BY <1>5, <2>9 DEF acc, p
<1>7. CASE ~ended
  <2>1. p # 0 => InPair(c, i) /\ ~InPair(c, p) /\ Pole(c[p]) # Pole(m) /\ p \in 1..n
    <3> SUFFICES ASSUME p # 0 PROVE InPair(c, i) /\ ~InPair(c, p) /\ Pole(c[p]) # Pole(m) /\ p \in 1..n
      OBVIOUS
    <3>1. p \in 1..n /\ i > 1
      BY <1>1
    <3>2. Alike(c, p)
      <4> HIDE DEF m
      <4> QED
        BY <1>1, <1>3, <1>4, <1>7 DEF Alike
    <3>3. ~InPair(c, p) /\ Pole(c[p]) # Pole(c[p + 1])
      BY <3>1, <3>2, RunFacts
    <3> QED
      <4> HIDE DEF m
      <4> QED
        BY <1>1, <1>4, <3>1, <3>2, <3>3 DEF InPair
  <2>2. p = 0 => ~InPair(c, i)
    BY <1>1 DEF InPair
  <2>3. acc.tail = i - Pending(c, i)
    BY <1>1, <1>3, <2>1, <2>2 DEF Pending
  <2>4. acc.tail \in Int /\ acc.tail + 0 = acc.tail
    BY <1>1, <1>3, <1>4
  <2>5. out = <<>> /\ Len(out) = 0
    BY <1>7
  <2>6. canon = [j \in 1..(n + 1) |-> IF j <= i - Pending(c, i) THEN InOrder(c, j) ELSE c[j]]
    <3> SUFFICES ASSUME NEW j \in 1..(n + 1)
                 PROVE  (IF j \in acc.tail + 1 .. acc.tail + Len(out) THEN out[j - acc.tail] ELSE acc.canon[j])
                          = IF j <= i - Pending(c, i) THEN InOrder(c, j) ELSE c[j]
      BY Zenon
    <3>1. j \notin acc.tail + 1 .. acc.tail + Len(out)
      <4> HIDE DEF acc, out
      <4> QED
        BY <2>4, <2>5
    <3> HIDE DEF acc, out
    <3> QED
      BY <1>3, <2>3, <3>1
  <2>7. power = Power(c, i)
    <3>1. kept = Power(c, p)
      <4> HIDE DEF acc
      <4> QED
        BY <1>3, <1>7
    <3>2. kept \in [0..1 -> 0..3]
      <4> HIDE DEF kept, p
      <4> QED
        BY <1>1, <3>1, PowerType
    <3>3. kept[Pole(m)] = 0
      <4> HIDE DEF kept, m
      <4>1. CASE p = 0
        BY <1>2, <3>1, <4>1 DEF Power, InPair
      <4>2. CASE p # 0
        BY <1>2, <2>1, <3>1, <4>2 DEF Power
      <4> QED
        BY <4>1, <4>2
    <3>4. power = [k \in 0..1 |-> IF k = Pole(m) THEN (m % 3) + 1 ELSE kept[k]]
      <4> DEFINE e == Pole(m)
                 a == m % 3
      <4>1. /\ IsRaised(power, kept, e, a)
            /\ e \in 0..1 /\ a \in 0..2 /\ kept[e] = 0
        BY <1>2, <3>3, Zenon DEF IsRaised
      <4> HIDE DEF kept, power, e, a
      <4>2. power = [k \in 0..1 |-> IF k = e THEN a + 1 ELSE kept[k]]
        BY <3>2, <3>3, <4>1, Raised
      <4> QED
        BY <4>2 DEF e, a
    <3>5. ASSUME NEW k \in 0..1
          PROVE  Power(c, i)[k] = IF k = Pole(m) THEN (m % 3) + 1 ELSE kept[k]
      <4> HIDE DEF kept, m
      <4>1. CASE p = 0
        BY <1>1, <1>2, <1>4, <2>2, <3>1, <4>1 DEF Power, InPair
      <4>2. CASE p # 0
        BY <1>1, <1>2, <1>4, <2>1, <3>1, <4>2 DEF Power
      <4> QED
        BY <4>1, <4>2
    <3>6. Power(c, i) = [k \in 0..1 |-> Power(c, i)[k]]
      BY DEF Power
    <3> HIDE DEF m, power, kept
    <3> QED
      BY <3>4, <3>5, <3>6
  <2>10. Axis(Face(m)) = Axis(Face(c[i]))
    BY <1>4
  <2> HIDE DEF acc, out, canon, power, p, m
  <2>8. acc.tail + Len(out) = i - Pending(c, i)
    BY <2>3, <2>4, <2>5
  <2>9. Sifted(c, n, i) = [canon |-> canon, tail |-> acc.tail + Len(out), axis |-> Axis(Face(m)), power |-> power]
    BY <1>1, <2>6, <2>7, <2>8, <2>10, Zenon DEF Sifted
  <2> QED
    BY <1>5, <2>9 DEF acc, p
<1> QED
  BY <1>6, <1>7

(* No face is turned twice in a run.                                       *)
Tame(w) ==
  /\ \A k \in 1..(Len(w) - 1) : Face(w[k]) # Face(w[k + 1])
  /\ \A k \in 2..(Len(w) - 1) : ~(Alike(w, k - 1) /\ Alike(w, k))

WithLast(w) == Append(w, w[Len(w)] + 3)

LEMMA WithLastFacts ==
  ASSUME NEW w \in Seq(Moves), w # <<>>
  PROVE  /\ Len(w) \in Nat \ {0}
         /\ WithLast(w) \in [1..(Len(w) + 1) -> 0..20]
         /\ \A k \in 1..Len(w) : WithLast(w)[k] = w[k] /\ w[k] \in Moves
         /\ WithLast(w)[Len(w) + 1] = w[Len(w)] + 3
<1>1. Len(w) \in Nat \ {0} /\ \A k \in 1..Len(w) : w[k] \in Moves
  OBVIOUS
<1>2. w[Len(w)] + 3 \in 0..20 /\ w \in Seq(0..20)
  BY SMTT(30), <1>1 DEF Moves
<1> DEFINE c == Append(w, w[Len(w)] + 3)
<1>3. c \in Seq(0..20) /\ Len(c) = Len(w) + 1
  BY <1>2
<1>4. c[Len(w) + 1] = w[Len(w)] + 3 /\ \A k \in 1..Len(w) : c[k] = w[k]
  BY <1>1, <1>2
<1>5. c \in [1..(Len(w) + 1) -> 0..20]
  <2> HIDE DEF c
  <2> QED
    BY SMTT(30), <1>3
<1> QED
  BY <1>1, <1>4, <1>5 DEF WithLast

LEMMA RunsOf ==
  ASSUME NEW w \in Seq(Moves), w # <<>>, Tame(w)
  PROVE  Runs(WithLast(w), Len(w))
<1> DEFINE c == WithLast(w)
           n == Len(w)
<1>1. /\ n \in Nat \ {0} /\ c \in [1..(n + 1) -> 0..20] /\ c[n + 1] = w[n] + 3
      /\ \A k \in 1..n : c[k] = w[k] /\ w[k] \in Moves
  BY WithLastFacts
<1> HIDE DEF c, n
<1>2. ASSUME NEW k \in 1..n, Alike(c, k)
      PROVE  k < n /\ ~InPair(c, k) /\ Pole(c[k]) # Pole(c[k + 1])
  <2>1. k # n
    <3>1. SUFFICES ASSUME k = n PROVE FALSE
      OBVIOUS
    <3>2. c[n] \in Moves /\ c[n + 1] = c[n] + 3 /\ n \in 1..n
      BY <1>1
    <3>3. Axis(Face(c[n])) # Axis(Face(c[n] + 3))
      <4> DEFINE f == Face(c[n])
      <4>1. f \in 0..5 /\ Face(c[n] + 3) = f + 1
        <5>1. \A x \in 0..17 : x \div 3 \in 0..5 /\ (x + 3) \div 3 = (x \div 3) + 1
          OBVIOUS
        <5> QED
          BY <3>2, <5>1 DEF Moves, Face
      <4> HIDE DEF f
      <4>2. f % 3 # (f + 1) % 3
        BY <4>1
      <4> QED
        BY <4>1, <4>2 DEF Axis, f
    <3> QED
      BY <1>2, <3>1, <3>2, <3>3 DEF Alike
  <2>2. k < n /\ k + 1 \in 1..n /\ k \in 1..(n - 1)
    BY <1>1, <2>1
  <2>3. c[k] = w[k] /\ c[k + 1] = w[k + 1] /\ w[k] \in Moves /\ w[k + 1] \in Moves
    BY <1>1, <2>2
  <2>4. Pole(c[k]) # Pole(c[k + 1])
    <3>1. Face(w[k]) # Face(w[k + 1])
      BY <2>2 DEF Tame, n
    <3>2. Axis(Face(w[k])) = Axis(Face(w[k + 1]))
      BY <1>2, <2>3 DEF Alike
    <3>3. \A x, y \in Moves : Axis(Face(x)) = Axis(Face(y)) /\ Pole(x) = Pole(y) => Face(x) = Face(y)
      BY DEF Moves, Axis, Face, Pole
    <3> QED
      BY <2>3, <3>1, <3>2, <3>3
  <2>5. ~InPair(c, k)
    <3>1. SUFFICES ASSUME k > 1, Alike(c, k - 1) PROVE FALSE
      BY DEF InPair
    <3>2. k \in 2..(n - 1) /\ k - 1 \in 1..n /\ (k - 1) + 1 = k
      BY <1>1, <2>2, <3>1
    <3>3. Alike(w, k - 1) /\ Alike(w, k)
      BY <1>1, <1>2, <2>3, <3>1, <3>2 DEF Alike
    <3> QED
      BY <3>2, <3>3 DEF Tame, n
  <2> QED
    BY <2>2, <2>4, <2>5
<1>3. \A k \in 1..n : c[k] \in Moves
  BY <1>1
<1> QED
  BY <1>1, <1>2, <1>3 DEF Runs, c, n

(* canonical puts pairs of opposite faces in order.                        *)
LEMMA CanonicalIs ==
  ASSUME NEW w \in Seq(Moves), w # <<>>, Tame(w)
  PROVE  Canonical(w) = [k \in 1..Len(w) |-> InOrder(WithLast(w), k)]
<1> DEFINE c == WithLast(w)
           n == Len(w)
           start0 == [canon |-> c, tail |-> 0, axis |-> 0, power |-> [k \in 0..1 |-> 0]]
           rec(g) == [i \in 0..(n + 1) |-> IF i = 0 THEN start0 ELSE Sift(g[i - 1], i)]
           sifted == CHOOSE g : g = rec(g)
           f == [i \in 0..(n + 1) |-> Sifted(c, n, i)]
           T == {i \in 0..(n + 1) : sifted[i] = Sifted(c, n, i)}
<1>1. Runs(c, n) /\ n \in Nat \ {0} /\ c \in [1..(n + 1) -> 0..20]
  BY RunsOf, WithLastFacts
<1>2. Canonical(w) = SubSeq(sifted[n + 1].canon, 1, sifted[n + 1].tail)
  BY Zenon DEF Canonical, WithLast
<1> HIDE DEF c, n
<1>3. Sifted(c, n, 0) = start0
  <2>1. Pending(c, 0) = 0 /\ Power(c, 0) = [k \in 0..1 |-> 0]
    BY DEF Pending, Power, InPair
  <2>2. [j \in 1..(n + 1) |-> IF j <= 0 - 0 THEN InOrder(c, j) ELSE c[j]] = c
    BY <1>1
  <2>3. 0 - 0 = 0
    OBVIOUS
  <2> QED
    BY <2>1, <2>2, <2>3, Zenon DEF Sifted
<1>4. \A i \in 1..(n + 1) : Sifted(c, n, i) = Sift(Sifted(c, n, i - 1), i)
  BY <1>1, SiftStep
<1> HIDE DEF start0
<1>5. f = rec(f)
  <2>1. ASSUME NEW i \in 0..(n + 1) PROVE f[i] = IF i = 0 THEN start0 ELSE Sift(f[i - 1], i)
    <3>1. CASE i = 0
      BY <1>1, <1>3, <3>1
    <3>2. CASE i # 0
      <4>1. i \in 1..(n + 1) /\ i - 1 \in 0..(n + 1)
        BY <1>1, <3>2
      <4>2. f[i] = Sifted(c, n, i) /\ f[i - 1] = Sifted(c, n, i - 1)
        BY <4>1
      <4> HIDE DEF f
      <4> QED
        BY <1>4, <3>2, <4>1, <4>2
    <3> QED
      BY <3>1, <3>2
  <2>2. f = [i \in 0..(n + 1) |-> f[i]]
    OBVIOUS
  <2> HIDE DEF f
  <2> QED
    BY <2>1, <2>2, Zenon
<1>6. sifted = rec(sifted)
  <2> HIDE DEF rec, f
  <2> QED
    BY <1>5, Zenon
<1> HIDE DEF sifted, f
<1>7. 0 \in T
  <2>1. 0 \in 0..(n + 1)
    BY <1>1
  <2>2. rec(sifted)[0] = start0
    BY <2>1
  <2>3. sifted[0] = start0
    <3> HIDE DEF rec
    <3> QED
      BY <1>6, <2>2
  <2> QED
    BY <1>3, <2>1, <2>3
<1>8. ASSUME NEW i \in 0..(n + 1), i # n + 1, i \in T PROVE i + 1 \in T
  <2>1. i + 1 \in 1..(n + 1) /\ i + 1 \in 0..(n + 1) /\ (i + 1) - 1 = i /\ i + 1 # 0
    BY <1>1, <1>8
  <2>2. rec(sifted)[i + 1] = Sift(sifted[(i + 1) - 1], i + 1)
    BY <2>1
  <2>3. sifted[i + 1] = Sift(sifted[i], i + 1)
    <3> HIDE DEF rec
    <3> QED
      BY <1>6, <2>1, <2>2
  <2>4. Sifted(c, n, i + 1) = Sift(Sifted(c, n, i), i + 1)
    BY <1>4, <2>1
  <2> QED
    BY <1>8, <2>1, <2>3, <2>4
<1>9. \A i \in 0..(n + 1) : i \in T
  <2>1. n + 1 \in Nat
    BY <1>1
  <2> HIDE DEF T
  <2> QED
    BY <1>7, <1>8, <2>1, InductionUpTo
<1>10. sifted[n + 1] = Sifted(c, n, n + 1)
  <2>1. n + 1 \in T
    BY <1>1, <1>9
  <2> QED
    BY <2>1
<1>11. (n + 1) - Pending(c, n + 1) = n
  <2>1. ~Alike(c, n)
    BY <1>1, RunFacts
  <2>2. ~InPair(c, n + 1)
    <3>1. (n + 1) - 1 = n
      BY <1>1
    <3> QED
      BY <2>1, <3>1 DEF InPair
  <2> QED
    BY <1>1, <2>2 DEF Pending
<1> DEFINE canon == [j \in 1..(n + 1) |-> IF j <= n THEN InOrder(c, j) ELSE c[j]]
<1>12. sifted[n + 1].tail = n /\ sifted[n + 1].canon = canon
  BY <1>10, <1>11 DEF Sifted
<1>13. SubSeq(canon, 1, n) = [k \in 1..n |-> InOrder(c, k)]
  <2>1. SubSeq(canon, 1, n) = [k \in 1..n |-> canon[k]]
    <3>1. canon \in Seq(0..20) /\ Len(canon) = n + 1
      <4>1. \A k \in 1..(n + 1) : c[k] \in 0..20
        BY <1>1
      <4>2. ASSUME NEW k \in 1..n PROVE InOrder(c, k) \in 0..20
        <5>1. k \in 1..(n + 1) /\ k + 1 \in 1..(n + 1)
          BY <1>1
        <5>2. InPair(c, k) => k - 1 \in 1..(n + 1)
          BY <1>1 DEF InPair
        <5> QED
          BY <4>1, <5>1, <5>2 DEF InOrder
      <4>3. canon \in [1..(n + 1) -> 0..20]
        BY <1>1, <4>1, <4>2
      <4> HIDE DEF canon
      <4> QED
        BY <1>1, <4>3
    <3> HIDE DEF canon
    <3> DEFINE part == SubSeq(canon, 1, n)
    <3>2. part \in Seq(0..20) /\ Len(part) = n /\ \A k \in 1..n : part[k] = canon[k]
      BY SMTT(30), <1>1, <3>1
    <3> HIDE DEF part
    <3>3. part = [k \in 1..n |-> part[k]]
      BY <3>2
    <3>4. part = [k \in 1..n |-> canon[k]]
      BY <3>2, <3>3
    <3> QED
      BY <3>4 DEF part
  <2>2. \A k \in 1..n : canon[k] = InOrder(c, k)
    BY <1>1
  <2> HIDE DEF canon
  <2> QED
    BY <2>1, <2>2
<1> QED
  BY <1>2, <1>12, <1>13, Zenon DEF c, n

-----------------------------------------------------------------------------
(***************************************************************************)
(* Solutions.  Along a shortest one each turn gains one, so that no two    *)
(* turns of a run can be of one face: they would amount to one or none.    *)
(***************************************************************************)
LEMMA DistType == ASSUME NEW p \in Pos PROVE Dist[p] \in Nat
BY DistAssumption

LEMMA Gains ==
  ASSUME NEW p \in Pos, NEW w \in Seq(Turns), Apply(p, w) = Solved, Dist[p] = Len(w),
         NEW f, Trail(f, p, w)
  PROVE  \A k \in 0..Len(w) : Dist[f[k]] = Len(w) - k
<1> DEFINE n == Len(w)
           far == {k \in 0..n : n - k <= Dist[f[k]]}
           near == {k \in 0..n : Dist[f[n - k]] <= k}
<1>1. n \in Nat /\ \A k \in 1..n : w[k] \in Turns
  OBVIOUS
<1>2. /\ \A k \in 0..n : f[k] \in Pos /\ Dist[f[k]] \in Nat
      /\ f[0] = p /\ \A k \in 1..n : f[k] = Move[w[k]][f[k - 1]]
  BY DistType DEF Trail
<1>3. f[n] = Solved /\ Dist[f[n]] = 0
  <2>1. f[n] = Solved
    BY TrailApply
  <2> QED
    BY <2>1, SearchAssumption, DistAssumption
<1>4. \A k \in 1..n : Dist[f[k - 1]] <= Dist[f[k]] + 1
  <2> TAKE k \in 1..n
  <2>1. k - 1 \in 0..n
    BY <1>1
  <2> QED
    BY <1>1, <1>2, <2>1, DistAssumption
<1>5. Dist[f[0]] = n
  BY <1>2
<1> HIDE DEF n
<1>6. 0 \in far /\ 0 \in near
  <2>1. n - 0 = n /\ 0 \in 0..n
    BY <1>1
  <2> QED
    BY <1>1, <1>3, <1>5, <2>1
<1>7. ASSUME NEW k \in 0..n, k # n, k \in far PROVE k + 1 \in far
  <2>1. k + 1 \in 1..n /\ k + 1 \in 0..n /\ (k + 1) - 1 = k
    BY <1>1, <1>7
  <2>2. Dist[f[k]] <= Dist[f[k + 1]] + 1
    BY <1>4, <2>1
  <2>3. Dist[f[k]] \in Nat /\ Dist[f[k + 1]] \in Nat /\ n - k <= Dist[f[k]]
    BY <1>2, <1>7, <2>1
  <2>4. n - (k + 1) <= Dist[f[k + 1]]
    BY <1>1, <2>2, <2>3
  <2> QED
    BY <2>1, <2>4
<1>8. ASSUME NEW k \in 0..n, k # n, k \in near PROVE k + 1 \in near
  <2>1. n - k \in 1..n /\ n - k \in 0..n /\ n - (k + 1) \in 0..n /\ (n - k) - 1 = n - (k + 1) /\ k + 1 \in 0..n
    BY <1>1, <1>8
  <2>2. Dist[f[n - (k + 1)]] <= Dist[f[n - k]] + 1
    BY <1>4, <2>1
  <2>3. Dist[f[n - k]] \in Nat /\ Dist[f[n - (k + 1)]] \in Nat /\ Dist[f[n - k]] <= k
    BY <1>2, <1>8, <2>1
  <2>4. Dist[f[n - (k + 1)]] <= k + 1
    BY <2>2, <2>3
  <2> QED
    BY <2>1, <2>4
<1>9. \A k \in 0..n : k \in far
  <2> HIDE DEF far
  <2> QED
    BY <1>1, <1>6, <1>7, InductionUpTo
<1>10. \A k \in 0..n : k \in near
  <2> HIDE DEF near
  <2> QED
    BY <1>1, <1>6, <1>8, InductionUpTo
<1>11. ASSUME NEW k \in 0..n PROVE Dist[f[k]] = n - k
  <2>1. n - k \in 0..n /\ n - (n - k) = k
    BY <1>1
  <2>2. n - k \in near /\ k \in far
    BY <1>9, <1>10, <2>1
  <2>3. Dist[f[n - (n - k)]] <= n - k /\ n - k <= Dist[f[k]]
    BY <2>2
  <2>4. Dist[f[k]] \in Nat /\ Dist[f[k]] <= n - k
    BY <1>2, <2>1, <2>3
  <2> DEFINE x == Dist[f[k]]
  <2> HIDE DEF x
  <2>5. x \in Nat /\ x <= n - k /\ n - k <= x
    BY <2>3, <2>4 DEF x
  <2>6. x = n - k
    BY <1>1, <2>5
  <2> QED
    BY <2>6 DEF x
<1> QED
  BY <1>11 DEF n

LEMMA TwoAmount ==
  ASSUME NEW l \in Turns, NEW m \in Turns, NEW x \in Pos, Face(l) = Face(m)
  PROVE  Dist[x] <= Dist[Move[m][Move[l][x]]] + 1
<1>1. Move[m][Move[l][x]] \in {x} \union {Move[k][x] : k \in Turns}
  BY SameFace
<1> QED
  BY <1>1, DistAssumption

LEMMA ShortestIsTame ==
  ASSUME NEW p \in Pos, NEW w \in Seq(Turns), Apply(p, w) = Solved, Dist[p] = Len(w)
  PROVE  Tame(w)
<1>1. PICK f : Trail(f, p, w)
  BY TrailExists
<1>2. \A k \in 0..Len(w) : Dist[f[k]] = Len(w) - k
  BY <1>1, Gains
<1> DEFINE n == Len(w)
<1>3. /\ n \in Nat /\ \A k \in 1..n : w[k] \in Turns
      /\ \A k \in 0..n : f[k] \in Pos
      /\ \A k \in 1..n : f[k] = Move[w[k]][f[k - 1]]
  BY <1>1 DEF Trail
<1>4. ASSUME NEW k \in 1..(n - 1) PROVE Face(w[k]) # Face(w[k + 1])
  <2> SUFFICES ASSUME Face(w[k]) = Face(w[k + 1]) PROVE FALSE
    OBVIOUS
  <2>1. k \in 1..n /\ k + 1 \in 1..n /\ k - 1 \in 0..n /\ k \in 0..n /\ k + 1 \in 0..n /\ (k + 1) - 1 = k
    BY <1>3
  <2>2. f[k + 1] = Move[w[k + 1]][Move[w[k]][f[k - 1]]]
    BY <1>3, <2>1
  <2>3. Dist[f[k - 1]] <= Dist[f[k + 1]] + 1
    BY <1>3, <2>1, <2>2, TwoAmount
  <2>4. Dist[f[k - 1]] = n - (k - 1) /\ Dist[f[k + 1]] = n - (k + 1)
    BY <1>2, <2>1
  <2> HIDE DEF n
  <2> QED
    BY <1>3, <2>3, <2>4
<1>5. ASSUME NEW k \in 2..(n - 1), Alike(w, k - 1), Alike(w, k) PROVE FALSE
  <2>1. /\ k \in 1..n /\ k + 1 \in 1..n /\ k - 1 \in 1..n /\ k - 2 \in 0..n /\ k + 1 \in 0..n
        /\ (k + 1) - 1 = k /\ (k - 1) - 1 = k - 2 /\ (k - 1) + 1 = k
        /\ k - 1 \in 1..(n - 1) /\ k \in 1..(n - 1)
    BY <1>3
  <2> DEFINE x == f[k - 2]
             l == w[k - 1]
             m == w[k]
             r == w[k + 1]
  <2>2. x \in Pos /\ l \in Turns /\ m \in Turns /\ r \in Turns
    BY <1>3, <2>1
  <2>3. f[k + 1] = Move[r][Move[m][Move[l][x]]]
    <3>1. \A i \in 1..n : f[i] = Move[w[i]][f[i - 1]]
      BY <1>3
    <3>2. f[k - 1] = Move[l][x] /\ f[k] = Move[m][f[k - 1]] /\ f[k + 1] = Move[r][f[k]]
      BY <2>1, <3>1
    <3> QED
      BY <3>2
  <2>4. /\ Face(l) # Face(m) /\ Face(m) # Face(r)
        /\ Axis(Face(l)) = Axis(Face(m)) /\ Axis(Face(m)) = Axis(Face(r))
    BY <1>4, <1>5, <2>1 DEF Alike
  <2> HIDE DEF x, l, m, r
  <2>5. Face(l) = Face(r)
    <3>1. l \in 0..17 /\ m \in 0..17 /\ r \in 0..17
      BY <2>2, SearchAssumption
    <3>2. Face(l) \in 0..5 /\ Face(m) \in 0..5 /\ Face(r) \in 0..5
      BY <3>1 DEF Face
    <3>3. \A a, b, c \in 0..5 : a # b /\ b # c /\ a % 3 = b % 3 /\ b % 3 = c % 3 => a = c
      OBVIOUS
    <3> QED
      BY <2>4, <3>2, <3>3 DEF Axis
  <2>6. Move[l][x] \in Pos /\ Move[r][Move[l][x]] \in Pos
    BY <2>2, MoveType
  <2>7. Move[r][Move[m][Move[l][x]]] = Move[m][Move[r][Move[l][x]]]
    BY <2>2, <2>4, <2>6, OppositeFaces
  <2>8. Dist[Move[r][Move[l][x]]] <= Dist[f[k + 1]] + 1
    BY <2>2, <2>3, <2>6, <2>7, DistAssumption
  <2>9. Dist[x] <= Dist[Move[r][Move[l][x]]] + 1
    BY <2>2, <2>5, TwoAmount
  <2>10. Dist[x] = n - (k - 2) /\ Dist[f[k + 1]] = n - (k + 1)
    BY <1>2, <2>1 DEF x
  <2>11. Dist[Move[r][Move[l][x]]] \in Nat
    BY <2>6, DistType
  <2> HIDE DEF n
  <2> QED
    BY <1>3, <2>8, <2>9, <2>10, <2>11
<1> QED
  BY <1>4, <1>5 DEF Tame

LEMMA PairOrder ==
  ASSUME NEW c, NEW n, Runs(c, n), NEW k \in 1..n, Alike(c, k)
  PROVE  /\ k + 1 \in 1..n /\ InPair(c, k + 1) /\ ~Alike(c, k + 1)
         /\ \/ /\ Pole(c[k]) = 0 /\ Pole(c[k + 1]) = 1
               /\ InOrder(c, k) = c[k] /\ InOrder(c, k + 1) = c[k + 1]
            \/ /\ Pole(c[k]) = 1 /\ Pole(c[k + 1]) = 0
               /\ InOrder(c, k) = c[k + 1] /\ InOrder(c, k + 1) = c[k]
<1>1. k < n /\ ~InPair(c, k) /\ Pole(c[k]) # Pole(c[k + 1]) /\ n \in Nat
  BY RunFacts
<1>2. k + 1 \in 1..n /\ (k + 1) - 1 = k /\ k + 1 > 1
  BY <1>1
<1>3. InPair(c, k + 1)
  BY <1>2 DEF InPair
<1>4. ~Alike(c, k + 1)
  BY <1>2, <1>3, RunFacts
<1>5. Pole(c[k]) \in {0, 1} /\ Pole(c[k + 1]) \in {0, 1}
  BY DEF Pole
<1>6. InOrder(c, k) = IF Pole(c[k]) = 0 THEN c[k] ELSE c[k + 1]
  BY DEF InOrder
<1>7. InOrder(c, k + 1) = IF Pole(c[k]) = 0 THEN c[k + 1] ELSE c[k]
  BY <1>2, <1>3, <1>4 DEF InOrder
<1> QED
  BY <1>1, <1>2, <1>3, <1>4, <1>5, <1>6, <1>7

LEMMA InOrderAxis ==
  ASSUME NEW c, NEW n, Runs(c, n), NEW k \in 1..n
  PROVE  /\ InOrder(c, k) \in {c[j] : j \in 1..n}
         /\ Axis(Face(InOrder(c, k))) = Axis(Face(c[k]))
         /\ ~Alike(c, k) /\ ~InPair(c, k) => InOrder(c, k) = c[k]
<1>1. CASE Alike(c, k)
  BY <1>1, PairOrder DEF Alike
<1>2. CASE InPair(c, k)
  <2>1. k - 1 \in 1..n /\ ~Alike(c, k) /\ Axis(Face(c[k - 1])) = Axis(Face(c[k]))
    BY <1>2, RunFacts
  <2> QED
    BY <1>2, <2>1 DEF InOrder
<1>3. CASE ~Alike(c, k) /\ ~InPair(c, k)
  BY <1>3 DEF InOrder
<1> QED
  BY <1>1, <1>2, <1>3

LEMMA PoleFace ==
  ASSUME NEW m \in Moves
  PROVE  /\ Face(m) \in 0..5
         /\ Face(m) = Axis(Face(m)) + (3 * Pole(m))
BY DEF Moves, Axis, Face, Pole

LEMMA TurnsAreMoves == Turns \subseteq Moves /\ Seq(Turns) \subseteq Seq(Moves)
<1>1. Turns \subseteq Moves
  BY SearchAssumption DEF Moves
<1>2. ASSUME NEW w \in Seq(Turns) PROVE w \in Seq(Moves)
  BY <1>1, <1>2
<1> QED
  BY <1>1, <1>2

(* canonical keeps the turns, and their effect, and puts opposite faces    *)
(* in order.                                                               *)
LEMMA CanonicalKeeps ==
  ASSUME NEW w \in Seq(Turns), Tame(w)
  PROVE  /\ Canonical(w) \in Seq(Turns) /\ Len(Canonical(w)) = Len(w)
         /\ \A p \in Pos : Apply(p, Canonical(w)) = Apply(p, w)
         /\ \A k \in 1..(Len(w) - 1) : Canonical(w)[k + 1] \in Followers(Face(Canonical(w)[k]))
<1>1. CASE w = <<>>
  <2>1. Canonical(w) = <<>>
    BY <1>1 DEF Canonical
  <2>2. <<>> \in Seq(Turns) /\ Len(<<>>) = 0 /\ 1..(0 - 1) = {}
    OBVIOUS
  <2> QED
    BY <1>1, <2>1, <2>2
<1>2. CASE w # <<>>
  <2> DEFINE c == WithLast(w)
             n == Len(w)
             o == Canonical(w)
  <2>1. w \in Seq(Moves)
    BY TurnsAreMoves
  <2>2. /\ n \in Nat \ {0} /\ \A k \in 1..n : c[k] = w[k] /\ w[k] \in Turns /\ w[k] \in Moves
    BY <1>2, <2>1, WithLastFacts
  <2>3. Runs(c, n)
    BY <1>2, <2>1, RunsOf
  <2>4. o = [k \in 1..n |-> InOrder(c, k)]
    BY <1>2, <2>1, CanonicalIs
  <2> HIDE DEF c, n, o
  <2>5. ASSUME NEW k \in 1..n PROVE InOrder(c, k) \in Turns
    <3>1. PICK j \in 1..n : InOrder(c, k) = c[j]
      BY <2>3, InOrderAxis
    <3> QED
      BY <2>2, <3>1
  <2>6. o \in Seq(Turns) /\ Len(o) = n /\ \A k \in 1..n : o[k] = InOrder(c, k) /\ o[k] \in Turns
    BY <2>2, <2>4, <2>5
  <2>7. ASSUME NEW p \in Pos PROVE Apply(p, o) = Apply(p, w)
    <3>1. PICK f : Trail(f, p, w)
      BY TrailExists
    <3>2. PICK g : Trail(g, p, o)
      BY <2>6, TrailExists
    <3>3. /\ f \in [0..n -> Pos] /\ f[0] = p /\ \A k \in 1..n : f[k] = Move[c[k]][f[k - 1]]
      BY <2>2, <3>1 DEF Trail, n
    <3>4. /\ g[0] = p /\ \A k \in 1..n : g[k] = Move[o[k]][g[k - 1]]
      BY <2>6, <3>2 DEF Trail
    <3> DEFINE T == {k \in 0..n : IF k # 0 /\ Alike(c, k) THEN g[k - 1] = f[k - 1] ELSE g[k] = f[k]}
    <3>5. 0 \in T
      BY <2>2, <3>3, <3>4
    <3>6. ASSUME NEW k \in 0..n, k # n, k \in T PROVE k + 1 \in T
      <4>1. k + 1 \in 1..n /\ k + 1 \in 0..n /\ (k + 1) - 1 = k /\ k + 1 # 0 /\ k \in Nat
        BY <2>2, <3>6
      <4>2. CASE k # 0 /\ Alike(c, k)
        <5>1. k \in 1..n /\ k - 1 \in 0..n
          BY <2>2, <4>1, <4>2
        <5>2. g[k - 1] = f[k - 1] /\ f[k - 1] \in Pos
          BY <3>3, <3>6, <4>2, <5>1
        <5>3. ~Alike(c, k + 1)
          BY <2>3, <4>2, <5>1, PairOrder
        <5> DEFINE l == c[k]
                   m == c[k + 1]
                   x == f[k - 1]
        <5>4. /\ f[k + 1] = Move[m][Move[l][x]]
              /\ g[k + 1] = Move[o[k + 1]][Move[o[k]][x]]
          BY <3>3, <3>4, <4>1, <5>1, <5>2
        <5>5. l \in Turns /\ m \in Turns /\ l \in Moves /\ m \in Moves
          BY <2>2, <4>1, <5>1
        <5>6. \/ o[k] = l /\ o[k + 1] = m
              \/ o[k] = m /\ o[k + 1] = l
          BY <2>3, <2>6, <4>1, <4>2, <5>1, PairOrder
        <5>7. Axis(Face(l)) = Axis(Face(m)) /\ Face(l) # Face(m)
          <6>1. Axis(Face(l)) = Axis(Face(m))
            BY <4>2 DEF Alike
          <6>2. Pole(l) # Pole(m) /\ Pole(l) \in {0, 1} /\ Pole(m) \in {0, 1}
            <7>1. Pole(c[k]) # Pole(c[k + 1])
              BY <2>3, <4>2, <5>1, RunFacts
            <7> QED
              BY <7>1 DEF Pole
          <6>3. Axis(Face(l)) \in 0..2
            BY <5>5, MoveIs
          <6>4. Face(l) = Axis(Face(l)) + (3 * Pole(l)) /\ Face(m) = Axis(Face(m)) + (3 * Pole(m))
            BY <5>5, PoleFace
          <6> DEFINE a == Axis(Face(l))
          <6> HIDE DEF l, m, a
          <6>5. Face(l) = a + (3 * Pole(l)) /\ Face(m) = a + (3 * Pole(m)) /\ a \in 0..2
            BY <6>1, <6>3, <6>4 DEF a
          <6>6. Face(l) # Face(m)
            BY <6>2, <6>5
          <6> QED
            BY <6>1, <6>6
        <5> HIDE DEF l, m, x
        <5>8. Move[l][Move[m][x]] = Move[m][Move[l][x]]
          BY <5>2, <5>5, <5>7, OppositeFaces DEF x
        <5>9. g[k + 1] = f[k + 1]
          BY <5>4, <5>6, <5>8
        <5> QED
          BY <4>1, <5>3, <5>9
      <4>3. CASE ~(k # 0 /\ Alike(c, k))
        <5>1. g[k] = f[k]
          BY <3>6, <4>3
        <5>2. CASE Alike(c, k + 1)
          BY <4>1, <5>1, <5>2
        <5>3. CASE ~Alike(c, k + 1)
          <6>1. ~InPair(c, k + 1)
            <7>1. k + 1 > 1 => k # 0
              BY <4>1
            <7> QED
              BY <4>1, <4>3, <7>1 DEF InPair
          <6>2. o[k + 1] = c[k + 1]
            BY <2>3, <2>6, <4>1, <5>3, <6>1, InOrderAxis
          <6>3. g[k + 1] = Move[c[k + 1]][g[k]] /\ f[k + 1] = Move[c[k + 1]][f[k]]
            BY <3>3, <3>4, <4>1, <6>2
          <6> QED
            BY <4>1, <5>1, <5>3, <6>3
        <5> QED
          BY <5>2, <5>3
      <4> QED
        BY <4>2, <4>3
    <3>7. \A k \in 0..n : k \in T
      <4> HIDE DEF T
      <4> QED
        BY <2>2, <3>5, <3>6, InductionUpTo
    <3>8. g[n] = f[n]
      <4>1. n \in T /\ n \in 1..n
        BY <2>2, <3>7
      <4>2. ~Alike(c, n)
        BY <2>3, <4>1, RunFacts
      <4> QED
        BY <4>1, <4>2
    <3>9. Apply(p, w) = f[n]
      BY <3>1, TrailApply DEF n
    <3>10. Apply(p, o) = g[n]
      BY <2>6, <3>2, TrailApply
    <3> QED
      BY <3>8, <3>9, <3>10
  <2>8. ASSUME NEW k \in 1..(n - 1) PROVE o[k + 1] \in Followers(Face(o[k]))
    <3>1. k \in 1..n /\ k + 1 \in 1..n
      BY <2>2
    <3> DEFINE l == o[k]
               m == o[k + 1]
    <3>2. l \in Turns /\ m \in Turns /\ l \in Moves /\ m \in Moves
      BY <2>6, <3>1, TurnsAreMoves
    <3>3. Face(l) = Axis(Face(l)) + (3 * Pole(l)) /\ Face(m) = Axis(Face(m)) + (3 * Pole(m))
      BY <3>2, PoleFace
    <3>4. Axis(Face(l)) \in 0..2 /\ Axis(Face(m)) \in 0..2 /\ Pole(l) \in {0, 1} /\ Pole(m) \in {0, 1}
      BY <3>2, MoveIs DEF Pole
    <3>5. Axis(Face(l)) # Axis(Face(m)) \/ (Pole(l) = 0 /\ Pole(m) = 1)
      <4>1. CASE Alike(c, k)
        BY <2>3, <2>6, <3>1, <4>1, PairOrder
      <4>2. CASE ~Alike(c, k)
        <5>1. Axis(Face(l)) = Axis(Face(c[k])) /\ Axis(Face(m)) = Axis(Face(c[k + 1]))
          BY <2>3, <2>6, <3>1, InOrderAxis
        <5> QED
          BY <4>2, <5>1 DEF Alike
      <4> QED
        BY <4>1, <4>2
    <3> DEFINE a == Axis(Face(l))
               b == Axis(Face(m))
               x == Face(l)
               y == Face(m)
    <3> HIDE DEF l, m, a, b, x, y
    <3>6. y # x /\ ~(x \in 3..5 /\ y = x - 3)
      <4>1. /\ x = a + (3 * Pole(l)) /\ y = b + (3 * Pole(m)) /\ a \in 0..2 /\ b \in 0..2
            /\ Pole(l) \in {0, 1} /\ Pole(m) \in {0, 1} /\ (a # b \/ (Pole(l) = 0 /\ Pole(m) = 1))
        BY <3>3, <3>4, <3>5 DEF a, b, x, y
      <4> QED
        BY <4>1
    <3>7. m \in Followers(x)
      BY <3>2, <3>6 DEF Followers, y
    <3> QED
      BY <3>7 DEF l, m, x
  <2> QED
    BY <2>6, <2>7, <2>8 DEF n, o
<1> QED
  BY <1>1, <1>2

-----------------------------------------------------------------------------
(***************************************************************************)
(* The search of a line is the search of OptimalSearch.                    *)
(***************************************************************************)
LEMMA LineStep == [LineNext]_lineVars => [Next]_vars
BY DEF LineNext, Solving, PrintLine, Printed, lineVars, Next

(* A worker that solves a line runs the search of its cube and nothing     *)
(* else that changes the search: reading and printing are at its ends.     *)
(* What is proved of the search holds of it.                               *)
THEOREM LineSearches == LineSpec => Spec
<1>1. LineInit => Init
  BY DEF LineInit
<1> QED
  BY <1>1, LineStep, PTL DEF LineSpec, Spec

-----------------------------------------------------------------------------
(***************************************************************************)
(* What is printed.  It is the canonical form of the answer, written once  *)
(* the search is done; the answer does not change any more.                *)
(***************************************************************************)
Shown ==
  \/ size = -1 /\ printed = <<>>
  \/ /\ phase = "done"
     /\ size = Len(Canonical(answer))
     /\ \E style \in Styles : printed = Written(Canonical(answer), style)

LEMMA ShownInit == LineInit => Shown
BY DEF LineInit, Shown

LEMMA ShownStep == ASSUME Shown, [LineNext]_lineVars PROVE Shown'
<1>1. CASE Solving
  <2>1. phase # "done" /\ UNCHANGED <<size, printed>>
    BY <1>1 DEF Solving, Deepen, ToQueue, QueuePass, GiveUp
  <2> QED
    BY <2>1 DEF Shown
<1>2. CASE PrintLine
  <2>1. /\ phase' = "done" /\ answer' = answer /\ size' = Len(Canonical(answer))
        /\ \E style \in Styles : printed' = Written(Canonical(answer), style)
    BY <1>2 DEF PrintLine, vars
  <2> QED
    BY <2>1 DEF Shown
<1>3. CASE Printed \/ UNCHANGED lineVars
  <2>1. UNCHANGED <<phase, answer, size, printed>>
    BY <1>3 DEF Printed, lineVars, vars
  <2> QED
    BY <2>1 DEF Shown
<1> QED
  BY <1>1, <1>2, <1>3 DEF LineNext

LEMMA ReadNothing == Parse(<<>>) = <<>>
<1> DEFINE text == Written(<<>>, "fixed")
<1>1. <<>> \in Seq(Moves) /\ Len(<<>>) = 0 /\ "fixed" \in {"singmaster", "fixed"}
  OBVIOUS
<1>2. Parse(text) = <<>>
  BY <1>1, ParseWritten
<1>3. text = <<>>
  <2> DEFINE all == 1..(Width("fixed") * Len(<<>>))
  <2>1. all = {}
    BY <1>1 DEF Width
  <2>2. text = [k \in 1..0 |-> Letter(<<>>, "fixed", k)]
    <3>1. {k \in all : Letter(<<>>, "fixed", k) # Blank} = {}
      BY <2>1
    <3> QED
      BY <3>1 DEF Written
  <2> QED
    BY <2>2
<1> QED
  BY <1>2, <1>3

(* An answer that is optimal is tame, so that its canonical form keeps its *)
(* turns; and a printed one reads back as its canonical form.              *)
LEMMA AnswerIsTame ==
  ASSUME OptimalInv, phase = "done"
  PROVE  /\ start \in Pos /\ answer \in Seq(Turns) /\ Tame(answer)
         /\ Dist[start] <= limit => Apply(start, answer) = Solved
<1>1. start \in Pos /\ answer \in Seq(Turns) /\ Optimal
  BY DEF OptimalInv, SoundInv, TypeOK
<1>2. CASE Dist[start] <= limit
  <2>1. Len(answer) = Dist[start] /\ Apply(start, answer) = Solved
    BY <1>1, <1>2 DEF Optimal
  <2> QED
    BY <1>1, <2>1, ShortestIsTame
<1>3. CASE ~(Dist[start] <= limit)
  <2>1. answer = <<>>
    BY <1>1, <1>3 DEF Optimal
  <2> QED
    BY <1>1, <1>3, <2>1 DEF Tame
<1> QED
  BY <1>2, <1>3

LEMMA ReadBack ==
  ASSUME OptimalInv, Shown, size # -1
  PROVE  /\ phase = "done" /\ size = Len(Canonical(answer))
         /\ Parse(printed) = Canonical(answer)
<1>1. /\ phase = "done" /\ size = Len(Canonical(answer))
      /\ \E style \in Styles : printed = Written(Canonical(answer), style)
  BY DEF Shown
<1>2. PICK style \in Styles : printed = Written(Canonical(answer), style)
  BY <1>1
<1>3. style \in {"singmaster", "fixed"}
  BY LineAssumption
<1>4. Canonical(answer) \in Seq(Moves)
  BY <1>1, AnswerIsTame, CanonicalKeeps, TurnsAreMoves
<1>5. Parse(printed) = Canonical(answer)
  BY <1>2, <1>3, <1>4, ParseWritten
<1> QED
  BY <1>1, <1>5

LEMMA PrintedFacts == ASSUME OptimalInv, Shown PROVE PrintedSolves /\ PrintedInOrder
<1>1. CASE size = -1
  <2>1. printed = <<>>
    <3>1. CASE phase = "done" /\ size = Len(Canonical(answer))
      <4>1. Len(Canonical(answer)) \in Nat
        BY <3>1, AnswerIsTame, CanonicalKeeps
      <4> QED
        BY <1>1, <3>1, <4>1
    <3> QED
      BY <3>1 DEF Shown
  <2>2. Parse(printed) = <<>> /\ 1..(Len(<<>>) - 1) = {}
    BY <2>1, ReadNothing
  <2> QED
    BY <1>1, <2>2 DEF PrintedSolves, PrintedInOrder
<1>2. CASE size # -1
  <2>1. /\ phase = "done" /\ size = Len(Canonical(answer))
        /\ Parse(printed) = Canonical(answer)
    BY <1>2, ReadBack
  <2>2. /\ start \in Pos /\ answer \in Seq(Turns) /\ Tame(answer)
        /\ Dist[start] <= limit => Apply(start, answer) = Solved
    BY <2>1, AnswerIsTame
  <2>3. /\ Len(Canonical(answer)) = Len(answer)
        /\ Apply(start, Canonical(answer)) = Apply(start, answer)
        /\ \A k \in 1..(Len(answer) - 1) :
             Canonical(answer)[k + 1] \in Followers(Face(Canonical(answer)[k]))
    BY <2>2, CanonicalKeeps
  <2>4. PrintedSolves
    BY <2>1, <2>2, <2>3 DEF PrintedSolves
  <2>5. PrintedInOrder
    BY <2>1, <2>3 DEF PrintedInOrder
  <2> QED
    BY <2>4, <2>5
<1> QED
  BY <1>1, <1>2

LEMMA LineInvariant == Stray = {{}} => (LineSpec => [](OptimalInv /\ Shown))
<1>1. LineSpec => []Shown
  BY ShownInit, ShownStep, PTL DEF LineSpec
<1> QED
  BY <1>1, LineSearches, OptimalInduction, PTL

(* A printed solution can be read back and solves the cube, in as many     *)
(* turns as the answer has: putting opposite faces in order, writing the   *)
(* moves in either style and reading them with the sloppy grammar of the   *)
(* input lose nothing, because a shortest solution has no turns that       *)
(* canonical would merge.                                                  *)
THEOREM PrintIsSolution == Stray = {{}} => (LineSpec => []PrintedSolves)
BY LineInvariant, PrintedFacts, PTL

(* What is printed is in canonical order, wherever the parts of the        *)
(* search met: of neighbouring turns of opposite faces that of U, R or F   *)
(* comes first, and no face is turned twice in a row.                      *)
THEOREM PrintIsOrdered == Stray = {{}} => (LineSpec => []PrintedInOrder)
BY LineInvariant, PrintedFacts, PTL

=============================================================================
