---------------------------- MODULE MoveSequence ----------------------------
(***************************************************************************)
(* Move sequences as text: parse, canonical and to_string of moveseq_t     *)
(* (src/src/util.cpp).  A text is a sequence of characters.  A move is     *)
(* 3 * face + amount, amount 0 for a quarter turn, 1 for a half turn and 2 *)
(* for a quarter turn back; faces 0, 1, 2 (U, R, F) are opposite to 3, 4,  *)
(* 5 (D, L, B).                                                            *)
(***************************************************************************)
EXTENDS Integers, Sequences

Upper == <<"U", "R", "F", "D", "L", "B">>
Lower == <<"u", "r", "f", "d", "l", "b">>
None  == -1
Blank == " "

FaceIn(ch) ==
  LET named == {k \in 1..6 : ch \in {Upper[k], Lower[k]}}
  IN  IF named = {} THEN None ELSE 3 * ((CHOOSE k \in named : TRUE) - 1)

(* Everything that is not a face is an amount, a delimiter like a 1.       *)
AmountIn(ch) == CASE ch \in {"3", "'"} -> 2
                  [] ch = "2"          -> 1
                  [] OTHER             -> 0

(* One character: a face waits for the next one; another face leaves it a  *)
(* quarter turn, anything else decides its amount.                         *)
ReadChar(acc, ch) ==
  [moves |-> IF acc.face = None THEN acc.moves
             ELSE Append(acc.moves, acc.face + IF FaceIn(ch) # None THEN 0 ELSE AmountIn(ch)),
   face  |-> FaceIn(ch)]

(* parse: the characters in turn, and the face that still waits.           *)
Parse(text) ==
  LET read[k \in 0..Len(text)] ==
        IF k = 0 THEN [moves |-> <<>>, face |-> None] ELSE ReadChar(read[k - 1], text[k])
      end == read[Len(text)]
  IN  IF end.face # None THEN Append(end.moves, end.face) ELSE end.moves

(* Defect: the turns of a face and the opposite one are exchanged.         *)
MutFlushed(axis, power) ==
  LET pole(k) == IF power[k] % 4 = 0 THEN <<>>
                 ELSE <<(axis * 3) + ((1 - k) * 9) + (power[k] % 4) - 1>>
  IN  pole(0) \o pole(1)

(* canonical, the turns that a run of turns of one axis amounts to.        *)
Flushed(axis, power) ==
  LET pole(k) == IF power[k] % 4 = 0 THEN <<>>
                 ELSE <<(axis * 3) + (k * 9) + (power[k] % 4) - 1>>
  IN  pole(0) \o pole(1)

(* Defect: runs of an axis are left as they are.                           *)
MutCanonical(moves) == moves

(* canonical, one move of the sequence: what a run amounts to is written   *)
(* over the moves that were read.  power is a uint8_t.                     *)
Sift(acc, i) ==
  LET m     == acc.canon[i]
      axis  == (m \div 3) % 3
      pole  == IF m >= 9 THEN 1 ELSE 0
      ended == axis # acc.axis
      out   == IF ended THEN Flushed(acc.axis, acc.power) ELSE <<>>
      kept  == IF ended THEN [k \in 0..1 |-> 0] ELSE acc.power
  IN  [canon |-> [j \in DOMAIN acc.canon |->
                    IF j \in acc.tail + 1 .. acc.tail + Len(out) THEN out[j - acc.tail]
                    ELSE acc.canon[j]],
       tail  |-> acc.tail + Len(out),
       axis  |-> axis,
       power |-> [kept EXCEPT ![pole] = (@ + (m % 3) + 1) % 256]]

(* canonical: the moves in turn, and a last one of another axis.           *)
Canonical(moves) ==
  LET last == moves[Len(moves)] + 3
      sifted[i \in 0..(Len(moves) + 1)] ==
        IF i = 0 THEN [canon |-> Append(moves, last), tail |-> 0,
                       axis |-> 0, power |-> [k \in 0..1 |-> 0]]
        ELSE Sift(sifted[i - 1], i)
      end == sifted[Len(moves) + 1]
  IN  IF moves = <<>> THEN <<>> ELSE SubSeq(end.canon, 1, end.tail)

(* to_string, in the style U R2 F' or U1R2F3: a face, an amount and        *)
(* perhaps a blank for each move; trailing blanks are removed.             *)
Amounts(style) == IF style = "fixed" THEN <<"1", "2", "3">> ELSE <<Blank, "2", "'">>
Width(style)   == IF style = "fixed" THEN 2 ELSE 3

Letter(moves, style, k) ==
  LET m     == moves[((k - 1) \div Width(style)) + 1]
      place == (k - 1) % Width(style)
  IN  CASE place = 0 -> Upper[(m \div 3) + 1]
        [] place = 1 -> Amounts(style)[(m % 3) + 1]
        [] OTHER     -> Blank

Written(moves, style) ==
  LET all   == 1..(Width(style) * Len(moves))
      solid == {k \in all : Letter(moves, style, k) # Blank}
      size  == IF solid = {} THEN 0 ELSE CHOOSE k \in solid : \A l \in solid : l <= k
  IN  [k \in 1..size |-> Letter(moves, style, k)]

=============================================================================
