----------------------------- MODULE CubeInput -----------------------------
(***************************************************************************)
(* How a line becomes a cube (src/src/cube.cpp and the part of solver() in *)
(* src/src/vc-optimal.cpp that calls it).  A line is moves, a position in  *)
(* Reid's notation or cycles in Speffz letters.                            *)
(*                                                                         *)
(* The words of Reid's notation are sequences of faces; the letters of     *)
(* Speffz are numbers from 0, in one case or the other.  Characters that   *)
(* mean nothing are kept where the code passes over them.                  *)
(***************************************************************************)
EXTENDS CubeCoordinates, MoveSequence

CONSTANTS
  Lines     (* the lines that may be on standard input                     *)

(* A letter of Speffz, a dot, or something that is passed over.            *)
Signs == [case : {"upper", "lower", "dot", "none"}, k : 0..23]

(* format: "moves", "reid" or "speffz"; text: its characters, words or     *)
(* letters; buffers: --speffz-buffer, numbers of letters; inverse:         *)
(* --inverse; shows: a sequence of turns that the line describes, if known.*)
ASSUME LineAssumption ==
  \A l \in Lines : /\ DOMAIN l = {"format", "text", "buffers", "inverse", "shows"}
                   /\ l.format \in {"moves", "reid", "speffz"}
                   /\ l.inverse \in BOOLEAN
                   /\ l.format = "moves"  => l.text \in Seq(STRING)
                   /\ l.format = "speffz" => l.text \in Seq(Signs)

NoLine == [format |-> "none"]

VARIABLES
  phase,    (* "idle", "reading", "parsed", and then "search"              *)
  line,     (* the line                                                    *)
  taken,    (* how much of it has been read                                *)
  reader,   (* the variables of the function that reads it                 *)
  cube      (* what it returned                                            *)

inputVars == <<phase, line, taken, reader, cube>>

Put(lane, slot, byte) == [i \in 1 .. Len(lane) |-> IF i = slot + 1 THEN byte ELSE lane[i]]

-----------------------------------------------------------------------------
(* Reid: the names of the cubies, from which a word is a rotation, and the *)
(* order in which the places are listed.  Place 15 belongs to no cubie.    *)
EdgeNames == << <<"U","R">>, <<"U","F">>, <<"U","L">>, <<"U","B">>, <<"D","R">>, <<"D","F">>,
                <<"D","L">>, <<"D","B">>, <<"F","R">>, <<"F","L">>, <<"B","L">>, <<"B","R">> >>
CornerNames == << <<"U","F","R">>, <<"U","L","F">>, <<"U","B","L">>, <<"U","R","B">>,
                  <<"D","R","F">>, <<"D","F","L">>, <<"D","L","B">>, <<"D","B","R">> >>
E_MAP == <<1, 0, 3, 2, 5, 4, 7, 6, 8, 9, 11, 10, 15>>
C_MAP == <<0, 3, 2, 1, 4, 5, 6, 7, 15>>

Rotated(name, o) == [j \in 1 .. Len(name) |-> name[((j - 1 + o) % Len(name)) + 1]]
Readings(names, word) ==
  {p \in (0 .. Len(names) - 1) \X (0 .. Len(word) - 1) : Rotated(At(names, p[1]), p[2]) = word}

ReidStart ==
  [c |-> Identity, e_map |-> E_MAP, c_map |-> C_MAP,
   edges_todo |-> EdgePlaces, corners_todo |-> CornerPlaces,
   eorient_sum |-> 0, corient_sum |-> 0]

Slot(map)  == IF map = <<>> THEN 0 ELSE Head(map)
Rest(map)  == IF map = <<>> THEN <<>> ELSE Tail(map)

(* One word; what is no name of a cubie is passed over.                    *)
ReidWord(r, word) ==
  LET readings == IF Len(word) = 2 THEN Readings(EdgeNames, word)
                  ELSE IF Len(word) = 3 THEN Readings(CornerNames, word) ELSE {}
      cubie == (CHOOSE p \in readings : TRUE)[1]
      o     == (CHOOSE p \in readings : TRUE)[2]
  IN  CASE readings = {} -> r
        [] readings # {} /\ Len(word) = 2 ->
             [r EXCEPT !.c.ev = Put(@, Slot(r.e_map), Byte(cubie, o)),
                       !.e_map = Rest(@),
                       !.edges_todo = SymDiff(@, {cubie}),
                       !.eorient_sum = @ + o]
        [] readings # {} /\ Len(word) = 3 ->
             [r EXCEPT !.c.cv = Put(@, Slot(r.c_map), Byte(cubie, o)),
                       !.c_map = Rest(@),
                       !.corners_todo = SymDiff(@, {cubie}),
                       !.corient_sum = @ + o]

(* Defect: the orientations of the corners are not checked.                *)
MutReidAccepts(r) ==
  /\ r.edges_todo = {} /\ r.corners_todo = {}
  /\ r.e_map = <<15>> /\ r.c_map = <<15>>
  /\ r.eorient_sum % 2 = 0
  /\ Parity(r.c) = 0

(* Each cubie once, a legal orientation and a legal permutation.           *)
ReidAccepts(r) ==
  /\ r.edges_todo = {} /\ r.corners_todo = {}
  /\ r.e_map = <<15>> /\ r.c_map = <<15>>
  /\ r.eorient_sum % 2 = 0 /\ r.corient_sum % 3 = 0
  /\ Parity(r.c) = 0

ReidResult(r) == IF ReidAccepts(r) THEN r.c ELSE Identity

(* to_reid.                                                                *)
ToReid(c) ==
  LET word(names, byte) == Rotated(At(names, Cubie(byte)), Twist(byte))
  IN  [i \in 1..12 |-> word(EdgeNames, At(c.ev, E_MAP[i]))]
        \o [i \in 1..8 |-> word(CornerNames, At(c.cv, C_MAP[i]))]

-----------------------------------------------------------------------------
(* Speffz: the place and the orientation of the sticker of each letter.    *)
c_map == <<2, 3, 0, 1, 2, 1, 5, 6, 1, 0, 4, 5, 0, 3, 7, 4, 3, 2, 6, 7, 5, 4, 7, 6>>
e_map == <<3, 0, 1, 2, 2, 9, 6, 10, 1, 8, 5, 9, 0, 11, 4, 8, 3, 10, 7, 11, 5, 4, 7, 6>>
c_ori == <<0, 0, 0, 0, 1, 2, 1, 2, 1, 2, 1, 2, 1, 2, 1, 2, 1, 2, 1, 2, 0, 0, 0, 0>>
e_ori == <<0, 0, 0, 0, 1, 1, 1, 1, 1, 0, 1, 0, 1, 1, 1, 1, 1, 0, 1, 0, 0, 0, 0, 0>>

Dot == [case |-> "dot", k |-> 0]

SpeffzStart == [c |-> Identity, parity_ok |-> TRUE, parse_edges |-> FALSE]

(* A buffer that is no letter is the first one.                            *)
Buffer(k) == IF k \in 0..23 THEN k ELSE 0

Turning(lane, place, n, modulus) ==
  Put(lane, place, Byte(Cubie(At(lane, place)), (Twist(At(lane, place)) + n) % modulus))
Swapping(lane, p, q) == Put(Put(lane, p, At(lane, q)), q, At(lane, p))

(* Uppercase: the cubie is turned in its place, that of the buffer back.   *)
EdgeInPlace(ev, k, buffer) ==
  Turning(Turning(ev, At(e_map, buffer), 1, 2), At(e_map, k), 1, 2)
CornerInPlace(cv, k, buffer) ==
  Turning(Turning(cv, At(c_map, buffer), At(c_ori, k), 3), At(c_map, k), 3 - At(c_ori, k), 3)

(* Defect: only one of the two edges is turned.                            *)
MutEdgeCycle(ev, k, buffer) ==
  LET ori == At(e_ori, k) + At(e_ori, buffer)
  IN  Turning(Swapping(ev, At(e_map, buffer), At(e_map, k)), At(e_map, buffer), ori, 2)

(* Lowercase: the stickers of letter and buffer change places.             *)
EdgeCycle(ev, k, buffer) ==
  LET ori == At(e_ori, k) + At(e_ori, buffer)
  IN  Turning(Turning(Swapping(ev, At(e_map, buffer), At(e_map, k)),
                      At(e_map, buffer), ori, 2), At(e_map, k), ori, 2)
CornerCycle(cv, k, buffer) ==
  LET ori == At(c_ori, k) + 3 - At(c_ori, buffer)
  IN  Turning(Turning(Swapping(cv, At(c_map, buffer), At(c_map, k)),
                      At(c_map, k), ori, 3), At(c_map, buffer), 6 - ori, 3)

(* One character.                                                          *)
SpeffzLetter(r, ch, buffers) ==
  LET corner == Buffer(buffers[1])
      edge   == Buffer(buffers[2])
      other(map, buffer) == At(map, ch.k) # At(map, buffer)
  IN  CASE ch.case = "dot" -> [r EXCEPT !.parse_edges = TRUE]
        [] ch.case = "upper" /\ r.parse_edges ->
             [r EXCEPT !.c.ev = EdgeInPlace(@, ch.k, edge)]
        [] ch.case = "upper" /\ ~r.parse_edges ->
             [r EXCEPT !.c.cv = CornerInPlace(@, ch.k, corner)]
        [] ch.case = "lower" /\ r.parse_edges ->
             [r EXCEPT !.c.ev = EdgeCycle(@, ch.k, edge),
                       !.parity_ok = (@ # other(e_map, edge))]
        [] ch.case = "lower" /\ ~r.parse_edges ->
             [r EXCEPT !.c.cv = CornerCycle(@, ch.k, corner),
                       !.parity_ok = (@ # other(c_map, corner))]
        [] ch.case = "none" -> r

SpeffzResult(r) == IF r.parity_ok THEN Invert(r.c) ELSE Identity

-----------------------------------------------------------------------------
InputInit ==
  /\ phase = "idle"
  /\ line = NoLine
  /\ taken = 0
  /\ reader = [c |-> Identity]
  /\ cube = Identity

(* fgets, and the branch of its format.                                    *)
ReadLine ==
  /\ phase = "idle"
  /\ phase' = "reading"
  /\ line' \in Lines
  /\ reader' = CASE line'.format = "moves"  -> [c |-> Identity, moves |-> Parse(line'.text)]
                 [] line'.format = "reid"   -> ReidStart
                 [] line'.format = "speffz" -> SpeffzStart
  /\ UNCHANGED <<taken, cube>>

Reading(format) == phase = "reading" /\ line.format = format

(* from_moveseq: one turn.                                                 *)
ReadMove ==
  /\ Reading("moves")
  /\ taken < Len(reader.moves)
  /\ reader' = [reader EXCEPT !.c = Move(@, reader.moves[taken + 1])]
  /\ taken' = taken + 1
  /\ UNCHANGED <<phase, line, cube>>

ReadWord ==
  /\ Reading("reid")
  /\ taken < Len(line.text)
  /\ reader' = ReidWord(reader, line.text[taken + 1])
  /\ taken' = taken + 1
  /\ UNCHANGED <<phase, line, cube>>

ReadLetter ==
  /\ Reading("speffz")
  /\ taken < Len(line.text)
  /\ reader' = SpeffzLetter(reader, line.text[taken + 1], line.buffers)
  /\ taken' = taken + 1
  /\ UNCHANGED <<phase, line, cube>>

(* from_moves, from_reid or from_speffz returns.                           *)
ReadEnd ==
  /\ phase = "reading"
  /\ taken = Len(IF line.format = "moves" THEN reader.moves ELSE line.text)
  /\ cube' = CASE line.format = "moves"  -> reader.c
               [] line.format = "reid"   -> ReidResult(reader)
               [] line.format = "speffz" -> SpeffzResult(reader)
  /\ phase' = "parsed"
  /\ UNCHANGED <<line, taken, reader>>

=============================================================================
