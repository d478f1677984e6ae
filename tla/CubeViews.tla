----------------------------- MODULE CubeViews -----------------------------
(***************************************************************************)
(* A line becomes a cube, and the cube six views that the search turns at  *)
(* either end (src/src/nxsolve.h, src/src/nxsolve.cpp).  What is checked   *)
(* here is what the abstract puzzles of OptimalSearch, SymmetryGraph and   *)
(* EdgeScan take for granted of the real one.                              *)
(***************************************************************************)
EXTENDS CubeInput

CONSTANTS
  Variants,   (* tables: [ep, eo]                                          *)
  Turns,      (* the turns that are tried                                  *)
  Queued,     (* sequences of turns of the queue of the search             *)
  Searched,   (* the lines whose cube is turned                            *)
  MaxSteps    (* how often                                                 *)

ASSUME ViewsAssumption ==
  /\ Variants \subseteq [ep : {"EP1", "EP2", "EP3", "EP4"}, eo : {"EO4", "EO8", "EO12"}]
  /\ Turns \subseteq Moves /\ Queued \subseteq Seq(Moves)
  /\ Searched \subseteq Lines
  /\ MaxSteps \in Nat

VARIABLES
  views,    (* the six views, <<>> before there are any                    *)
  parent,   (* the views that the last step started from, which the search *)
            (* comes back to                                               *)
  made      (* made[i]: the i-th turn, or turns, and at which end          *)

vars == <<inputVars, views, parent, made>>

Init == InputInit /\ views = <<>> /\ parent = <<>> /\ made = <<>>

Input ==
  /\ ReadLine \/ ReadMove \/ ReadWord \/ ReadLetter \/ ReadEnd
  /\ UNCHANGED <<views, parent, made>>

(* The cube is inverted if --inverse is given, and handed to solve.        *)
Solve ==
  /\ phase = "parsed"
  /\ views' = Cube6(IF line.inverse THEN Invert(cube) ELSE cube)
  /\ phase' = "search"
  /\ UNCHANGED <<line, taken, reader, cube, parent, made>>

Step(end, seq) ==
  /\ phase = "search"
  /\ line \in Searched /\ Len(made) < MaxSteps
  /\ made' = Append(made, [end |-> end, turns |-> seq])
  /\ parent' = views
  /\ UNCHANGED inputVars

(* search: a turn after the others, or before them.                        *)
TurnForward(m) == Step("forward", <<m>>) /\ views' = Move6(views, m)
TurnReverse(m) == Step("reverse", <<m>>) /\ views' = Premove6(views, m)

(* queue_search: a position of the queue, which init made by turns.        *)
QueueCube(seq) ==
  LET after[k \in 0..Len(seq)] ==
        IF k = 0 THEN Cube6(Identity) ELSE Move6(after[k - 1], seq[k])
  IN  after[Len(seq)]
FromQueue(seq) == Step("forward", seq) /\ views' = Product6(views, QueueCube(seq))

Done ==
  /\ phase = "search"
  /\ line \notin Searched \/ Len(made) = MaxSteps
  /\ UNCHANGED vars

Next ==
  \/ Input \/ Solve \/ Done
  \/ \E m \in Turns : TurnForward(m) \/ TurnReverse(m)
  \/ \E seq \in Queued : FromQueue(seq)

Spec == Init /\ [][Next]_vars

-----------------------------------------------------------------------------
(* The stickers of a cube: a place shows on its j-th face the sticker that *)
(* its cubie has as many faces further on as it is turned.                 *)
FacesOf(name) == {name[j] : j \in DOMAIN name}
Facelet(name, j) == <<name[(j % Len(name)) + 1], FacesOf(name)>>
Shown(lane, names, x) ==
  LET i == CHOOSE k \in 1 .. Len(lane) : FacesOf(names[k]) = x[2]
      j == CHOOSE k \in 0..2 : Facelet(names[i], k) = x
  IN  Facelet(At(names, Cubie(lane[i])), j + Twist(lane[i]))

Picture(c) ==
  [x \in {Facelet(name, j) : name \in FacesOf(EdgeNames), j \in 0..1}
          \union {Facelet(name, j) : name \in FacesOf(CornerNames), j \in 0..2} |->
     IF Cardinality(x[2]) = 2 THEN Shown(c.ev, EdgeNames, x) ELSE Shown(c.cv, CornerNames, x)]

P == INSTANCE StickerCube WITH pic <- Picture(views[1])

FaceName(m) == << "U", "R", "F", "D", "L", "B" >>[Face(m) + 1]
Amount(m)   == (m % 3) + 1
Turned(pic, m) == P!AfterTurn(pic, FaceName(m), Amount(m))

(* The cubes that can be reached by turns.                                 *)
Legal(c) ==
  /\ {Cubie(c.ev[i]) : i \in 1..12} = EdgePlaces
  /\ {Cubie(c.cv[i]) : i \in 1..8} = CornerPlaces
  /\ Parity(c) = 0
  /\ SumFunction([i \in 1..12 |-> Twist(c.ev[i])]) % 2 = 0
  /\ SumFunction([i \in 1..8 |-> Twist(c.cv[i])]) % 3 = 0

(* What the letters of Speffz do to the stickers, corners before the dot.  *)
Performed(pic, text, buffers) ==
  LET Named(edges, k) == IF edges THEN P!EdgeNamed(k) ELSE P!CornerNamed(k)
      Act(acc, ch) ==
        LET buffer == Named(acc.edges, Buffer(buffers[IF acc.edges THEN 2 ELSE 1]))
        IN  CASE ch.case = "dot"   -> [acc EXCEPT !.edges = TRUE]
              [] ch.case = "lower" -> [acc EXCEPT !.pic = P!Cycled(@, buffer, Named(acc.edges, ch.k))]
              [] ch.case = "upper" -> [acc EXCEPT !.pic = P!InPlace(@, buffer, Named(acc.edges, ch.k))]
              [] ch.case = "none"  -> acc
  IN  FoldLeft(Act, [pic |-> pic, edges |-> FALSE], text).pic

-----------------------------------------------------------------------------
(* Every cube of each coordinate has it: the numbering of combinations and *)
(* permutations, the 16-bit reciprocals and the parities that the setters  *)
(* make up agree with the getters.  Coordinates of whole permutations are  *)
(* tried at intervals.                                                     *)
CoordinatesInvert ==
  phase = "idle" =>
    /\ \A k \in 0..2186 : LET cv == SetCornerOrient(SetCornerPerm(40319), k)
                         IN  /\ CornerOrient(cv) = k /\ GetPerm(cv) = 40319
                             /\ SumFunction([i \in 1..8 |-> Twist(cv[i])]) % 3 = 0
    /\ \A k \in 0..69  : GetCorner4Comb(SetCorner4Comb(k)) = k
    /\ \A k \in 0..69  : GetEdgeUD4Comb(SetEdgeUD4Comb(k)) = k
    /\ \A k \in 0..494 : GetEdge4Comb(SetEdge4Comb(k)) = k
    /\ \A k \in 0..23  : GetEdge4Perm(SetEdge4Perm(k)) = k
    /\ \A e4 \in {0, 99, 494} : LET ev == SetEdge4Comb(e4) IN
         /\ \A k \in 0..2047 : GetEdgeOrient(SetEdgeOrient(ev, k)) = k
         /\ \A k \in 0..255  : GetEdge8Orient(SetEdge8Orient(ev, k)) = k
         /\ \A k \in 0..15   : GetEdge4Orient(SetEdge4Orient(ev, k)) = k
    /\ \A k \in {983 * n : n \in 0..41}     : GetPerm(SetCornerPerm(k)) = k
    /\ \A k \in {9580031 * n : n \in 0..49} : GetPerm(SetEdgePerm(k)) = k

(* What a symmetry does to the orientation and to the combination of the   *)
(* corners, as CornerIndex takes it, and what its constructor comes to.    *)
Corients == 0..2186
C4combs  == 0..69
ConjOrient == SubSeq([i \in 1..16 |-> SubSeq([j \in 1..2187 |->
  CornerOrient(CornerConjugate(SetCornerOrient(Identity.cv, j - 1), i - 1))], 1, 2187)], 1, 16)
ConjComb == SubSeq([i \in 1..16 |-> SubSeq([j \in 1..70 |->
  GetCorner4Comb(CornerConjugate(SetCorner4Comb(j - 1), i - 1))], 1, 70)], 1, 16)

OrientRep(o) == Min({At(At(ConjOrient, s), o) : s \in 0..15})
ToRep(o)     == {s \in 0..15 : At(At(ConjOrient, s), o) = OrientRep(o)}
CombRep(c, syms) == Min({At(At(ConjComb, s), c) : s \in syms})
RepCombs(o)  == LET syms == ToRep(o) IN {c \in C4combs : CombRep(c, syms) = c}
Offsets(o)   ==
  LET syms == ToRep(o)
      rows == RepCombs(OrientRep(o))
  IN  [c \in C4combs |->
         LET c_s == CombRep(c, syms)
         IN  << Cardinality({d \in rows : d < c_s}),
                Min({s \in syms : At(At(ConjComb, s), c) = c_s}) >>]

(* The index of the rows fits its arrays: orientation and combination go   *)
(* their own ways under the sixteen symmetries, raw and packed orientations*)
(* have one order, and so there are as many rows as N_CORNER_SYM says and  *)
(* as many different arrays of offsets as there are places for them.       *)
IndexFits ==
  phase = "idle" =>
    /\ \A o \in {97 * n : n \in 0..22}, c \in C4combs, s \in 0..15 :
         LET cv == CornerConjugate(CornerRep(o, c), s)
         IN  CornerOrient(cv) = At(At(ConjOrient, s), o) /\ GetCorner4Comb(cv) = At(At(ConjComb, s), c)
    /\ \A o \in 1..2186 :
         CornerOrientRaw(CornerRep(o - 1, 0)) < CornerOrientRaw(CornerRep(o, 0))
    /\ MapThenSumSet(LAMBDA o : Cardinality(RepCombs(o)),
                     {o \in Corients : OrientRep(o) = o}) = N_CORNER_SYM
    /\ Cardinality({Offsets(o) : o \in Corients}) = N_UNIQUE_OFFSET_SYM

(* A position in Reid's notation is taken for what its words say, place by *)
(* place, or not at all; one read off the puzzle is taken for that puzzle; *)
(* and nothing insoluble gets to the search, which would not find an end.  *)
ReidReadsBack ==
  phase = "parsed" /\ line.format = "reid" =>
    LET Words(n, names) == SelectSeq(line.text,
          LAMBDA word : Len(word) = n /\ Readings(names, word) # {})
    IN  /\ Legal(cube)
        /\ cube # Identity => ToReid(cube) = Words(2, EdgeNames) \o Words(3, CornerNames)
        /\ line.shows # <<>> => Picture(cube) = FoldLeft(Turned, P!Home, line.shows)

(* Letters of Speffz are read as a solution: whoever carries out those     *)
(* read so far, sticker by sticker, on the cube read so far, solves it.  A *)
(* line that would need an odd number of exchanges is no cube.             *)
SpeffzSolves ==
  line.format = "speffz" /\ phase \in {"reading", "parsed"} =>
    /\ Performed(Picture(Invert(reader.c)), SubSeq(line.text, 1, taken), line.buffers) = P!Home
    /\ phase = "parsed" =>
         /\ Legal(cube)
         /\ cube # Identity => Performed(Picture(cube), line.text, line.buffers) = P!Home
         /\ line.shows # <<>> => Picture(cube) = FoldLeft(Turned, P!Home, line.shows)

(* The search turns the views one by one; they stay the views of one cube. *)
ViewsAgree == phase = "search" => views = Cube6(views[1])

(* The cube of a line of moves, and then that of the search, moves like    *)
(* the puzzle: a turn moves the stickers of its face, a premove is a turn  *)
(* made before all the others, a position of the queue several in a row.   *)
Stepped(end) == made # <<>> /\ Last(made).end = end

FollowsThePuzzle ==
  LET turns == Last(made).turns IN
  /\ phase = "parsed" /\ line.format = "moves" =>
       Picture(cube) = FoldLeft(Turned, P!Home, line.shows)
  /\ Stepped("forward") =>
       Picture(views[1]) = FoldLeft(Turned, Picture(parent[1]), turns)
  /\ Stepped("reverse") =>
       Picture(views[1]) = P!BeforeTurn(Picture(parent[1]), FaceName(turns[1]), Amount(turns[1]))

(* A turn leaves the entry of one inverse view where it was, a premove     *)
(* that of one view, in every table: its value is handed down the search   *)
(* instead of being looked up again.                                       *)
OneTurn == made # <<>> /\ Len(Last(made).turns) = 1

EntriesKept ==
  OneTurn =>
    LET kept == Axis(Last(made).turns[1]) + IF Stepped("forward") THEN 4 ELSE 1
    IN  \A variant \in Variants : Entry(views[kept], variant) = Entry(parent[kept], variant)

(* The generator turns one cube for all that share an entry.  The turned   *)
(* one has the coordinates of whatever it stands for, also through each of *)
(* the sixteen symmetries, so that entries have neighbours of their own.   *)
RepsMoveAlike ==
  OneTurn =>
    LET seen == Seen(parent[IF Stepped("forward") THEN 1 ELSE 4])
        m    == Last(made).turns[1]
    IN  \A variant \in Variants, s \in 0..15 :
          Coordinates(Move(seen, m), s, variant)
            = Coordinates(Move(Representative(seen, variant), m), s, variant)

=============================================================================
