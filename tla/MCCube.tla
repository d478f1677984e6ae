------------------------------- MODULE MCCube -------------------------------
(***************************************************************************)
(* Lines for CubeViews, most of them about the positions of the tests of   *)
(* the code (src/tests/CubeTest.cpp): a cube within a cube, the superflip, *)
(* corners twisted in place, and the turn of the front by one quarter.     *)
(***************************************************************************)
EXTENDS CubeViews

CubeInCube == <<6, 12, 6, 2, 3, 0, 7, 13, 2, 14, 15, 11, 17, 13, 0>>
Superflip  == <<0, 4, 6, 15, 3, 16, 3, 1, 12, 16, 3, 2, 11, 4, 6, 5, 12, 16, 1, 7>>
Lopsided   == SubSeq(Superflip, 1, 13)
FrontTurn  == <<6>>

Line(format, text, shows) ==
  [format |-> format, text |-> text, buffers |-> <<0, 0>>, inverse |-> FALSE, shows |-> shows]

-----------------------------------------------------------------------------
Moved(seq, style) == Line("moves", Written(seq, style), seq)

(* A position without symmetry is turned.                                  *)
Walked == {[Moved(Lopsided, "fixed") EXCEPT !.inverse = TRUE]}
MovesLines == Walked \union
  {Moved(<<>>, "fixed"), Moved(Superflip, "fixed"), Moved(CubeInCube, "singmaster")}

-----------------------------------------------------------------------------
(* The words of a position, read off its stickers.                         *)
WordsOf(pic) ==
  LET words(names, places) == [i \in 1 .. Len(names) |->
        LET name == At(names, places[i])
        IN  [j \in 1 .. Len(name) |-> pic[Facelet(name, j - 1)][1]]]
  IN  words(EdgeNames, E_MAP) \o words(CornerNames, C_MAP)

Shuffled(seq) == FoldLeft(Turned, P!Home, seq)
CubeInCubeWords ==
  << <<"U","F">>, <<"U","R">>, <<"F","L">>, <<"F","D">>, <<"B","R">>, <<"B","U">>, <<"D","B">>,
     <<"D","L">>, <<"F","R">>, <<"R","D">>, <<"L","U">>, <<"B","L">>, <<"U","F","R">>,
     <<"F","U","L">>, <<"F","L","D">>, <<"F","D","R">>, <<"B","U","R">>, <<"B","R","D">>,
     <<"D","L","B">>, <<"B","L","U">> >>

(* Words changed by hand: exchanged, turned on, dropped, repeated, added.  *)
W == CubeInCubeWords
Swap(words, i, j) == [words EXCEPT ![i] = words[j], ![j] = words[i]]
TurnOn(words, i)  == [words EXCEPT ![i] = Rotated(@, 1)]
Edited ==
  { Swap(W, 1, 5), Swap(W, 14, 20), Swap(Swap(W, 2, 9), 13, 18), Swap(Swap(W, 3, 4), 11, 12),
    TurnOn(W, 6), TurnOn(TurnOn(W, 6), 1), TurnOn(W, 15), TurnOn(TurnOn(W, 13), 20),
    TurnOn(TurnOn(TurnOn(W, 13), 16), 20), TurnOn(TurnOn(W, 12), 13),
    Tail(W), [W EXCEPT ![2] = W[1]], [W EXCEPT ![19] = W[18]],
    [W EXCEPT ![13] = <<"U", "R", "F">>], W \o << W[7] >>, W \o << W[14], W[14] >>,
    [Tail(W) EXCEPT ![1] = W[1]] \o << W[1], W[1] >> }
Tidy ==
  { CubeInCubeWords,
    SubSeq(W, 13, 20) \o SubSeq(W, 1, 12),
    << <<"U", "D">> >> \o SubSeq(W, 1, 7) \o << <<"F">>, <<"F", "U", "D">> >> \o SubSeq(W, 8, 20) }
ReidLines ==
  {Line("reid", words, CubeInCube) : words \in Tidy}
    \union {Line("reid", words, <<>>) : words \in Edited}
    \union {Line("reid", WordsOf(Shuffled(seq)), seq) : seq \in {Superflip, FrontTurn}}

-----------------------------------------------------------------------------
Letters(case, numbers) == [i \in DOMAIN numbers |-> [case |-> case, k |-> numbers[i]]]
All == [i \in 1..24 |-> i - 1]
Junk == << [case |-> "none", k |-> 0] >>
Buffered(text, corner, edge, shows) ==
  [Line("speffz", text, shows) EXCEPT !.buffers = <<corner, edge>>]

(* Every letter of either case for corners and for edges, with every one   *)
(* of them, and with something else, as the buffer.                        *)
Alphabets ==
  {Buffered(dot \o Letters(case, All), b, b, <<>>) :
     dot \in {<<>>, <<Dot>>}, case \in {"lower", "upper"}, b \in {-31} \union 0..24}

(* Lines of the tests and the position they are said to be, and some that  *)
(* hold both cases.                                                        *)
Tested ==
  { Buffered(Letters("lower", <<11, 14, 15, 1, 8, 15>>) \o <<Dot>> \o Letters("lower", <<11, 14, 19, 4, 20, 19>>) \o Junk, 0, 0, CubeInCube),
    Buffered(<<Dot>> \o Letters("upper", <<1, 2, 3, 10, 14, 18, 6, 9, 19, 5, 7>>), 0, 0, Superflip),
    Buffered(<<Dot>> \o Letters("lower", <<16, 1, 12, 2, 8, 3, 4, 9, 15, 13, 19, 17, 7, 5, 11, 10, 20, 14, 21, 6, 23, 18, 22>>), 0, 0, Superflip),
    Buffered(Letters("lower", <<15, 2, 5, 20, 15>>) \o <<Dot>> \o Letters("lower", <<15, 2, 5>>), 0, 20, FrontTurn),
    Buffered(Letters("lower", <<15, 2, 5, 20, 15>>) \o <<Dot>> \o Letters("lower", <<9, 8, 11>>), 0, 10, FrontTurn),
    Buffered(Letters("lower", <<12, 3, 6>>) \o <<Dot>> \o Letters("lower", <<9, 8, 11, 10, 9>>), 21, 0, FrontTurn),
    Buffered(Letters("lower", <<2, 5, 20>>) \o <<Dot>> \o Letters("lower", <<9, 8, 11, 10, 9>>), 15, 0, FrontTurn),
    Buffered(Letters("upper", <<12, 13, 5, 15, 14, 6, 7>>) \o <<Dot>>, 0, 0, <<>>),
    Buffered(Letters("lower", <<1, 16, 2, 9, 3, 8, 10, 15, 11, 6, 19, 14, 18, 7>>) \o <<Dot>>, 0, 0, <<>>) }
Mixed ==
  { Buffered(Letters("lower", <<15, 2, 5>>) \o Letters("upper", <<12, 3, 6>>) \o Letters("lower", <<9, 8, 11>>)
               \o <<Dot>> \o Letters("upper", <<2, 5, 20>>) \o <<Dot>> \o Letters("lower", <<12, 3, 6>>)
               \o Letters("upper", <<1, 2, 3, 10, 14, 18, 6, 9, 19, 5, 7>>) \o Letters("lower", <<15, 2, 5>>), b, 23 - b, <<>>) : b \in {2, 9, 21} }
SpeffzLines == Alphabets \union Tested \union Mixed

-----------------------------------------------------------------------------
MCLines == MovesLines \union ReidLines \union SpeffzLines

(* One variant for each way to have an edge coordinate.                    *)
MCVariants == { [ep |-> "EP3", eo |-> "EO4"], [ep |-> "EP2", eo |-> "EO8"], [ep |-> "EP1", eo |-> "EO12"] }

MCTurns  == Moves
MCQueued == { <<0, 3, 6, 16>>, <<13, 8, 17, 9>> }

=============================================================================
