----------------------------- MODULE LineSolver -----------------------------
(***************************************************************************)
(* What a worker does with a line (the lambda of solver(),                 *)
(* src/src/vc-optimal.cpp): the moves are read and applied to a solved     *)
(* cube, which is inverted on demand and solved, and the solution is       *)
(* brought into its canonical order and printed.  The threads around this  *)
(* are in SolverPool.                                                      *)
(***************************************************************************)
EXTENDS OptimalSearch, MoveSequence

CONSTANTS
  Lines,    (* lines of moves                                              *)
  Invert,   (* Invert[p]: the inverse of position p                        *)
  Styles    (* --style: "singmaster" or "fixed"                            *)

ASSUME LineAssumption ==
  /\ \A line \in Lines : \A k \in DOMAIN Parse(line) : Parse(line)[k] \in Turns
  /\ Invert \in [Pos -> Pos]
  /\ Styles \subseteq {"singmaster", "fixed"}

VARIABLES
  line,     (* the line that is read                                       *)
  size,     (* length of the solution as it is printed, -1 before          *)
  printed   (* the solution as it is printed                               *)

lineVars == <<vars, line, size, printed>>

FromMoves(text) == Apply(Solved, Parse(text))

LineInit ==
  /\ line \in Lines
  /\ \E c \in {FromMoves(line), Invert[FromMoves(line)]} : start = c
  /\ Init
  /\ size = -1
  /\ printed = <<>>

Solving == (Deepen \/ ToQueue \/ QueuePass \/ GiveUp) /\ UNCHANGED <<line, size, printed>>

PrintLine ==
  /\ phase = "done"
  /\ size = -1
  /\ size' = Len(Canonical(answer))
  /\ \E style \in Styles : printed' = Written(Canonical(answer), style)
  /\ UNCHANGED <<vars, line>>

Printed == size # -1 /\ UNCHANGED lineVars

LineNext == Solving \/ PrintLine \/ Printed

LineSpec == LineInit /\ [][LineNext]_lineVars

-----------------------------------------------------------------------------
(* A printed solution can be read back, with the sloppy grammar of the     *)
(* input, and it still solves the cube, in as many turns as are announced. *)
(* The search adds turns at both ends and the queue puts others in front,  *)
(* so that the order of opposite faces may have to be changed where the    *)
(* parts meet; bringing them into order neither drops nor merges a turn.   *)
PrintedSolves ==
  size # -1 /\ Dist[start] <= limit =>
    LET read == Parse(printed)
    IN  /\ Apply(start, read) = Solved
        /\ Len(read) = size /\ size = Len(answer)

(* Equal answers are printed alike: of neighbouring turns of opposite      *)
(* faces the one of U, R or F comes first, wherever the parts of the       *)
(* search met.                                                             *)
PrintedInOrder ==
  LET read == Parse(printed)
  IN  \A k \in 1..(Len(read) - 1) : read[k + 1] \in Followers(Face(read[k]))

=============================================================================
