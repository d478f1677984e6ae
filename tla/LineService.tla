---------------------------- MODULE LineService ----------------------------
(***************************************************************************)
(* What vc-optimal promises to the program that feeds it cubes: every line *)
(* it has accepted is answered exactly once, whether or not more input     *)
(* ever arrives; in ordered mode the answers come in the order of the      *)
(* lines.  No threads, locks or buffers.  SolverPool implements it.        *)
(***************************************************************************)
EXTENDS Integers, Sequences

CONSTANTS
  Lines,    (* bound on the number of input lines                          *)
  Modes     (* the values of the --ordered option                          *)

VARIABLES
  ordered,  (* the --ordered option                                        *)
  accepted, (* lines accepted so far; they are 0 .. accepted - 1           *)
  printed   (* the answers given, by line number                           *)

vars == <<ordered, accepted, printed>>

Init ==
  /\ ordered \in Modes
  /\ accepted = 0
  /\ printed = <<>>

Accept ==
  /\ accepted < Lines
  /\ accepted' = accepted + 1
  /\ UNCHANGED <<ordered, printed>>

Answer(i) ==
  /\ i < accepted
  /\ \A k \in 1..Len(printed) : printed[k] # i
  /\ ordered => i = Len(printed)
  /\ printed' = Append(printed, i)
  /\ UNCHANGED <<ordered, accepted>>

Next ==
  \/ Accept
  \/ \E i \in 0..(Lines - 1) : Answer(i)

(* No fairness of Accept: nobody promises more input.                      *)
Spec ==
  /\ Init
  /\ [][Next]_vars
  /\ \A i \in 0..(Lines - 1) : WF_vars(Answer(i))

=============================================================================
