----------------------------- MODULE MCEdgeScan -----------------------------
(***************************************************************************)
(* Turns for EdgeScan: a step to the next equatorial place, over the end   *)
(* of the range as well; a reversal with a change of orientation and one   *)
(* with a change of combination; a step to the next stripe with the next   *)
(* permutation.  With their inverses they reach both ends of the stripes.  *)
(***************************************************************************)
EXTENDS EdgeScan, SequencesExt

MCMoves == 0..5
Shift(e4, n) == (e4 + n) % N_E4COMB
MCImage == [m \in MCMoves |-> [c \in Config |->
  CASE m = 0 -> [c EXCEPT !.e4 = Shift(@, 1)]
    [] m = 1 -> [c EXCEPT !.e4 = Shift(@, 494)]
    [] m = 2 -> [c EXCEPT !.e4 = 494 - @, !.eo = N_EO - 1 - @]
    [] m = 3 -> [c EXCEPT !.e4 = Shift(@, 61), !.p = (@ + 1) % N_E4PERM]
    [] m = 4 -> [c EXCEPT !.e4 = Shift(@, 434), !.p = (@ + N_E4PERM - 1) % N_E4PERM]
    [] m = 5 -> [c EXCEPT !.e4 = Shift(62 - @, 495), !.d = N_EUD4COMB - 1 - @]]]

(* Distances found by spreading from the identity.                         *)
Spread(s, n) ==
  LET next == {MCImage[m][b] : m \in MCMoves, b \in s.last} \ DOMAIN s.near
  IN  [near |-> s.near @@ [c \in next |-> n], last |-> next]
MCDist == FoldLeft(Spread, [near |-> Identity :> 0, last |-> {Identity}], [n \in 1..90 |-> n]).near

=============================================================================
