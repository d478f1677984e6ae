---------------------------- MODULE MCTableStore ----------------------------
(***************************************************************************)
(* Instances of TableStore: two or three processes and tables of two rows, *)
(* so that a table can be empty, short, holed or complete.                 *)
(***************************************************************************)
EXTENDS TableStore, FiniteSets

CONSTANTS p1, p2, p3

TwoProcs   == {p1, p2}
ThreeProcs == {p1, p2, p3}

MCInodes == 1..(Cardinality(Procs) + 3)

Situation(sharing, overlap, trouble, saved) ==
  [shm |-> sharing, overlap |-> overlap, kills |-> trouble, faults |-> trouble, saved |-> saved]

(* One after the other, killed and short of resources, after all kinds of  *)
(* table file.                                                             *)
Trouble == {Situation({p1}, FALSE, TRUE, saved) : saved \in {{}, {1}, AllRows}}

(* Undisturbed: a table that was saved and is shared, by invocations that  *)
(* follow each other or overlap, or one that several generate at once.     *)
Quiet == {Situation({p1}, FALSE, FALSE, AllRows), Situation({p1}, TRUE, FALSE, AllRows),
          Situation({}, TRUE, FALSE, {})}

Mixed == Trouble \union Quiet

(* The first invocation has --shm; the first two invocations overlap.      *)
SharedFirst  == {Situation({p1}, FALSE, FALSE, {})}
Simultaneous == {Situation({}, TRUE, FALSE, {})}

=============================================================================
