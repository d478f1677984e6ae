--------------------------- MODULE PruneGenerator ---------------------------
(***************************************************************************)
(* The multi-threaded generation of an nxprune table                       *)
(* (src/src/nxprune_generator.h).                                          *)
(*                                                                         *)
(* The table has one row per corner symmetry coordinate.  A row is split   *)
(* into 16-byte stripes; a stripe holds two-bit entries, four to a byte,   *)
(* and in the low half of its first byte the least depth found in it.  The *)
(* generator makes one pass over the table per depth.  In a pass the       *)
(* worker threads share a list of pairs of rows that some move connects;   *)
(* under one mutex a thread claims a pair whose rows are not busy, expands *)
(* it without the mutex, and takes the mutex again to give the rows back.  *)
(*                                                                         *)
(* The puzzle is a parameter: positions, the moves between them and their  *)
(* distances are constants.  A member of Moves stands for a face turn      *)
(* combined with one of the self-symmetries of the goal row.               *)
(***************************************************************************)
EXTENDS Integers, FiniteSets

CONSTANTS
  Threads,    (* the workers of a pass                                     *)
  NoThread,   (* the owner of the mutex when it is free                    *)
  Rows,       (* corner symmetry coordinates                               *)
  Moves,      (* (turn, self-symmetry) combinations, in scan order         *)
  RowMove,    (* RowMove[m][r]: row of the representative of r moved by m  *)
  Pos,        (* entries of the table, in memory order                     *)
  RowOf,      (* RowOf[p]: the row of an entry                             *)
  StripeOf,   (* StripeOf[p]: the 16-byte stripe of an entry               *)
  OctetOf,    (* OctetOf[p]: the byte that holds an entry                  *)
  Image,      (* Image[m][p]: the entry reached from p by m                *)
  Solved,     (* the entry of the solved cube                              *)
  Dist,       (* Dist[p]: least number of moves from Solved to p           *)
  BASE        (* the base depth of the table                               *)

Stripes == {StripeOf[p] : p \in Pos}

(***************************************************************************)
(* BASE + 3 must fit the four bits of a pruning value and of the stripe    *)
(* minimum, whose value 15 means untouched.  Dist is pinned down as the    *)
(* distance in the graph of the moves: a move changes it by at most one,   *)
(* and every entry but the solved one is reached from one that is nearer.  *)
(***************************************************************************)
ASSUME ThreadAssumption == Threads # {} /\ NoThread \notin Threads
ASSUME BaseAssumption   == BASE \in 1..12
ASSUME TableAssumption  ==
  /\ Rows \subseteq Nat
  /\ Moves \subseteq Nat
  /\ Pos \subseteq Nat
  /\ RowMove \in [Moves -> [Rows -> Rows]]
  /\ Image \in [Moves -> [Pos -> Pos]]
  /\ RowOf \in [Pos -> Rows]
  /\ DOMAIN StripeOf = Pos
  /\ DOMAIN OctetOf = Pos
  /\ \A p, q \in Pos : OctetOf[p] = OctetOf[q] => StripeOf[p] = StripeOf[q]
  /\ \A p, q \in Pos : StripeOf[p] = StripeOf[q] => RowOf[p] = RowOf[q]
  /\ \A m \in Moves, p \in Pos : RowOf[Image[m][p]] = RowMove[m][RowOf[p]]
ASSUME DistAssumption ==
  /\ Solved \in Pos
  /\ Dist \in [Pos -> Nat]
  /\ \A p \in Pos : Dist[p] = 0 <=> p = Solved
  /\ \A m \in Moves, p \in Pos : Dist[Image[m][p]] <= Dist[p] + 1
  /\ \A q \in Pos \ {Solved} :
       \E p \in Pos, m \in Moves : Image[m][p] = q /\ Dist[q] = Dist[p] + 1

Unvisited == 3      \* two-bit code of an entry not reached yet
Untouched == 15     \* stripe minimum of a stripe with no reached entry
NeverDirty == 255   \* "dirty" value of a row with no reached entry

VARIABLES
  phase,      (* where main is: "prepare", "pass" or "generated"           *)
  depth,      (* the depth of the pass                                     *)
  table,      (* table[p]: the two-bit code of an entry                    *)
  stripeMin,  (* stripeMin[s]: low half of the first byte of a stripe      *)
  dirty,      (* dirty[r]: least depth at which row r may have a frontier  *)
  found,      (* number of entries reached                                 *)
  done,       (* pairs of rows that need no more work in this pass         *)
  busy,       (* rows some thread is working on                            *)
  mtx,        (* owner of the mutex                                        *)
  pc,         (* where each thread is                                      *)
  ok,         (* ok[t]: t claimed a pair in its current scan               *)
  ahead,      (* ahead[t]: pairs the scan of t has not come to yet         *)
  cur,        (* cur[t]: the pair t works on                               *)
  inverse,    (* inverse[t]: t is at the second direction of its pair      *)
  todo,       (* todo[t]: expansions (move, entry) left in this direction  *)
  target,     (* target[t]: the entry t is about to store to               *)
  latch,      (* latch[t]: the byte t loaded, spread over its entries      *)
  gained      (* gained[t]: entries t reached in its current pair          *)

mainVars   == <<phase, depth>>
tableVars  == <<table, stripeMin>>
sharedVars == <<dirty, found, done, busy>>
workVars   == <<cur, inverse, todo, target, latch, gained>>
vars == <<mainVars, tableVars, sharedVars, mtx, pc, ok, ahead, workVars>>

-----------------------------------------------------------------------------
(* The order of the neighbour set and of the loops over moves and stripes. *)
Before(x, y) == x[1] < y[1] \/ (x[1] = y[1] /\ x[2] < y[2])

(* getNeighbors: pairs of rows, the lower first, that some move connects.  *)
Pairs ==
  {n \in Rows \X Rows :
     /\ n[1] <= n[2]
     /\ \E m \in Moves : RowMove[m][n[1]] = n[2] \/ RowMove[m][n[2]] = n[1]}

(* What generateCornerPair goes through from row a to row b.               *)
Expansions(a, b) ==
  {e \in Moves \X Pos : RowOf[e[2]] = a /\ RowMove[e[1]][a] = b}

(* The code of an entry at depth d of the search.                          *)
Code(d) == IF d < BASE THEN d % 3 ELSE d - BASE

(* Defect: the new code is not reduced modulo 3.                           *)
MutNextCode(d) == Code(d) + 1

(* The code that is stored for an entry reached at depth d.                *)
NextCode(d) == (Code(d) + 1) % 3

(* Defect: the entries are not zeroed at the base depth.                   *)
MutNoZero == table

(* zero_visited: every reached entry becomes 0, stripe minima are kept.    *)
ZeroVisited == [p \in Pos |-> IF table[p] = Unvisited THEN Unvisited ELSE 0]

(* prefetch_t::fetch: the pruning value of an entry.                       *)
Fetch(p) == IF table[p] # 0 THEN BASE + table[p] ELSE stripeMin[StripeOf[p]]

(* Defect: a row is clean in the pass that first finds it dirty.           *)
MutCleanLate(r) == depth <= dirty[r]

(* dirty: the row has no frontier in this pass.                            *)
Clean(r) == depth < dirty[r]

(* Defect: only the first row of a pair is looked up in busy.              *)
MutFirstFree(n) == n[1] \notin busy

(* busy: no thread works on a row of the pair.                             *)
Free(n) == n[1] \notin busy /\ n[2] \notin busy

(* What the rest of the scan of t does to a pair: leaves it (done or       *)
(* busy), marks it done without work, or claims it.                        *)
Pending(t)   == {n \in ahead[t] : n \notin done /\ Free(n)}
Skippable(t) == {n \in Pending(t) : Clean(n[1]) /\ Clean(n[2])}
Claimable(t) == Pending(t) \ Skippable(t)

-----------------------------------------------------------------------------
Init ==
  /\ phase = "prepare"
  /\ depth = 0
  /\ table = [p \in Pos |-> IF p = Solved THEN 0 ELSE Unvisited]
  /\ stripeMin = [s \in Stripes |-> IF s = StripeOf[Solved] THEN 0 ELSE Untouched]
  /\ dirty = [r \in Rows |-> IF r = RowOf[Solved] THEN 0 ELSE NeverDirty]
  /\ found = 1
  /\ done = {}
  /\ busy = {}
  /\ mtx = NoThread
  /\ pc = [t \in Threads |-> "exit"]
  /\ ok = [t \in Threads |-> FALSE]
  /\ ahead = [t \in Threads |-> {}]
  /\ cur = [t \in Threads |-> <<>>]
  /\ inverse = [t \in Threads |-> FALSE]
  /\ todo = [t \in Threads |-> {}]
  /\ target = [t \in Threads |-> Solved]
  /\ latch = [t \in Threads |-> [p \in Pos |-> 0]]
  /\ gained = [t \in Threads |-> 0]

(* main, top of the depth loop: fresh busy and done, threads are started.  *)
Prepare ==
  /\ phase = "prepare"
  /\ phase' = "pass"
  /\ table' = IF depth = BASE THEN ZeroVisited ELSE table
  /\ done' = {}
  /\ busy' = {}
  /\ pc' = [t \in Threads |-> "lock"]
  /\ UNCHANGED <<depth, stripeMin, dirty, found, mtx, ok, ahead, workVars>>

(* Defect: one pass too many.                                              *)
MutJoin ==
  /\ phase = "pass"
  /\ \A t \in Threads : pc[t] = "exit"
  /\ depth' = depth + 1
  /\ phase' = IF depth' <= BASE + 2 THEN "prepare" ELSE "generated"
  /\ UNCHANGED <<tableVars, sharedVars, mtx, pc, ok, ahead, workVars>>

(* main, end of the depth loop: every thread is joined.                    *)
Join ==
  /\ phase = "pass"
  /\ \A t \in Threads : pc[t] = "exit"
  /\ depth' = depth + 1
  /\ phase' = IF depth' <= BASE + 1 THEN "prepare" ELSE "generated"
  /\ UNCHANGED <<tableVars, sharedVars, mtx, pc, ok, ahead, workVars>>

(* A thread takes the mutex and starts its first scan.                     *)
Lock(t) ==
  /\ pc[t] = "lock"
  /\ mtx = NoThread
  /\ mtx' = t
  /\ pc' = [pc EXCEPT ![t] = "scan"]
  /\ ok' = [ok EXCEPT ![t] = FALSE]
  /\ ahead' = [ahead EXCEPT ![t] = Pairs]
  /\ UNCHANGED <<mainVars, tableVars, sharedVars, workVars>>

(* The scan comes to a pair to work on.  Pairs of clean rows on the way    *)
(* are marked done; a clean row of the claimed pair will have a frontier   *)
(* at the next depth.  The mutex is released.                              *)
Claim(t) ==
  /\ pc[t] = "scan"
  /\ mtx = t
  /\ \E n \in Claimable(t) :
       /\ \A k \in Claimable(t) \ {n} : Before(n, k)
       /\ done' = done \union {n} \union {k \in Skippable(t) : Before(k, n)}
       /\ busy' = busy \union {n[1], n[2]}
       /\ dirty' = [r \in Rows |->
                      IF r \in {n[1], n[2]} /\ Clean(r) THEN depth + 1 ELSE dirty[r]]
       /\ ahead' = [ahead EXCEPT ![t] = {k \in @ : Before(n, k)}]
       /\ cur' = [cur EXCEPT ![t] = n]
       /\ todo' = [todo EXCEPT ![t] = Expansions(n[1], n[2])]
  /\ ok' = [ok EXCEPT ![t] = TRUE]
  /\ mtx' = NoThread
  /\ pc' = [pc EXCEPT ![t] = "visit"]
  /\ inverse' = [inverse EXCEPT ![t] = FALSE]
  /\ gained' = [gained EXCEPT ![t] = 0]
  /\ UNCHANGED <<mainVars, tableVars, found, target, latch>>

(* generateCornerPair, one source entry: an entry of the frontier in a     *)
(* touched stripe leads to a target; the byte of the target is loaded and  *)
(* the target is found unvisited.                                          *)
Reaches(p, q) ==
  /\ stripeMin[StripeOf[p]] # Untouched
  /\ table[p] = Code(depth)
  /\ table[q] = Unvisited

Visit(t) ==
  /\ pc[t] = "visit"
  /\ \E e \in todo[t] :
       /\ \A f \in todo[t] \ {e} : Before(e, f)
       /\ todo' = [todo EXCEPT ![t] = @ \ {e}]
       /\ LET p == e[2]
              q == Image[e[1]][p]
          IN  IF Reaches(p, q)
              THEN /\ pc' = [pc EXCEPT ![t] = "store"]
                   /\ target' = [target EXCEPT ![t] = q]
                   /\ latch' = [latch EXCEPT ![t] =
                        [r \in Pos |-> IF OctetOf[r] = OctetOf[q] THEN table[r] ELSE 0]]
              ELSE UNCHANGED <<pc, target, latch>>
  /\ UNCHANGED <<mainVars, tableVars, sharedVars, mtx, ok, ahead, cur, inverse, gained>>

(* generateCornerPair: the byte of the target is stored with the new code, *)
(* and the stripe minimum is set unless it was.                            *)
Store(t) ==
  /\ pc[t] = "store"
  /\ LET q == target[t]
         s == StripeOf[q]
     IN  /\ table' = [r \in Pos |->
                        IF r = q THEN NextCode(depth)
                        ELSE IF OctetOf[r] = OctetOf[q] THEN latch[t][r]
                        ELSE table[r]]
         /\ stripeMin' = [stripeMin EXCEPT ![s] = IF @ = Untouched THEN depth + 1 ELSE @]
  /\ gained' = [gained EXCEPT ![t] = @ + 1]
  /\ target' = [target EXCEPT ![t] = Solved]
  /\ latch' = [latch EXCEPT ![t] = [p \in Pos |-> 0]]
  /\ pc' = [pc EXCEPT ![t] = "visit"]
  /\ UNCHANGED <<mainVars, sharedVars, mtx, ok, ahead, cur, inverse, todo>>

(* The rows of the pair are swapped for the inverse moves.                 *)
Swap(t) ==
  /\ pc[t] = "visit"
  /\ todo[t] = {}
  /\ ~inverse[t]
  /\ cur[t][1] < cur[t][2]
  /\ inverse' = [inverse EXCEPT ![t] = TRUE]
  /\ todo' = [todo EXCEPT ![t] = Expansions(cur[t][2], cur[t][1])]
  /\ UNCHANGED <<mainVars, tableVars, sharedVars, mtx, pc, ok, ahead, cur,
                 target, latch, gained>>

(* Both directions are finished.                                           *)
Finish(t) ==
  /\ pc[t] = "visit"
  /\ todo[t] = {}
  /\ inverse[t] \/ cur[t][1] >= cur[t][2]
  /\ pc' = [pc EXCEPT ![t] = "relock"]
  /\ UNCHANGED <<mainVars, tableVars, sharedVars, mtx, ok, ahead, workVars>>

(* The mutex is taken again: count, give the rows back, scan on.           *)
Relock(t) ==
  /\ pc[t] = "relock"
  /\ mtx = NoThread
  /\ mtx' = t
  /\ pc' = [pc EXCEPT ![t] = "scan"]
  /\ found' = found + gained[t]
  /\ busy' = busy \ {cur[t][1], cur[t][2]}
  /\ UNCHANGED <<mainVars, tableVars, dirty, done, ok, ahead, workVars>>

(* Defect: ok is not reset before another scan.                            *)
MutRescan(t) ==
  /\ pc[t] = "scan"
  /\ mtx = t
  /\ Claimable(t) = {}
  /\ ok[t]
  /\ done' = done \union Skippable(t)
  /\ ahead' = [ahead EXCEPT ![t] = Pairs]
  /\ UNCHANGED <<mainVars, tableVars, dirty, found, busy, mtx, pc, ok, workVars>>

(* The scan comes to the end of the list; if it claimed anything the       *)
(* thread scans again, with the mutex held.                                *)
Rescan(t) ==
  /\ pc[t] = "scan"
  /\ mtx = t
  /\ Claimable(t) = {}
  /\ ok[t]
  /\ done' = done \union Skippable(t)
  /\ ok' = [ok EXCEPT ![t] = FALSE]
  /\ ahead' = [ahead EXCEPT ![t] = Pairs]
  /\ UNCHANGED <<mainVars, tableVars, dirty, found, busy, mtx, pc, workVars>>

(* Defect: a thread ends after its first scan.                             *)
MutEagerExit(t) ==
  /\ pc[t] = "scan"
  /\ mtx = t
  /\ Claimable(t) = {}
  /\ done' = done \union Skippable(t)
  /\ mtx' = NoThread
  /\ pc' = [pc EXCEPT ![t] = "exit"]
  /\ ahead' = [ahead EXCEPT ![t] = {}]
  /\ UNCHANGED <<mainVars, tableVars, dirty, found, busy, ok, workVars>>

(* A whole scan without a claim: the thread ends.                          *)
Exit(t) ==
  /\ pc[t] = "scan"
  /\ mtx = t
  /\ Claimable(t) = {}
  /\ ~ok[t]
  /\ done' = done \union Skippable(t)
  /\ mtx' = NoThread
  /\ pc' = [pc EXCEPT ![t] = "exit"]
  /\ ahead' = [ahead EXCEPT ![t] = {}]
  /\ UNCHANGED <<mainVars, tableVars, dirty, found, busy, ok, workVars>>

(* generate has returned.                                                  *)
Terminated == phase = "generated" /\ UNCHANGED vars

Thread(t) ==
  \/ Lock(t)   \/ Claim(t)  \/ Visit(t)  \/ Store(t)  \/ Swap(t)
  \/ Finish(t) \/ Relock(t) \/ Rescan(t) \/ Exit(t)

Next ==
  \/ Prepare
  \/ Join
  \/ \E t \in Threads : Thread(t)
  \/ Terminated

Spec == Init /\ [][Next]_vars

(***************************************************************************)
(* Every worker and main are scheduled.  Nothing is assumed of the mutex   *)
(* but that it does not stay free while a thread waits for it: a thread    *)
(* may be overtaken at the mutex as often as the others come there.        *)
(***************************************************************************)
Fairness ==
  /\ WF_vars(Prepare)
  /\ WF_vars(Join)
  /\ \A t \in Threads : WF_vars(Thread(t))

FairSpec == Spec /\ Fairness

-----------------------------------------------------------------------------
TypeOK ==
  /\ phase \in {"prepare", "pass", "generated"}
  /\ depth \in 0..(BASE + 2)
  /\ table \in [Pos -> 0..3]
  /\ stripeMin \in [Stripes -> 0..15]
  /\ dirty \in [Rows -> 0..255]
  /\ found \in Nat
  /\ done \subseteq Pairs
  /\ busy \subseteq Rows
  /\ mtx \in Threads \union {NoThread}
  /\ pc \in [Threads -> {"lock", "scan", "visit", "store", "relock", "exit"}]
  /\ ok \in [Threads -> BOOLEAN]
  /\ ahead \in [Threads -> SUBSET Pairs]
  /\ cur \in [Threads -> Pairs \union {<<>>}]
  /\ inverse \in [Threads -> BOOLEAN]
  /\ todo \in [Threads -> SUBSET (Moves \X Pos)]
  /\ target \in [Threads -> Pos]
  /\ latch \in [Threads -> [Pos -> 0..3]]
  /\ gained \in [Threads -> Nat]

(* A thread is between the release of the mutex and its next lock: it may  *)
(* read and write the rows of its pair.                                    *)
Holding(t)  == pc[t] \in {"visit", "store", "relock"}
RowsHeld(t) == {cur[t][1], cur[t][2]}

(* The busy flags keep the table free of data races: two threads that      *)
(* expand at the same time never share a row (the unlocked part of the     *)
(* worker loop, generateCornerPair).                                       *)
RowExclusive ==
  \A t, u \in Threads :
    t # u /\ Holding(t) /\ Holding(u) => RowsHeld(t) \intersect RowsHeld(u) = {}

(* No pair is forgotten: a thread leaves although other threads still hold *)
(* pairs back by their busy rows, and nevertheless every pair of the list  *)
(* is done when the last thread has left (the do-while (ok) loop).         *)
AllPairsDone ==
  phase = "pass" /\ (\A t \in Threads : pc[t] = "exit") => Pairs \subseteq done

Visited == {p \in Pos : table[p] # Unvisited}

(* The generator implements the layer by layer discovery: no entry is      *)
(* entered in an earlier or later pass than its distance, none is lost     *)
(* from the table, and main goes on only when the layer is complete.       *)
Layers == INSTANCE DistanceLayers
            WITH visited <- Visited, level <- depth, Radius <- BASE + 2
LayersRefined == Layers!Spec

Least(S) == CHOOSE n \in S : \A k \in S : n <= k
DistsIn(s) == {Dist[p] : p \in {q \in Pos : StripeOf[q] = s}}

(* Between passes the two-bit codes are those the comments of generate and *)
(* zero_visited announce: distance modulo 3 up to the base depth, then     *)
(* 0 for at most BASE, 1 and 2 for BASE + 1 and BASE + 2, 3 beyond; and a  *)
(* stripe minimum is the least distance of the entries of its stripe.      *)
EntriesEncodeDistance ==
  phase # "pass" =>
    /\ \A p \in Pos :
         table[p] = CASE Dist[p] > depth                       -> Unvisited
                      [] Dist[p] <= depth /\ depth <= BASE     -> Dist[p] % 3
                      [] Dist[p] <= BASE  /\ depth > BASE      -> 0
                      [] Dist[p] \in BASE + 1 .. depth         -> Dist[p] - BASE
    /\ \A s \in Stripes :
         stripeMin[s] = IF Least(DistsIn(s)) <= depth THEN Least(DistsIn(s)) ELSE Untouched

(* What the search relies on when the table is finished: the pruning value *)
(* of an entry never exceeds its distance, is the distance itself from     *)
(* BASE + 1 to BASE + 3, and is at least BASE + 3 beyond.                  *)
HeuristicAdmissible ==
  phase = "generated" =>
    \A p \in Pos : /\ Fetch(p) <= Dist[p]
                   /\ Dist[p] > BASE => Fetch(p) = IF Dist[p] <= BASE + 3 THEN Dist[p] ELSE BASE + 3

(* The count of found entries that is summed up over threads and passes is *)
(* the number of entries in the table.                                     *)
FoundCount == phase # "pass" => found = Cardinality(Visited)

(* An entry once reached keeps its code during the passes: neither a later *)
(* expansion nor a store to a neighbouring entry of its byte changes it.   *)
WriteOnce ==
  [][phase = "pass" => \A p \in Visited : table'[p] = table[p]]_vars

(* The generation ends: a thread does not scan for ever for pairs that are *)
(* held by others, and the passes come to their end.                       *)
Generated == <>(phase = "generated")

=============================================================================
