------------------------ MODULE PruneGeneratorProofs ------------------------
(***************************************************************************)
(* Theorems about PruneGenerator, for every puzzle, every number of        *)
(* threads and every base depth that the assumptions admit.                *)
(***************************************************************************)
EXTENDS PruneGenerator, WellFoundedInduction, FiniteSetTheorems, TLAPS

(* Type correctness is inductive once the depth is known to have room for  *)
(* another pass.                                                           *)
TypeInv == TypeOK /\ (phase # "generated" => depth <= BASE + 1)

(***************************************************************************)
(* The locking protocol.  The mutex is held exactly while scanning; the    *)
(* busy rows are exactly the rows of the pairs that threads work on; a     *)
(* thread at work remembers that it has claimed something; and a scan that *)
(* has claimed nothing so far has the whole list ahead of it, for a claim  *)
(* is the only thing that interrupts a scan.                               *)
(***************************************************************************)
MutexHeld  == \A t \in Threads : mtx = t <=> pc[t] = "scan"
HeldBusy   == \A t \in Threads : Holding(t) => cur[t] \in Pairs /\ RowsHeld(t) \subseteq busy
HeldOk     == \A t \in Threads : Holding(t) => ok[t]
BusyHeld   == \A r \in busy : \E t \in Threads : Holding(t) /\ r \in RowsHeld(t)
FreshScan  == \A t \in Threads : pc[t] = "scan" /\ ~ok[t] => ahead[t] = Pairs
JoinedIdle == phase # "pass" => \A t \in Threads : pc[t] = "exit"

LockInv ==
  /\ MutexHeld
  /\ HeldBusy
  /\ HeldOk
  /\ BusyHeld
  /\ RowExclusive
  /\ FreshScan
  /\ JoinedIdle
  /\ AllPairsDone

-----------------------------------------------------------------------------
(* A pair is two rows.                                                     *)
LEMMA PairsOfRows ==
  \A n \in Pairs : n[1] \in Rows /\ n[2] \in Rows
BY DEF Pairs

(* The code of the next depth is one of the three codes of reached entries. *)
LEMMA NextCodeReached ==
  ASSUME NEW d \in 0..(BASE + 1)
  PROVE  NextCode(d) \in 0..2
<1>1. Code(d) \in Nat
  BY BaseAssumption DEF Code
<1>2. QED
  BY <1>1 DEF NextCode

-----------------------------------------------------------------------------
(* The initial state is well typed.                                        *)
LEMMA InitTypeInv == Init => TypeInv
BY BaseAssumption, ThreadAssumption, TableAssumption, DistAssumption
   DEF Init, TypeInv, TypeOK, Untouched, Unvisited, NeverDirty, Stripes

(* Every step keeps the variables within their types.                      *)
LEMMA NextTypeInv == TypeInv /\ [Next]_vars => TypeInv'
<1> SUFFICES ASSUME TypeInv, [Next]_vars PROVE TypeInv'
  OBVIOUS
<1> USE BaseAssumption DEF TypeInv, mainVars, tableVars, sharedVars, workVars
<1>1. CASE Prepare
  <2>1. table' \in [Pos -> 0..3]
    BY <1>1 DEF Prepare, ZeroVisited, TypeOK, Unvisited
  <2>2. pc' \in [Threads -> {"lock", "scan", "visit", "store", "relock", "exit"}]
    BY <1>1 DEF Prepare
  <2>3. QED
    BY <1>1, <2>1, <2>2 DEF Prepare, TypeOK
<1>2. CASE Join
  <2>1. depth' \in 0..(BASE + 2) /\ (phase' # "generated" => depth' <= BASE + 1)
    BY <1>2 DEF Join, TypeOK
  <2>2. phase' \in {"prepare", "pass", "generated"}
    BY <1>2 DEF Join
  <2>3. UNCHANGED <<table, stripeMin, dirty, found, done, busy, mtx, pc, ok, ahead,
                    cur, inverse, todo, target, latch, gained>>
    BY <1>2 DEF Join
  <2>4. QED
    BY <2>1, <2>2, <2>3 DEF TypeOK
<1>3. ASSUME NEW t \in Threads, Thread(t) PROVE TypeInv'
  <2>1. CASE Lock(t)
    BY <2>1 DEF Lock, TypeOK
  <2>2. CASE Claim(t)
    <3>1. PICK n \in Claimable(t) :
            /\ done' = done \union {n} \union {k \in Skippable(t) : Before(k, n)}
            /\ busy' = busy \union {n[1], n[2]}
            /\ dirty' = [r \in Rows |->
                           IF r \in {n[1], n[2]} /\ Clean(r) THEN depth + 1 ELSE dirty[r]]
            /\ ahead' = [ahead EXCEPT ![t] = {k \in @ : Before(n, k)}]
            /\ cur' = [cur EXCEPT ![t] = n]
            /\ todo' = [todo EXCEPT ![t] = Expansions(n[1], n[2])]
      BY <2>2 DEF Claim
    <3>2. n \in Pairs /\ Skippable(t) \subseteq Pairs
      BY DEF Claimable, Skippable, Pending, TypeOK
    <3>3. n[1] \in Rows /\ n[2] \in Rows
      BY <3>2, PairsOfRows
    <3>4. dirty' \in [Rows -> 0..255]
      <4>1. depth + 1 \in 0..255
        BY <2>2 DEF TypeOK
      <4>2. QED
        BY <3>1, <4>1 DEF TypeOK
    <3>5. Expansions(n[1], n[2]) \in SUBSET (Moves \X Pos)
      BY DEF Expansions
    <3>6. done' \subseteq Pairs /\ busy' \subseteq Rows
      BY <3>1, <3>2, <3>3 DEF TypeOK
    <3>7. /\ ahead' \in [Threads -> SUBSET Pairs]
          /\ cur' \in [Threads -> Pairs \union {<<>>}]
          /\ todo' \in [Threads -> SUBSET (Moves \X Pos)]
      BY <3>1, <3>2, <3>5 DEF TypeOK
    <3>8. QED
      BY <2>2, <3>4, <3>6, <3>7 DEF Claim, TypeOK
  <2>3. CASE Visit(t)
    <3>1. PICK e \in todo[t] :
            /\ todo' = [todo EXCEPT ![t] = @ \ {e}]
            /\ IF Reaches(e[2], Image[e[1]][e[2]])
               THEN /\ pc' = [pc EXCEPT ![t] = "store"]
                    /\ target' = [target EXCEPT ![t] = Image[e[1]][e[2]]]
                    /\ latch' = [latch EXCEPT ![t] =
                         [r \in Pos |-> IF OctetOf[r] = OctetOf[Image[e[1]][e[2]]]
                                        THEN table[r] ELSE 0]]
               ELSE UNCHANGED <<pc, target, latch>>
      BY <2>3 DEF Visit
    <3>2. Image[e[1]][e[2]] \in Pos
      <4>1. e \in Moves \X Pos
        BY DEF TypeOK
      <4>2. Image[e[1]] \in [Pos -> Pos]
        BY <4>1, TableAssumption
      <4>3. QED
        BY <4>1, <4>2
    <3>3. /\ todo' \in [Threads -> SUBSET (Moves \X Pos)]
          /\ target' \in [Threads -> Pos]
          /\ pc' \in [Threads -> {"lock", "scan", "visit", "store", "relock", "exit"}]
      <4>1. todo' \in [Threads -> SUBSET (Moves \X Pos)]
        BY <3>1 DEF TypeOK
      <4>2. target' \in [Threads -> Pos]
        BY <3>1, <3>2 DEF TypeOK
      <4>3. pc' \in [Threads -> {"lock", "scan", "visit", "store", "relock", "exit"}]
        BY <3>1 DEF TypeOK
      <4>4. QED
        BY <4>1, <4>2, <4>3
    <3>4. latch' \in [Threads -> [Pos -> 0..3]]
      <4>1. [r \in Pos |-> IF OctetOf[r] = OctetOf[Image[e[1]][e[2]]]
                           THEN table[r] ELSE 0] \in [Pos -> 0..3]
        BY DEF TypeOK
      <4>2. QED
        BY <3>1, <4>1 DEF TypeOK
    <3>5. QED
      BY <2>3, <3>3, <3>4 DEF Visit, TypeOK
  <2>4. CASE Store(t)
    <3>1. depth \in 0..(BASE + 2) /\ latch[t] \in [Pos -> 0..3] /\ target[t] \in Pos
      BY DEF TypeOK
    <3>2. NextCode(depth) \in 0..2
      <4>1. Code(depth) \in Nat
        BY <3>1 DEF Code
      <4>2. QED
        BY <4>1 DEF NextCode
    <3>3. table' \in [Pos -> 0..3]
      BY <2>4, <3>1, <3>2 DEF Store, TypeOK
    <3>4. stripeMin' \in [Stripes -> 0..15]
      <4>1. depth + 1 \in 0..15
        BY <3>1
      <4>2. stripeMin' = [stripeMin EXCEPT ![StripeOf[target[t]]] =
                            IF @ = Untouched THEN depth + 1 ELSE @]
        BY <2>4 DEF Store
      <4>3. QED
        BY <4>1, <4>2, ZenonT(30) DEF TypeOK
    <3>5. target' \in [Threads -> Pos]
      BY <2>4, DistAssumption DEF Store, TypeOK
    <3>6. latch' \in [Threads -> [Pos -> 0..3]]
      <4>1. [p \in Pos |-> 0] \in [Pos -> 0..3]
        OBVIOUS
      <4>2. QED
        BY <2>4, <4>1 DEF Store, TypeOK
    <3>7. gained' \in [Threads -> Nat]
      BY <2>4 DEF Store, TypeOK
    <3>8. pc' \in [Threads -> {"lock", "scan", "visit", "store", "relock", "exit"}]
      BY <2>4 DEF Store, TypeOK
    <3>9. UNCHANGED <<phase, depth, dirty, found, done, busy, mtx, ok, ahead,
                      cur, inverse, todo>>
      BY <2>4 DEF Store
    <3>10. QED
      BY <3>3, <3>4, <3>5, <3>6, <3>7, <3>8, <3>9 DEF TypeOK
  <2>5. CASE Swap(t)
    <3>1. todo' \in [Threads -> SUBSET (Moves \X Pos)]
      <4>1. Expansions(cur[t][2], cur[t][1]) \in SUBSET (Moves \X Pos)
        BY DEF Expansions
      <4>2. QED
        BY <2>5, <4>1 DEF Swap, TypeOK
    <3>2. inverse' \in [Threads -> BOOLEAN]
      BY <2>5 DEF Swap, TypeOK
    <3>3. UNCHANGED <<phase, depth, table, stripeMin, dirty, found, done, busy, mtx, pc,
                      ok, ahead, cur, target, latch, gained>>
      BY <2>5 DEF Swap
    <3>4. QED
      BY <3>1, <3>2, <3>3, SMTT(30) DEF TypeOK
  <2>6. CASE Finish(t)
    BY <2>6 DEF Finish, TypeOK
  <2>7. CASE Relock(t)
    <3>1. found' \in Nat /\ busy' \subseteq Rows
      BY <2>7 DEF Relock, TypeOK
    <3>2. mtx' = t /\ pc' \in [Threads -> {"lock", "scan", "visit", "store", "relock", "exit"}]
      BY <2>7 DEF Relock, TypeOK
    <3>3. UNCHANGED <<phase, depth, table, stripeMin, dirty, done, ok, ahead, cur,
                      inverse, todo, target, latch, gained>>
      BY <2>7 DEF Relock
    <3>4. QED
      BY <3>1, <3>2, <3>3 DEF TypeOK
  <2>8. CASE Rescan(t)
    <3>1. Skippable(t) \subseteq Pairs
      BY DEF Skippable, Pending, TypeOK
    <3>2. QED
      BY <2>8, <3>1 DEF Rescan, TypeOK
  <2>9. CASE Exit(t)
    <3>1. Skippable(t) \subseteq Pairs
      BY DEF Skippable, Pending, TypeOK
    <3>2. QED
      BY <2>9, <3>1, ThreadAssumption DEF Exit, TypeOK
  <2>10. QED
    BY <1>3, <2>1, <2>2, <2>3, <2>4, <2>5, <2>6, <2>7, <2>8, <2>9 DEF Thread
<1>4. CASE Terminated \/ UNCHANGED vars
  <2>1. UNCHANGED <<phase, depth, table, stripeMin, dirty, found, done, busy, mtx, pc,
                    ok, ahead, cur, inverse, todo, target, latch, gained>>
    BY <1>4 DEF Terminated, vars
  <2>2. QED
    BY <2>1 DEF TypeOK
<1>5. QED
  BY <1>1, <1>2, <1>3, <1>4 DEF Next

(* The variables of the generator always have their types; in particular a *)
(* code fits two bits and a stripe minimum fits four.                      *)
THEOREM TypeCorrect == Spec => []TypeOK
<1>1. Init => TypeInv
  BY InitTypeInv
<1>2. TypeInv /\ [Next]_vars => TypeInv'
  BY NextTypeInv
<1>3. TypeInv => TypeOK
  BY DEF TypeInv
<1>4. QED
  BY <1>1, <1>2, <1>3, PTL DEF Spec

-----------------------------------------------------------------------------
(* The locking invariant holds initially: every thread is out.             *)
LEMMA InitLockInv == Init => LockInv
BY ThreadAssumption
   DEF Init, LockInv, MutexHeld, HeldBusy, HeldOk, BusyHeld, RowExclusive, FreshScan,
       JoinedIdle, AllPairsDone, Holding

(* Steps that touch no variable of the locking protocol keep its invariant. *)
LEMMA LockInvFrame ==
  LockInv /\ UNCHANGED <<phase, done, busy, mtx, pc, ok, ahead, cur>> => LockInv'
BY DEF LockInv, MutexHeld, HeldBusy, HeldOk, BusyHeld, RowExclusive, FreshScan, JoinedIdle,
       AllPairsDone, Holding, RowsHeld

(* A pair that the last scan of t neither finds done nor marks done has a  *)
(* row that is busy.                                                       *)
LEMMA Unclaimed ==
  ASSUME NEW t \in Threads, Claimable(t) = {}, ahead[t] = Pairs,
         NEW n \in Pairs, n \notin done \union Skippable(t)
  PROVE  n[1] \in busy \/ n[2] \in busy
BY DEF Claimable, Skippable, Pending, Free

(* Every step keeps the locking invariant.                                 *)
LEMMA NextLockInv == TypeOK /\ LockInv /\ [Next]_vars => LockInv'
<1> SUFFICES ASSUME TypeOK, LockInv, [Next]_vars PROVE LockInv'
  OBVIOUS
<1>1. CASE Prepare
  <2>1. /\ phase' = "pass" /\ busy' = {} /\ pc' = [t \in Threads |-> "lock"]
        /\ mtx' = mtx
        /\ \A t \in Threads : mtx # t
    BY <1>1 DEF Prepare, LockInv, JoinedIdle, MutexHeld
  <2>2. QED
    BY <2>1, ThreadAssumption
       DEF LockInv, MutexHeld, HeldBusy, HeldOk, BusyHeld, RowExclusive, FreshScan,
           JoinedIdle, AllPairsDone, Holding
<1>2. CASE Join
  <2>1. /\ \A t \in Threads : pc[t] = "exit"
        /\ phase' # "pass"
        /\ UNCHANGED <<done, busy, mtx, pc, ok, ahead, cur>>
    BY <1>2 DEF Join, sharedVars, workVars
  <2>2. QED
    BY <2>1 DEF LockInv, MutexHeld, HeldBusy, HeldOk, BusyHeld, RowExclusive, FreshScan,
                JoinedIdle, AllPairsDone, Holding, RowsHeld
<1>3. ASSUME NEW t \in Threads, Thread(t) PROVE LockInv'
  <2>1. CASE Lock(t)
    <3>1. /\ mtx = NoThread /\ mtx' = t /\ pc[t] = "lock"
          /\ pc' = [pc EXCEPT ![t] = "scan"]
          /\ ahead' = [ahead EXCEPT ![t] = Pairs]
          /\ ok' = [ok EXCEPT ![t] = FALSE]
          /\ UNCHANGED <<phase, done, busy, cur>>
      BY <2>1 DEF Lock, mainVars, sharedVars, workVars
    <3>2. \A u \in Threads : Holding(u)' <=> Holding(u)
      BY <3>1 DEF Holding, TypeOK
    <3>3. MutexHeld'
      BY <3>1, ThreadAssumption DEF MutexHeld, LockInv, TypeOK
    <3>4. HeldBusy' /\ BusyHeld' /\ RowExclusive'
      BY <3>1, <3>2 DEF HeldBusy, BusyHeld, RowExclusive, RowsHeld, LockInv
    <3>5. HeldOk' /\ FreshScan' /\ JoinedIdle' /\ AllPairsDone'
      BY <3>1, <3>2 DEF HeldOk, Holding, FreshScan, JoinedIdle, AllPairsDone, LockInv, TypeOK
    <3>6. QED
      BY <3>3, <3>4, <3>5 DEF LockInv
  <2>2. CASE Claim(t)
    <3>1. PICK n \in Claimable(t) : /\ busy' = busy \union {n[1], n[2]}
                                    /\ cur' = [cur EXCEPT ![t] = n]
      BY <2>2 DEF Claim
    <3>2. /\ pc[t] = "scan" /\ mtx = t /\ mtx' = NoThread
          /\ pc' = [pc EXCEPT ![t] = "visit"]
          /\ ok' = [ok EXCEPT ![t] = TRUE]
          /\ phase' = phase
          /\ \A u \in Threads \ {t} : ahead'[u] = ahead[u]
      BY <2>2 DEF Claim, mainVars, TypeOK
    <3>3. n \in Pairs /\ n[1] \notin busy /\ n[2] \notin busy
      BY DEF Claimable, Pending, Free, TypeOK
    <3>4. /\ \A u \in Threads \ {t} : (Holding(u)' <=> Holding(u)) /\ RowsHeld(u)' = RowsHeld(u)
          /\ Holding(t)' /\ RowsHeld(t)' = {n[1], n[2]} /\ cur'[t] = n
          /\ ~Holding(t)
      BY <3>1, <3>2 DEF Holding, RowsHeld, TypeOK
    <3>5. MutexHeld'
      BY <3>2, ThreadAssumption DEF MutexHeld, LockInv, TypeOK
    <3>6. HeldBusy'
      <4>1. ASSUME NEW u \in Threads \ {t}, Holding(u)'
            PROVE  cur'[u] \in Pairs /\ RowsHeld(u)' \subseteq busy'
        BY <3>1, <3>4, <4>1 DEF HeldBusy, LockInv, TypeOK
      <4>2. QED
        BY <3>1, <3>3, <3>4, <4>1 DEF HeldBusy
    <3>7. BusyHeld'
      BY <3>1, <3>4 DEF BusyHeld, LockInv
    <3>8. RowExclusive'
      <4>1. ASSUME NEW u \in Threads \ {t}, Holding(u)
            PROVE  RowsHeld(u) \intersect {n[1], n[2]} = {}
        BY <3>3, <4>1 DEF HeldBusy, LockInv
      <4>2. QED
        BY <3>4, <4>1 DEF RowExclusive, LockInv
    <3>9. HeldOk' /\ FreshScan' /\ JoinedIdle' /\ AllPairsDone'
      BY <3>2, <3>4 DEF HeldOk, FreshScan, JoinedIdle, AllPairsDone, LockInv, TypeOK
    <3>10. QED
      BY <3>5, <3>6, <3>7, <3>8, <3>9 DEF LockInv
  <2>3. CASE Visit(t) \/ Store(t) \/ Finish(t)
    <3>1. /\ UNCHANGED <<phase, done, busy, mtx, ok, ahead, cur>>
          /\ Holding(t)
          /\ pc'[t] \in {"visit", "store", "relock"}
          /\ \A u \in Threads \ {t} : pc'[u] = pc[u]
      <4>1. CASE Visit(t)
        BY <4>1 DEF Visit, Holding, mainVars, sharedVars, TypeOK
      <4>2. CASE Store(t)
        BY <4>2 DEF Store, Holding, mainVars, sharedVars, TypeOK
      <4>3. CASE Finish(t)
        BY <4>3 DEF Finish, Holding, mainVars, sharedVars, workVars, TypeOK
      <4>4. QED
        BY <2>3, <4>1, <4>2, <4>3
    <3>2. \A u \in Threads : (Holding(u)' <=> Holding(u)) /\ (pc'[u] = "scan" <=> pc[u] = "scan")
                             /\ (pc'[u] = "exit" <=> pc[u] = "exit")
      BY <3>1 DEF Holding
    <3>3. QED
      BY <3>1, <3>2 DEF LockInv, MutexHeld, HeldBusy, HeldOk, BusyHeld, RowExclusive, FreshScan,
                        JoinedIdle, AllPairsDone, RowsHeld
  <2>4. CASE Swap(t)
    BY <2>4, LockInvFrame DEF Swap, mainVars, sharedVars
  <2>5. CASE Relock(t)
    <3>1. /\ mtx = NoThread /\ mtx' = t /\ pc[t] = "relock"
          /\ pc' = [pc EXCEPT ![t] = "scan"]
          /\ busy' = busy \ RowsHeld(t)
          /\ UNCHANGED <<phase, done, ok, ahead, cur>>
      BY <2>5 DEF Relock, mainVars, workVars, RowsHeld
    <3>2. /\ \A u \in Threads \ {t} : Holding(u)' <=> Holding(u)
          /\ \A u \in Threads : RowsHeld(u)' = RowsHeld(u)
          /\ Holding(t) /\ ~Holding(t)'
      BY <3>1 DEF Holding, RowsHeld, TypeOK
    <3>3. MutexHeld'
      BY <3>1, ThreadAssumption DEF MutexHeld, LockInv, TypeOK
    <3>4. HeldBusy' /\ HeldOk'
      BY <3>1, <3>2 DEF HeldBusy, HeldOk, RowExclusive, LockInv
    <3>5. BusyHeld' /\ RowExclusive'
      BY <3>1, <3>2 DEF BusyHeld, RowExclusive, LockInv
    <3>6. FreshScan'
      BY <3>1, <3>2 DEF FreshScan, HeldOk, LockInv, TypeOK
    <3>7. JoinedIdle' /\ AllPairsDone'
      BY <3>1 DEF JoinedIdle, AllPairsDone, LockInv, TypeOK
    <3>8. QED
      BY <3>3, <3>4, <3>5, <3>6, <3>7 DEF LockInv
  <2>6. CASE Rescan(t)
    <3>1. /\ pc[t] = "scan" /\ ahead' = [ahead EXCEPT ![t] = Pairs]
          /\ ok' = [ok EXCEPT ![t] = FALSE]
          /\ UNCHANGED <<phase, busy, mtx, pc, cur>>
      BY <2>6 DEF Rescan, mainVars, workVars
    <3>2. MutexHeld' /\ HeldBusy' /\ HeldOk' /\ BusyHeld' /\ RowExclusive' /\ JoinedIdle'
      BY <3>1 DEF MutexHeld, HeldBusy, HeldOk, BusyHeld, RowExclusive, JoinedIdle, Holding,
                  RowsHeld, LockInv
    <3>3. FreshScan' /\ AllPairsDone'
      BY <3>1 DEF FreshScan, AllPairsDone, LockInv, TypeOK
    <3>4. QED
      BY <3>2, <3>3 DEF LockInv
  <2>7. CASE Exit(t)
    <3>1. /\ pc[t] = "scan" /\ mtx = t /\ mtx' = NoThread /\ ~ok[t]
          /\ Claimable(t) = {}
          /\ pc' = [pc EXCEPT ![t] = "exit"]
          /\ done' = done \union Skippable(t)
          /\ \A u \in Threads \ {t} : ahead'[u] = ahead[u]
          /\ UNCHANGED <<phase, busy, ok, cur>>
      BY <2>7 DEF Exit, mainVars, workVars, TypeOK
    <3>2. /\ \A u \in Threads : Holding(u)' <=> Holding(u)
          /\ \A u \in Threads : RowsHeld(u)' = RowsHeld(u)
      BY <3>1 DEF Holding, RowsHeld, TypeOK
    <3>3. MutexHeld'
      BY <3>1, ThreadAssumption DEF MutexHeld, LockInv, TypeOK
    <3>4. HeldBusy' /\ HeldOk' /\ BusyHeld' /\ RowExclusive'
      BY <3>1, <3>2 DEF HeldBusy, HeldOk, BusyHeld, RowExclusive, LockInv
    <3>5. FreshScan' /\ JoinedIdle'
      BY <3>1 DEF FreshScan, JoinedIdle, LockInv, TypeOK
    <3>6. AllPairsDone'
      <4>1. SUFFICES ASSUME \A u \in Threads : pc'[u] = "exit",
                            NEW n \in Pairs, n \notin done'
                     PROVE  FALSE
        BY DEF AllPairsDone
      <4>2. ahead[t] = Pairs
        BY <3>1 DEF FreshScan, LockInv
      <4>3. n[1] \in busy \/ n[2] \in busy
        BY <3>1, <4>1, <4>2, Unclaimed
      <4>4. PICK u \in Threads : Holding(u)
        BY <4>3 DEF BusyHeld, LockInv
      <4>5. QED
        BY <3>2, <4>1, <4>4 DEF Holding
    <3>7. QED
      BY <3>3, <3>4, <3>5, <3>6 DEF LockInv
  <2>8. QED
    BY <1>3, <2>1, <2>2, <2>3, <2>4, <2>5, <2>6, <2>7 DEF Thread
<1>4. CASE Terminated \/ UNCHANGED vars
  BY <1>4, LockInvFrame DEF Terminated, vars, mainVars, sharedVars, workVars
<1>5. QED
  BY <1>1, <1>2, <1>3, <1>4 DEF Next

(* The locking invariant holds in every reachable state.                   *)
LEMMA LockInvariant == Spec => []LockInv
<1>1. Init => LockInv
  BY InitLockInv
<1>2. TypeOK /\ LockInv /\ [Next]_vars => LockInv'
  BY NextLockInv
<1>3. QED
  BY <1>1, <1>2, TypeCorrect, PTL DEF Spec

(* Threads that expand pairs at the same time never share a row, so that   *)
(* the unlocked reads and writes of the table do not race.                 *)
THEOREM ThreadsNeverShareRows == Spec => []RowExclusive
<1>1. LockInv => RowExclusive
  BY DEF LockInv
<1>2. QED
  BY <1>1, LockInvariant, PTL

(* When the last thread has left a pass, no pair is left undone, although  *)
(* each of them leaves without waiting for the pairs it found busy.        *)
THEOREM NoPairForgotten == Spec => []AllPairsDone
<1>1. LockInv => AllPairsDone
  BY DEF LockInv
<1>2. QED
  BY <1>1, LockInvariant, PTL

-----------------------------------------------------------------------------
(***************************************************************************)
(* What the generator writes: theorems about the table of PruneGenerator,  *)
(* for every puzzle, every number of threads and every base depth that the *)
(* assumptions admit.                                                      *)
(*                                                                         *)
(* AccessInv says that a thread about to store still has a true picture of *)
(* the byte it is going to write, because the rows it works on are its     *)
(* own.  CodeInv says what the entries, the stripe minima and the dirty    *)
(* depths mean while a layer is being discovered.  WorkInv says which      *)
(* expansions of the layer are behind the generator: those of the pairs    *)
(* that are done, and of the pair in hand those not in the todo set.       *)
(***************************************************************************)
(* The direction a thread is expanding its pair in.                        *)
Expanding(t) == pc[t] \in {"visit", "store"}
From(t) == IF inverse[t] THEN cur[t][2] ELSE cur[t][1]
To(t)   == IF inverse[t] THEN cur[t][1] ELSE cur[t][2]

TodoHere   == \A t \in Threads : Expanding(t) => todo[t] \subseteq Expansions(From(t), To(t))
TargetHeld == \A t \in Threads : pc[t] = "store" => RowOf[target[t]] \in RowsHeld(t)
LatchFresh ==
  \A t \in Threads : pc[t] = "store" =>
    /\ table[target[t]] = Unvisited
    /\ \A p \in Pos : OctetOf[p] = OctetOf[target[t]] => latch[t][p] = table[p]

AccessInv == TodoHere /\ TargetHeld /\ LatchFresh

-----------------------------------------------------------------------------
(* The entries of a byte are entries of one row.                           *)
LEMMA OctetInRow ==
  ASSUME NEW p \in Pos, NEW q \in Pos, OctetOf[p] = OctetOf[q]
  PROVE  RowOf[p] = RowOf[q]
BY TableAssumption

(* An expansion of a pair of rows leads from the one to the other.         *)
LEMMA ExpansionRows ==
  ASSUME NEW a \in Rows, NEW b \in Rows, NEW e \in Expansions(a, b)
  PROVE  /\ e[1] \in Moves /\ e[2] \in Pos /\ Image[e[1]][e[2]] \in Pos
         /\ RowOf[e[2]] = a /\ RowOf[Image[e[1]][e[2]]] = b
<1>1. e[1] \in Moves /\ e[2] \in Pos /\ RowOf[e[2]] = a /\ RowMove[e[1]][a] = b
  BY DEF Expansions
<1>2. Image[e[1]] \in [Pos -> Pos]
  BY <1>1, TableAssumption
<1>3. Image[e[1]][e[2]] \in Pos
  BY <1>1, <1>2
<1>4. RowOf[Image[e[1]][e[2]]] = RowMove[e[1]][RowOf[e[2]]]
  BY <1>1, TableAssumption
<1>5. QED
  BY <1>1, <1>3, <1>4

(* The rows of a thread at work.                                           *)
LEMMA HeldRows ==
  ASSUME TypeOK, LockInv, NEW t \in Threads, Holding(t)
  PROVE  /\ cur[t] \in Pairs /\ cur[t][1] \in Rows /\ cur[t][2] \in Rows
         /\ From(t) \in Rows /\ To(t) \in Rows
         /\ RowsHeld(t) = {From(t), To(t)}
<1>1. cur[t] \in Pairs
  BY DEF LockInv, HeldBusy
<1>2. QED
  BY <1>1, PairsOfRows DEF From, To, RowsHeld, TypeOK

(* A store writes the entry it is meant for and nothing else: what it      *)
(* writes back to the other entries of the byte is what they hold.         *)
LEMMA StoreEffect ==
  ASSUME TypeOK, AccessInv, NEW t \in Threads, Store(t)
  PROVE  /\ target[t] \in Pos
         /\ table[target[t]] = Unvisited
         /\ table' = [table EXCEPT ![target[t]] = NextCode(depth)]
<1>1. target[t] \in Pos /\ table \in [Pos -> 0..3] /\ pc[t] = "store"
  BY DEF TypeOK, Store
<1>2. table' = [r \in Pos |-> IF r = target[t] THEN NextCode(depth)
                              ELSE IF OctetOf[r] = OctetOf[target[t]] THEN latch[t][r]
                              ELSE table[r]]
  BY DEF Store
<1>3. \A r \in Pos : OctetOf[r] = OctetOf[target[t]] => latch[t][r] = table[r]
  BY <1>1 DEF AccessInv, LatchFresh
<1>4. table[target[t]] = Unvisited
  BY <1>1 DEF AccessInv, LatchFresh
<1>5. QED
  BY <1>1, <1>2, <1>3, <1>4

-----------------------------------------------------------------------------
(* Initially no thread expands anything.                                   *)
LEMMA InitAccessInv == Init => AccessInv
BY DEF Init, AccessInv, TodoHere, TargetHeld, LatchFresh, Expanding

(* Nothing that concerns a thread at work changes: its invariant is kept.  *)
LEMMA AccessInvFrame ==
  ASSUME AccessInv, UNCHANGED <<table, cur, inverse, target, latch, todo>>,
         \A t \in Threads : pc'[t] # pc[t] => pc'[t] \notin {"visit", "store"}
  PROVE  AccessInv'
BY DEF AccessInv, TodoHere, TargetHeld, LatchFresh, Expanding, From, To, RowsHeld

(* Every step keeps the access invariant; a store by one thread leaves the *)
(* bytes of the others alone, for they are in other rows.                  *)
LEMMA NextAccessInv == TypeOK /\ LockInv /\ AccessInv /\ [Next]_vars => AccessInv'
<1> SUFFICES ASSUME TypeOK, LockInv, AccessInv, [Next]_vars PROVE AccessInv'
  OBVIOUS
<1>1. CASE Prepare
  <2>1. pc' = [t \in Threads |-> "lock"]
    BY <1>1 DEF Prepare
  <2>2. QED
    BY <2>1 DEF AccessInv, TodoHere, TargetHeld, LatchFresh, Expanding
<1>2. CASE Join
  BY <1>2, AccessInvFrame DEF Join, tableVars, workVars
<1>3. ASSUME NEW t \in Threads, Thread(t) PROVE AccessInv'
  <2>1. CASE Lock(t)
    BY <2>1, AccessInvFrame DEF Lock, tableVars, workVars, TypeOK
  <2>2. CASE Claim(t)
    <3>1. PICK n \in Claimable(t) : /\ cur' = [cur EXCEPT ![t] = n]
                                    /\ todo' = [todo EXCEPT ![t] = Expansions(n[1], n[2])]
      BY <2>2 DEF Claim
    <3>2. /\ pc' = [pc EXCEPT ![t] = "visit"]
          /\ inverse' = [inverse EXCEPT ![t] = FALSE]
          /\ UNCHANGED <<table, target, latch>>
      BY <2>2 DEF Claim, tableVars
    <3>3. TodoHere'
      <4>1. todo'[t] \subseteq Expansions(From(t), To(t))'
        BY <3>1, <3>2 DEF TypeOK, From, To, Expansions
      <4>2. ASSUME NEW u \in Threads \ {t}, Expanding(u)'
            PROVE  todo'[u] \subseteq Expansions(From(u), To(u))'
        BY <3>1, <3>2, <4>2 DEF TypeOK, AccessInv, TodoHere, Expanding, From, To, Expansions
      <4>3. QED
        BY <4>1, <4>2 DEF TodoHere
    <3>4. TargetHeld' /\ LatchFresh'
      BY <3>1, <3>2 DEF TypeOK, AccessInv, TargetHeld, LatchFresh, RowsHeld
    <3>5. QED
      BY <3>3, <3>4 DEF AccessInv
  <2>3. CASE Visit(t)
    <3>1. PICK e \in todo[t] :
            /\ todo' = [todo EXCEPT ![t] = @ \ {e}]
            /\ IF Reaches(e[2], Image[e[1]][e[2]])
               THEN /\ pc' = [pc EXCEPT ![t] = "store"]
                    /\ target' = [target EXCEPT ![t] = Image[e[1]][e[2]]]
                    /\ latch' = [latch EXCEPT ![t] =
                         [r \in Pos |-> IF OctetOf[r] = OctetOf[Image[e[1]][e[2]]]
                                        THEN table[r] ELSE 0]]
               ELSE UNCHANGED <<pc, target, latch>>
      BY <2>3 DEF Visit
    <3>2. pc[t] = "visit" /\ UNCHANGED <<table, cur, inverse>>
      BY <2>3 DEF Visit, tableVars
    <3>3. Image[e[1]][e[2]] \in Pos /\ RowOf[Image[e[1]][e[2]]] \in RowsHeld(t)
      <4>1. Holding(t) /\ Expanding(t)
        BY <3>2 DEF Holding, Expanding
      <4>2. e \in Expansions(From(t), To(t))
        BY <4>1 DEF AccessInv, TodoHere
      <4>3. From(t) \in Rows /\ To(t) \in Rows /\ RowsHeld(t) = {From(t), To(t)}
        BY <4>1, HeldRows
      <4>4. QED
        BY <4>2, <4>3, ExpansionRows
    <3>4. TodoHere'
      BY <3>1, <3>2 DEF TypeOK, AccessInv, TodoHere, Expanding, From, To
    <3>5. CASE Reaches(e[2], Image[e[1]][e[2]])
      <4>1. TargetHeld'
        BY <3>1, <3>2, <3>3, <3>5, ZenonT(30) DEF TypeOK, AccessInv, TargetHeld, RowsHeld
      <4>2. LatchFresh'
        <5>1. /\ target'[t] = Image[e[1]][e[2]]
              /\ latch'[t] = [r \in Pos |-> IF OctetOf[r] = OctetOf[Image[e[1]][e[2]]]
                                            THEN table[r] ELSE 0]
              /\ table[Image[e[1]][e[2]]] = Unvisited
          BY <3>1, <3>5 DEF TypeOK, Reaches
        <5>2. \A u \in Threads \ {t} : /\ target'[u] = target[u] /\ latch'[u] = latch[u]
                                       /\ pc'[u] = pc[u]
          BY <3>1, <3>5 DEF TypeOK
        <5>3. QED
          BY <3>2, <3>3, <5>1, <5>2 DEF AccessInv, LatchFresh
      <4>3. QED
        BY <3>4, <4>1, <4>2 DEF AccessInv
    <3>6. CASE ~Reaches(e[2], Image[e[1]][e[2]])
      BY <3>1, <3>2, <3>4, <3>6 DEF AccessInv, TargetHeld, LatchFresh, RowsHeld
    <3>7. QED
      BY <3>5, <3>6
  <2>4. CASE Store(t)
    <3>1. /\ pc' = [pc EXCEPT ![t] = "visit"] /\ pc[t] = "store"
          /\ target' = [target EXCEPT ![t] = Solved]
          /\ latch' = [latch EXCEPT ![t] = [p \in Pos |-> 0]]
          /\ UNCHANGED <<cur, inverse, todo>>
      BY <2>4 DEF Store
    <3>2. table' = [table EXCEPT ![target[t]] = NextCode(depth)] /\ target[t] \in Pos
      BY <2>4, StoreEffect
    <3>3. TodoHere'
      BY <3>1 DEF TypeOK, AccessInv, TodoHere, Expanding, From, To
    <3>4. TargetHeld'
      BY <3>1 DEF TypeOK, AccessInv, TargetHeld, RowsHeld
    <3>5. LatchFresh'
      <4>1. SUFFICES ASSUME NEW u \in Threads \ {t}, pc[u] = "store"
                     PROVE  /\ table'[target[u]] = Unvisited
                            /\ \A p \in Pos : OctetOf[p] = OctetOf[target[u]]
                                 => latch[u][p] = table'[p]
        BY <3>1 DEF TypeOK, LatchFresh
      <4>2. target[u] \in Pos
        BY DEF TypeOK
      <4>3. RowOf[target[u]] # RowOf[target[t]]
        <5>1. RowOf[target[u]] \in RowsHeld(u) /\ RowOf[target[t]] \in RowsHeld(t)
          BY <3>1, <4>1 DEF AccessInv, TargetHeld
        <5>2. RowsHeld(u) \intersect RowsHeld(t) = {}
          BY <3>1, <4>1 DEF LockInv, RowExclusive, Holding
        <5>3. QED
          BY <5>1, <5>2
      <4>4. \A p \in Pos : OctetOf[p] = OctetOf[target[u]] => p # target[t]
        BY <4>2, <4>3, OctetInRow
      <4>5. \A p \in Pos : p # target[t] => table'[p] = table[p]
        BY <3>2 DEF TypeOK
      <4>6. QED
        BY <4>1, <4>2, <4>4, <4>5 DEF AccessInv, LatchFresh
    <3>6. QED
      BY <3>3, <3>4, <3>5 DEF AccessInv
  <2>5. CASE Swap(t)
    <3>1. /\ inverse' = [inverse EXCEPT ![t] = TRUE]
          /\ todo' = [todo EXCEPT ![t] = Expansions(cur[t][2], cur[t][1])]
          /\ UNCHANGED <<table, pc, cur, target, latch>>
      BY <2>5 DEF Swap, tableVars
    <3>2. TodoHere'
      <4>1. todo'[t] \subseteq Expansions(From(t), To(t))'
        BY <3>1 DEF TypeOK, From, To, Expansions
      <4>2. ASSUME NEW u \in Threads \ {t}, Expanding(u)'
            PROVE  todo'[u] \subseteq Expansions(From(u), To(u))'
        BY <3>1, <4>2 DEF TypeOK, AccessInv, TodoHere, Expanding, From, To, Expansions
      <4>3. QED
        BY <4>1, <4>2 DEF TodoHere
    <3>3. QED
      BY <3>1, <3>2 DEF AccessInv, TargetHeld, LatchFresh, RowsHeld
  <2>6. CASE Finish(t)
    BY <2>6, AccessInvFrame DEF Finish, tableVars, workVars, TypeOK
  <2>7. CASE Relock(t)
    BY <2>7, AccessInvFrame DEF Relock, tableVars, workVars, TypeOK
  <2>8. CASE Rescan(t)
    BY <2>8, AccessInvFrame DEF Rescan, tableVars, workVars, TypeOK
  <2>9. CASE Exit(t)
    BY <2>9, AccessInvFrame DEF Exit, tableVars, workVars, TypeOK
  <2>10. QED
    BY <1>3, <2>1, <2>2, <2>3, <2>4, <2>5, <2>6, <2>7, <2>8, <2>9 DEF Thread
<1>4. CASE Terminated \/ UNCHANGED vars
  BY <1>4, AccessInvFrame DEF Terminated, vars, tableVars, workVars
<1>5. QED
  BY <1>1, <1>2, <1>3, <1>4 DEF Next

(* A thread about to store owns the row of its target and has a true       *)
(* picture of its byte, in every reachable state.                          *)
LEMMA AccessInvariant == Spec => []AccessInv
<1>1. Init => AccessInv
  BY InitAccessInv
<1>2. TypeOK /\ LockInv /\ AccessInv /\ [Next]_vars => AccessInv'
  BY NextAccessInv
<1>3. QED
  BY <1>1, <1>2, TypeCorrect, LockInvariant, PTL DEF Spec

-----------------------------------------------------------------------------
(* No step but a store of a thread or the start of the pass at the base    *)
(* depth changes the table.                                                *)
LEMMA TableFrame ==
  ASSUME [Next]_vars, ~Prepare, \A t \in Threads : ~Store(t)
  PROVE  UNCHANGED <<table, stripeMin>>
<1>1. CASE Join \/ Terminated \/ UNCHANGED vars
  BY <1>1 DEF Join, Terminated, vars, tableVars
<1>2. ASSUME NEW t \in Threads, Thread(t) PROVE UNCHANGED <<table, stripeMin>>
  BY <1>2 DEF Thread, Lock, Claim, Visit, Swap, Finish, Relock, Rescan, Exit, tableVars
<1>3. QED
  BY <1>1, <1>2 DEF Next

(* During the passes an entry once reached keeps its code: no store is     *)
(* lost or undone by another thread that stores to the same byte.          *)
THEOREM EntriesWrittenOnce == Spec => WriteOnce
<1> DEFINE Kept == phase = "pass" => \A p \in Visited : table'[p] = table[p]
<1>1. TypeOK /\ AccessInv /\ [Next]_vars => Kept
  <2> SUFFICES ASSUME TypeOK, AccessInv, [Next]_vars, phase = "pass"
               PROVE  \A p \in Visited : table'[p] = table[p]
    OBVIOUS
  <2>1. ASSUME NEW t \in Threads, Store(t) PROVE \A p \in Visited : table'[p] = table[p]
    BY <2>1, StoreEffect DEF Visited, TypeOK
  <2>2. ~Prepare
    BY DEF Prepare
  <2>3. QED
    BY <2>1, <2>2, TableFrame
<1>2. QED
  BY <1>1, TypeCorrect, AccessInvariant, PTL DEF Spec, WriteOnce

-----------------------------------------------------------------------------
(***************************************************************************)
(* The table while the entries of distance depth + 1 are being discovered. *)
(* From the pass at the base depth on, the codes are counted from BASE     *)
(* instead of modulo 3.                                                    *)
(***************************************************************************)
Zeroed  == depth > BASE \/ (depth = BASE /\ phase = "pass")
Mark(n) == IF ~Zeroed THEN n % 3 ELSE IF n <= BASE THEN 0 ELSE n - BASE
Outermost == IF phase = "pass" THEN depth + 1 ELSE depth

CodesExact     == \A p \in Visited : Dist[p] <= Outermost /\ table[p] = Mark(Dist[p])
LayersComplete == \A p \in Pos : Dist[p] <= depth => p \in Visited
MinimumBelow   == \A p \in Visited : stripeMin[StripeOf[p]] <= Dist[p]
MinimumReached ==
  \A s \in Stripes : stripeMin[s] # Untouched =>
    \E p \in Visited : StripeOf[p] = s /\ Dist[p] = stripeMin[s]
DirtyEarly     == \A p \in Visited : dirty[RowOf[p]] <= Dist[p]
HeldDirty      == \A t \in Threads : Holding(t) => \A r \in RowsHeld(t) : dirty[r] <= depth + 1
TargetNext     == \A t \in Threads : pc[t] = "store" => Dist[target[t]] = depth + 1
LastDepth      == phase = "generated" => depth = BASE + 2

CodeInv ==
  /\ CodesExact
  /\ LayersComplete
  /\ MinimumBelow
  /\ MinimumReached
  /\ DirtyEarly
  /\ HeldDirty
  /\ TargetNext
  /\ LastDepth

(***************************************************************************)
(* How far the pass has come.  An expansion is closed when it can enter    *)
(* nothing any more.  A thread has closed what it took from its todo set,  *)
(* up to the store it is about to make; a pair that is done is closed in   *)
(* both directions or still in the hands of a thread.                      *)
(***************************************************************************)
Closed(e)       == Dist[e[2]] = depth => Image[e[1]][e[2]] \in Visited
AllClosed(a, b) == \A e \in Expansions(a, b) : Closed(e)

TodoRest ==
  \A t \in Threads : Expanding(t) =>
    \A e \in Expansions(From(t), To(t)) \ todo[t] :
      Closed(e) \/ (pc[t] = "store" /\ Image[e[1]][e[2]] = target[t])
FirstClosed ==
  \A t \in Threads : Expanding(t) /\ inverse[t] => AllClosed(cur[t][1], cur[t][2])
RelockClosed ==
  \A t \in Threads : pc[t] = "relock" =>
    AllClosed(cur[t][1], cur[t][2]) /\ AllClosed(cur[t][2], cur[t][1])
DoneClosed ==
  phase = "pass" => \A n \in done :
    \/ \E t \in Threads : Expanding(t) /\ cur[t] = n
    \/ AllClosed(n[1], n[2]) /\ AllClosed(n[2], n[1])

WorkInv ==
  /\ TodoRest
  /\ FirstClosed
  /\ RelockClosed
  /\ DoneClosed

-----------------------------------------------------------------------------
(* The depth of a pass has room for one more layer.                        *)
LEMMA TypeInvariant == Spec => []TypeInv
<1>1. Init => TypeInv
  BY InitTypeInv
<1>2. TypeInv /\ [Next]_vars => TypeInv'
  BY NextTypeInv
<1>3. QED
  BY <1>1, <1>2, PTL DEF Spec

(* In a pass the codes of the frontier, of the layer behind it and of the  *)
(* layer that is being entered are as the expansion assumes: the code of   *)
(* the frontier is not taken for that of an entry made in this very pass.  *)
LEMMA PassCodes ==
  ASSUME TypeInv, phase = "pass"
  PROVE  /\ depth \in 0..(BASE + 1)
         /\ Mark(depth) = Code(depth) /\ Mark(depth + 1) = NextCode(depth)
         /\ Code(depth) \in 0..2 /\ NextCode(depth) \in 0..2
         /\ \A n \in 0..(depth + 1) : Mark(n) = Code(depth) => n <= depth
<1>1. depth \in 0..(BASE + 1)
  BY BaseAssumption DEF TypeInv, TypeOK
<1>2. CASE depth < BASE
  <2>1. Mark(depth) = depth % 3 /\ Code(depth) = depth % 3 /\ NextCode(depth) = ((depth % 3) + 1) % 3
    BY <1>1, <1>2, BaseAssumption DEF Mark, Zeroed, Code, NextCode
  <2>2. \A n \in 0..(depth + 1) : Mark(n) = n % 3
    BY <1>1, <1>2, BaseAssumption DEF Mark, Zeroed
  <2>3. \A n \in Nat : /\ ((n % 3) + 1) % 3 = (n + 1) % 3
                       /\ (n + 1) % 3 # n % 3
                       /\ n % 3 \in 0..2
    OBVIOUS
  <2>4. QED
    BY <1>1, <2>1, <2>2, <2>3
<1>3. CASE depth >= BASE
  BY <1>1, <1>3, BaseAssumption DEF Mark, Zeroed, Code, NextCode
<1>4. QED
  BY <1>1, <1>2, <1>3, BaseAssumption

(* What an expansion finds unvisited is in the next layer.                 *)
LEMMA ReachesNext ==
  ASSUME TypeInv, phase = "pass", CodeInv, NEW m \in Moves, NEW p \in Pos,
         Reaches(p, Image[m][p])
  PROVE  Dist[Image[m][p]] = depth + 1
<1>1. Image[m][p] \in Pos
  BY TableAssumption
<1>2. p \in Visited /\ Dist[p] <= depth
  <2>1. table[p] = Code(depth) /\ p \in Visited
    BY PassCodes DEF Reaches, Visited, Unvisited
  <2>2. Dist[p] \in 0..(depth + 1) /\ Mark(Dist[p]) = Code(depth)
    BY <2>1, DistAssumption, PassCodes DEF CodeInv, CodesExact, Outermost
  <2>3. QED
    BY <2>1, <2>2, PassCodes
<1>3. Image[m][p] \notin Visited
  BY DEF Reaches, Visited
<1>4. Dist[Image[m][p]] > depth
  BY <1>1, <1>3, DistAssumption, PassCodes DEF CodeInv, LayersComplete
<1>5. Dist[Image[m][p]] <= Dist[p] + 1
  BY DistAssumption
<1>6. Dist[Image[m][p]] \in Nat /\ Dist[p] \in Nat /\ depth \in Nat
  BY <1>1, DistAssumption, PassCodes
<1>7. QED
  BY <1>2, <1>4, <1>5, <1>6

(* An entry of the frontier is expanded: it is recognised by its code, and *)
(* its stripe is not skipped.                                              *)
LEMMA FrontierReaches ==
  ASSUME TypeInv, phase = "pass", CodeInv, NEW p \in Pos, NEW q \in Pos,
         Dist[p] = depth, ~Reaches(p, q)
  PROVE  q \in Visited
<1>1. p \in Visited /\ table[p] = Code(depth)
  BY PassCodes DEF CodeInv, LayersComplete, CodesExact
<1>2. stripeMin[StripeOf[p]] # Untouched
  BY <1>1, PassCodes, BaseAssumption DEF CodeInv, MinimumBelow, Untouched
<1>3. QED
  BY <1>1, <1>2 DEF Reaches, Visited

(* A clean row has no frontier.                                            *)
LEMMA CleanRow ==
  ASSUME TypeInv, CodeInv, NEW p \in Pos, Clean(RowOf[p])
  PROVE  Dist[p] # depth
<1>1. RowOf[p] \in Rows /\ dirty[RowOf[p]] \in Nat /\ depth \in Nat
  <2>1. RowOf \in [Pos -> Rows]
    BY TableAssumption
  <2>2. dirty \in [Rows -> 0..255] /\ depth \in 0..(BASE + 2) /\ BASE \in Nat
    BY BaseAssumption DEF TypeInv, TypeOK
  <2>3. QED
    BY <2>1, <2>2
<1>2. SUFFICES ASSUME Dist[p] = depth PROVE FALSE
  OBVIOUS
<1>3. p \in Visited
  BY <1>1, <1>2 DEF CodeInv, LayersComplete
<1>4. QED
  BY <1>1, <1>2, <1>3 DEF CodeInv, DirtyEarly, Clean

(* Hence nothing is lost when a pair of clean rows is marked done.         *)
LEMMA SkippedClosed ==
  ASSUME TypeInv, CodeInv, NEW t \in Threads, NEW n \in Skippable(t)
  PROVE  AllClosed(n[1], n[2]) /\ AllClosed(n[2], n[1])
<1>1. n \in Pairs /\ Clean(n[1]) /\ Clean(n[2])
  BY DEF Skippable, Pending, TypeInv, TypeOK
<1>2. QED
  BY <1>1, PairsOfRows, ExpansionRows, CleanRow DEF AllClosed, Closed

(* When every thread has left the pass the next layer is complete: each of *)
(* its entries is reached by an expansion of some pair, and all pairs are  *)
(* done.                                                                   *)
LEMMA LayerDone ==
  ASSUME TypeInv, LockInv, CodeInv, WorkInv, phase = "pass",
         \A t \in Threads : pc[t] = "exit",
         NEW q \in Pos, Dist[q] = depth + 1
  PROVE  q \in Visited
<1>1. PICK p \in Pos, m \in Moves : Image[m][p] = q /\ Dist[p] = depth
  <2>1. q # Solved
    BY DistAssumption, PassCodes
  <2>2. PICK p \in Pos, m \in Moves : Image[m][p] = q /\ Dist[q] = Dist[p] + 1
    BY <2>1, DistAssumption
  <2>3. QED
    BY <2>2, DistAssumption, PassCodes
<1> DEFINE a == RowOf[p]
           b == RowOf[q]
<1>2. a \in Rows /\ b \in Rows /\ RowMove[m][a] = b
  BY <1>1, TableAssumption
<1>3. <<m, p>> \in Expansions(a, b)
  BY <1>1, <1>2 DEF Expansions
<1>4. <<a, b>> \in Pairs \/ <<b, a>> \in Pairs
  <2>1. a <= b \/ b <= a
    <3>1. a \in Nat /\ b \in Nat
      BY <1>2, TableAssumption
    <3>2. QED
      BY <3>1
  <2>2. QED
    BY <1>2, <2>1 DEF Pairs
<1>5. Pairs \subseteq done
  BY DEF LockInv, AllPairsDone
<1>6. AllClosed(a, b)
  BY <1>4, <1>5 DEF WorkInv, DoneClosed, Expanding
<1>7. QED
  BY <1>1, <1>3, <1>6 DEF AllClosed, Closed

-----------------------------------------------------------------------------
(* Threads are at work only in a pass.                                     *)
LEMMA WorkInPass ==
  ASSUME LockInv, NEW t \in Threads, pc[t] # "exit"
  PROVE  phase = "pass"
BY DEF LockInv, JoinedIdle

(* A store enters one entry, of the next layer, with the code of that      *)
(* layer.                                                                  *)
LEMMA StoreEnters ==
  ASSUME TypeInv, LockInv, AccessInv, CodeInv, NEW t \in Threads, Store(t)
  PROVE  /\ phase = "pass" /\ phase' = phase /\ depth' = depth
         /\ target[t] \in Pos \ Visited
         /\ Dist[target[t]] = depth + 1
         /\ table' = [table EXCEPT ![target[t]] = Mark(depth + 1)]
         /\ Visited' = Visited \union {target[t]}
<1>1. phase = "pass" /\ phase' = phase /\ depth' = depth
  BY WorkInPass DEF Store, mainVars
<1>2. target[t] \in Pos /\ table[target[t]] = Unvisited
  BY StoreEffect DEF TypeInv
<1>3. table' = [table EXCEPT ![target[t]] = Mark(depth + 1)] /\ Mark(depth + 1) # Unvisited
  BY <1>1, StoreEffect, PassCodes DEF TypeInv, Unvisited
<1>4. Visited' = Visited \union {target[t]}
  BY <1>2, <1>3 DEF Visited, TypeInv, TypeOK
<1>5. Dist[target[t]] = depth + 1
  BY DEF Store, CodeInv, TargetNext
<1>6. QED
  BY <1>1, <1>2, <1>3, <1>4, <1>5 DEF Visited

(* The initial table holds the solved entry and nothing else.              *)
LEMMA InitCodeInv == Init => CodeInv
<1> SUFFICES ASSUME Init PROVE CodeInv
  OBVIOUS
<1>1. Visited = {Solved} /\ Dist[Solved] = 0
  BY DistAssumption DEF Init, Visited, Unvisited
<1>2. phase = "prepare" /\ depth = 0 /\ BASE \in 1..12
  BY BaseAssumption DEF Init
<1>3. CodesExact
  <2>1. table[Solved] = 0
    BY DistAssumption DEF Init
  <2>2. QED
    BY <1>1, <1>2, <2>1 DEF CodesExact, Outermost, Mark, Zeroed
<1>4. LayersComplete
  BY <1>1, <1>2, DistAssumption DEF LayersComplete
<1>5. MinimumBelow /\ MinimumReached
  <2>1. StripeOf[Solved] \in Stripes
    BY DistAssumption DEF Stripes
  <2>2. stripeMin = [s \in Stripes |-> IF s = StripeOf[Solved] THEN 0 ELSE Untouched]
    BY DEF Init
  <2>3. QED
    BY <1>1, <2>1, <2>2 DEF MinimumBelow, MinimumReached
<1>6. DirtyEarly
  <2>1. RowOf[Solved] \in Rows
    BY TableAssumption, DistAssumption
  <2>2. QED
    BY <1>1, <2>1 DEF Init, DirtyEarly
<1>7. HeldDirty /\ TargetNext /\ LastDepth
  BY DEF Init, HeldDirty, TargetNext, LastDepth, Holding
<1>8. QED
  BY <1>3, <1>4, <1>5, <1>6, <1>7 DEF CodeInv

(* Steps of the threads other than a claim or a store.                     *)
LEMMA CodeInvFrame ==
  ASSUME CodeInv, UNCHANGED <<phase, depth, table, stripeMin, dirty, cur>>,
         \A t \in Threads : Holding(t)' => Holding(t),
         \A t \in Threads : pc'[t] = "store" =>
           (pc[t] = "store" /\ target'[t] = target[t]) \/ Dist[target'[t]] = depth + 1
  PROVE  CodeInv'
<1>1. Visited' = Visited
  BY DEF Visited
<1>2. CodesExact' /\ LayersComplete' /\ MinimumBelow' /\ MinimumReached' /\ DirtyEarly' /\ LastDepth'
  BY <1>1 DEF CodeInv, CodesExact, LayersComplete, MinimumBelow, MinimumReached, DirtyEarly,
              LastDepth, Outermost, Mark, Zeroed
<1>3. HeldDirty' /\ TargetNext'
  BY DEF CodeInv, HeldDirty, TargetNext, RowsHeld
<1>4. QED
  BY <1>2, <1>3 DEF CodeInv

(* Every step keeps the meaning of codes, minima and dirty depths.         *)
LEMMA NextCodeInv ==
  TypeInv /\ LockInv /\ AccessInv /\ CodeInv /\ WorkInv /\ [Next]_vars => CodeInv'
<1> SUFFICES ASSUME TypeInv, LockInv, AccessInv, CodeInv, WorkInv, [Next]_vars PROVE CodeInv'
  OBVIOUS
<1>0. /\ table \in [Pos -> 0..3] /\ stripeMin \in [Stripes -> 0..15] /\ dirty \in [Rows -> 0..255]
      /\ depth \in Nat /\ Dist \in [Pos -> Nat] /\ RowOf \in [Pos -> Rows] /\ BASE \in 1..12
  BY BaseAssumption, DistAssumption, TableAssumption, SMTT(30) DEF TypeInv, TypeOK
<1>1. CASE Prepare
  <2>1. /\ phase = "prepare" /\ phase' = "pass"
        /\ table' = IF depth = BASE THEN ZeroVisited ELSE table
        /\ UNCHANGED <<depth, stripeMin, dirty>>
        /\ \A t \in Threads : pc'[t] = "lock"
    BY <1>1 DEF Prepare
  <2>2. Visited' = Visited
    BY <1>0, <2>1 DEF Visited, ZeroVisited, Unvisited
  <2>3. CodesExact'
    <3>1. SUFFICES ASSUME NEW p \in Visited
                   PROVE  Dist[p] <= depth + 1 /\ table'[p] = Mark(Dist[p])'
      BY <2>1, <2>2 DEF CodesExact, Outermost
    <3>2. p \in Pos /\ table[p] # Unvisited /\ Dist[p] <= depth /\ table[p] = Mark(Dist[p])
      BY <2>1 DEF CodeInv, CodesExact, Outermost, Visited
    <3>3. CASE depth = BASE
      BY <1>0, <2>1, <3>2, <3>3 DEF ZeroVisited, Mark, Zeroed
    <3>4. CASE depth # BASE
      BY <1>0, <2>1, <3>2, <3>4 DEF Mark, Zeroed
    <3>5. QED
      BY <1>0, <3>2, <3>3, <3>4
  <2>4. LayersComplete' /\ MinimumBelow' /\ MinimumReached' /\ DirtyEarly'
    BY <2>1, <2>2 DEF CodeInv, LayersComplete, MinimumBelow, MinimumReached, DirtyEarly
  <2>5. HeldDirty' /\ TargetNext' /\ LastDepth'
    BY <2>1 DEF HeldDirty, TargetNext, LastDepth, Holding
  <2>6. QED
    BY <2>3, <2>4, <2>5 DEF CodeInv
<1>2. CASE Join
  <2>1. /\ phase = "pass" /\ \A t \in Threads : pc[t] = "exit"
        /\ depth' = depth + 1
        /\ phase' = IF depth' <= BASE + 1 THEN "prepare" ELSE "generated"
        /\ UNCHANGED <<table, stripeMin, dirty, pc>>
    BY <1>2 DEF Join, tableVars, sharedVars
  <2>2. Visited' = Visited
    BY <2>1 DEF Visited
  <2>3. CodesExact'
    BY <1>0, <2>1, <2>2 DEF CodeInv, CodesExact, Outermost, Mark, Zeroed
  <2>4. LayersComplete'
    <3>1. SUFFICES ASSUME NEW p \in Pos, Dist[p] <= depth + 1 PROVE p \in Visited
      BY <2>1, <2>2 DEF LayersComplete
    <3>2. CASE Dist[p] <= depth
      BY <3>2 DEF CodeInv, LayersComplete
    <3>3. CASE Dist[p] = depth + 1
      BY <2>1, <3>3, LayerDone
    <3>4. QED
      BY <1>0, <3>1, <3>2, <3>3
  <2>5. MinimumBelow' /\ MinimumReached' /\ DirtyEarly'
    BY <2>1, <2>2 DEF CodeInv, MinimumBelow, MinimumReached, DirtyEarly
  <2>6. HeldDirty' /\ TargetNext'
    BY <2>1 DEF HeldDirty, TargetNext, Holding
  <2>7. LastDepth'
    BY <1>0, <2>1 DEF LastDepth, TypeInv
  <2>8. QED
    BY <2>3, <2>4, <2>5, <2>6, <2>7 DEF CodeInv
<1>3. ASSUME NEW t \in Threads, Thread(t) PROVE CodeInv'
  <2>1. CASE Claim(t)
    <3>1. PICK n \in Claimable(t) :
            /\ dirty' = [r \in Rows |->
                           IF r \in {n[1], n[2]} /\ Clean(r) THEN depth + 1 ELSE dirty[r]]
            /\ cur' = [cur EXCEPT ![t] = n]
      BY <2>1 DEF Claim
    <3>2. /\ pc[t] = "scan" /\ pc' = [pc EXCEPT ![t] = "visit"]
          /\ UNCHANGED <<phase, depth, table, stripeMin, target>>
      BY <2>1 DEF Claim, mainVars, tableVars
    <3>3. Visited' = Visited
      BY <3>2 DEF Visited
    <3>4. CodesExact' /\ LayersComplete' /\ MinimumBelow' /\ MinimumReached' /\ LastDepth'
      BY <3>2, <3>3 DEF CodeInv, CodesExact, LayersComplete, MinimumBelow, MinimumReached,
                        LastDepth, Outermost, Mark, Zeroed
    <3>5. DirtyEarly'
      <4>1. SUFFICES ASSUME NEW p \in Visited PROVE dirty'[RowOf[p]] <= Dist[p]
        BY <3>3 DEF DirtyEarly
      <4>2. p \in Pos /\ RowOf[p] \in Rows /\ dirty[RowOf[p]] <= Dist[p]
        BY <1>0 DEF CodeInv, DirtyEarly, Visited
      <4>3. QED
        BY <1>0, <3>1, <4>2 DEF Clean
    <3>6. HeldDirty'
      <4>1. n \in Pairs
        BY DEF Claimable, Pending, TypeInv, TypeOK
      <4>2. \A r \in {n[1], n[2]} : dirty'[r] <= depth + 1
        BY <1>0, <3>1, <4>1, PairsOfRows, SMTT(30) DEF Clean
      <4>3. RowsHeld(t)' = {n[1], n[2]}
        BY <3>1 DEF RowsHeld, TypeInv, TypeOK
      <4>4. ASSUME NEW u \in Threads \ {t}, Holding(u)', NEW r \in RowsHeld(u)'
            PROVE  dirty'[r] <= depth + 1
        <5>1. Holding(u) /\ r \in RowsHeld(u)
          BY <3>1, <3>2, <4>4 DEF Holding, RowsHeld, TypeInv, TypeOK
        <5>2. r \in Rows /\ dirty[r] <= depth + 1
          BY <5>1, HeldRows DEF RowsHeld, CodeInv, HeldDirty, TypeInv
        <5>3. QED
          BY <1>0, <3>1, <5>2
      <4>5. QED
        BY <3>2, <4>2, <4>3, <4>4 DEF HeldDirty
    <3>7. TargetNext'
      BY <3>2 DEF CodeInv, TargetNext, TypeInv, TypeOK
    <3>8. QED
      BY <3>4, <3>5, <3>6, <3>7 DEF CodeInv
  <2>2. CASE Store(t)
    <3> DEFINE q == target[t]
    <3>1. /\ phase = "pass" /\ phase' = phase /\ depth' = depth
          /\ q \in Pos \ Visited /\ Dist[q] = depth + 1
          /\ table' = [table EXCEPT ![q] = Mark(depth + 1)]
          /\ Visited' = Visited \union {q}
      BY <2>2, StoreEnters
    <3>2. /\ stripeMin' = [stripeMin EXCEPT ![StripeOf[q]] = IF @ = Untouched THEN depth + 1 ELSE @]
          /\ pc[t] = "store" /\ pc' = [pc EXCEPT ![t] = "visit"]
          /\ target' = [target EXCEPT ![t] = Solved]
          /\ UNCHANGED <<dirty, cur>>
      BY <2>2 DEF Store, sharedVars
    <3>3. StripeOf[q] \in Stripes /\ \A p \in Visited : p \in Pos /\ StripeOf[p] \in Stripes
      BY <3>1 DEF Stripes, Visited
    <3> HIDE DEF q
    <3>4. CodesExact'
      <4>1. \A n : Mark(n)' = Mark(n)
        BY <3>1 DEF Mark, Zeroed
      <4>2. \A p \in Visited : table'[p] = table[p]
        BY <1>0, <3>1, <3>3
      <4>3. Outermost = depth + 1 /\ Outermost' = depth + 1
        BY <3>1 DEF Outermost
      <4>4. QED
        BY <1>0, <3>1, <4>1, <4>2, <4>3 DEF CodeInv, CodesExact
    <3>5. LayersComplete' /\ LastDepth'
      BY <3>1 DEF CodeInv, LayersComplete, LastDepth
    <3>6. MinimumBelow'
      <4>1. SUFFICES ASSUME NEW p \in Visited' PROVE stripeMin'[StripeOf[p]] <= Dist[p]
        BY DEF MinimumBelow
      <4>2. CASE p = q
        <5>1. CASE stripeMin[StripeOf[q]] = Untouched
          BY <1>0, <3>1, <3>2, <3>3, <4>2, <5>1
        <5>2. CASE stripeMin[StripeOf[q]] # Untouched
          <6>1. PICK w \in Visited : StripeOf[w] = StripeOf[q] /\ Dist[w] = stripeMin[StripeOf[q]]
            BY <3>3, <5>2 DEF CodeInv, MinimumReached
          <6>2. Dist[w] <= depth + 1
            BY <3>1 DEF CodeInv, CodesExact, Outermost
          <6>3. QED
            BY <1>0, <3>1, <3>2, <3>3, <4>2, <5>2, <6>1, <6>2
        <5>3. QED
          BY <5>1, <5>2
      <4>3. CASE p \in Visited
        <5>1. p \in Pos /\ StripeOf[p] \in Stripes /\ stripeMin[StripeOf[p]] <= Dist[p]
          BY <3>3, <4>3 DEF CodeInv, MinimumBelow
        <5>2. stripeMin'[StripeOf[p]] = stripeMin[StripeOf[p]]
               \/ stripeMin[StripeOf[p]] = Untouched
          BY <1>0, <3>2, <5>1
        <5>3. stripeMin[StripeOf[p]] # Untouched
          <6>1. Dist[p] <= depth + 1
            BY <3>1, <4>3 DEF CodeInv, CodesExact, Outermost
          <6>2. depth + 1 <= 14
            BY <1>0, <3>1, PassCodes
          <6>3. QED
            BY <1>0, <5>1, <6>1, <6>2 DEF Untouched
        <5>4. QED
          BY <5>1, <5>2, <5>3
      <4>4. QED
        BY <3>1, <4>1, <4>2, <4>3
    <3>7. MinimumReached'
      <4>1. SUFFICES ASSUME NEW s \in Stripes, stripeMin'[s] # Untouched
                     PROVE  \E p \in Visited' : StripeOf[p] = s /\ Dist[p] = stripeMin'[s]
        BY DEF MinimumReached
      <4>2. CASE stripeMin[s] # Untouched
        <5>1. stripeMin'[s] = stripeMin[s]
          BY <1>0, <3>2, <4>2
        <5>2. QED
          BY <3>1, <4>2, <5>1 DEF CodeInv, MinimumReached
      <4>3. CASE stripeMin[s] = Untouched
        BY <1>0, <3>1, <3>2, <4>1, <4>3
      <4>4. QED
        BY <4>2, <4>3
    <3>8. DirtyEarly'
      <4>1. dirty[RowOf[q]] <= depth + 1
        <5>1. RowOf[q] \in RowsHeld(t) /\ Holding(t)
          BY <3>2 DEF AccessInv, TargetHeld, Holding, q
        <5>2. QED
          BY <5>1 DEF CodeInv, HeldDirty
      <4>2. QED
        BY <3>1, <3>2, <4>1 DEF CodeInv, DirtyEarly
    <3>9. HeldDirty'
      BY <3>1, <3>2 DEF CodeInv, HeldDirty, Holding, RowsHeld, TypeInv, TypeOK
    <3>10. TargetNext'
      BY <3>1, <3>2 DEF CodeInv, TargetNext, TypeInv, TypeOK
    <3>11. QED
      BY <3>4, <3>5, <3>6, <3>7, <3>8, <3>9, <3>10 DEF CodeInv
  <2>3. CASE Visit(t)
    <3>1. PICK e \in todo[t] :
            IF Reaches(e[2], Image[e[1]][e[2]])
            THEN /\ pc' = [pc EXCEPT ![t] = "store"]
                 /\ target' = [target EXCEPT ![t] = Image[e[1]][e[2]]]
            ELSE UNCHANGED <<pc, target>>
      BY <2>3 DEF Visit
    <3>2. pc[t] = "visit" /\ UNCHANGED <<phase, depth, table, stripeMin, dirty, cur>>
      BY <2>3 DEF Visit, mainVars, tableVars, sharedVars
    <3>3. Reaches(e[2], Image[e[1]][e[2]]) => Dist[Image[e[1]][e[2]]] = depth + 1
      <4>1. phase = "pass"
        BY <3>2, WorkInPass
      <4>2. e[1] \in Moves /\ e[2] \in Pos
        BY DEF TypeInv, TypeOK
      <4>3. QED
        BY <4>1, <4>2, ReachesNext
    <3>4. QED
      BY <3>1, <3>2, <3>3, CodeInvFrame DEF Holding, TypeInv, TypeOK
  <2>4. CASE Swap(t) \/ Finish(t) \/ Lock(t) \/ Relock(t) \/ Rescan(t) \/ Exit(t)
    <3>1. UNCHANGED <<phase, depth, table, stripeMin, dirty, cur, target>>
      BY <2>4 DEF Swap, Finish, Lock, Relock, Rescan, Exit, mainVars, tableVars, sharedVars, workVars
    <3>2. \A u \in Threads : pc'[u] = "store" => pc[u] = "store"
      BY <2>4 DEF Swap, Finish, Lock, Relock, Rescan, Exit, TypeInv, TypeOK
    <3>3. \A u \in Threads : Holding(u)' => Holding(u)
      BY <2>4 DEF Swap, Finish, Lock, Relock, Rescan, Exit, Holding, TypeInv, TypeOK
    <3>4. QED
      BY <3>1, <3>2, <3>3, CodeInvFrame
  <2>5. QED
    BY <1>3, <2>1, <2>2, <2>3, <2>4 DEF Thread
<1>4. CASE Terminated \/ UNCHANGED vars
  <2>1. UNCHANGED <<phase, depth, table, stripeMin, dirty, cur, pc, target>>
    BY <1>4 DEF Terminated, vars, mainVars, tableVars, sharedVars, workVars
  <2>2. QED
    BY <2>1, CodeInvFrame DEF Holding
<1>5. QED
  BY <1>1, <1>2, <1>3, <1>4 DEF Next

-----------------------------------------------------------------------------
(* Initially nothing is done and nobody is at work.                        *)
LEMMA InitWorkInv == Init => WorkInv
BY DEF Init, WorkInv, TodoRest, FirstClosed, RelockClosed, DoneClosed, Expanding

(* In a pass what is closed stays closed, for no entry is lost.            *)
LEMMA ClosedStays ==
  ASSUME TypeInv, LockInv, AccessInv, CodeInv, NEW t \in Threads, Thread(t)
  PROVE  /\ depth' = depth /\ Visited \subseteq Visited'
         /\ \A e : Closed(e) => Closed(e)'
         /\ \A a, b : AllClosed(a, b) => AllClosed(a, b)'
<1>1. depth' = depth
  BY DEF Thread, Lock, Claim, Visit, Store, Swap, Finish, Relock, Rescan, Exit, mainVars
<1>2. Visited \subseteq Visited'
  <2>1. CASE Store(t)
    BY <2>1, StoreEnters
  <2>2. CASE ~Store(t)
    BY <2>2 DEF Thread, Lock, Claim, Visit, Swap, Finish, Relock, Rescan, Exit, tableVars, Visited
  <2>3. QED
    BY <2>1, <2>2
<1>3. \A e : Closed(e) => Closed(e)'
  BY <1>1, <1>2 DEF Closed
<1>4. QED
  BY <1>1, <1>2, <1>3 DEF AllClosed, Expansions

(* What a step of t leaves alone of the work of the other threads.         *)
LEMMA OthersWork ==
  ASSUME TypeInv, LockInv, AccessInv, CodeInv, WorkInv, NEW t \in Threads, Thread(t),
         NEW u \in Threads \ {t}
  PROVE  /\ UNCHANGED <<pc[u], cur[u], inverse[u], todo[u], target[u]>>
         /\ Expanding(u) =>
              \A e \in Expansions(From(u), To(u)) \ todo[u] :
                Closed(e)' \/ (pc[u] = "store" /\ Image[e[1]][e[2]] = target[u])
         /\ Expanding(u) /\ inverse[u] => AllClosed(cur[u][1], cur[u][2])'
         /\ pc[u] = "relock" =>
              AllClosed(cur[u][1], cur[u][2])' /\ AllClosed(cur[u][2], cur[u][1])'
<1>1. UNCHANGED <<pc[u], cur[u], inverse[u], todo[u], target[u]>>
  BY DEF Thread, Lock, Claim, Visit, Store, Swap, Finish, Relock, Rescan, Exit, workVars,
         TypeInv, TypeOK
<1>2. QED
  BY <1>1, ClosedStays DEF WorkInv, TodoRest, FirstClosed, RelockClosed

(* The invariant after a step of t, from what the step does to t and done. *)
LEMMA WorkStep ==
  ASSUME TypeInv, LockInv, AccessInv, CodeInv, WorkInv, NEW t \in Threads, Thread(t),
         Expanding(t)' =>
           \A e \in Expansions(From(t), To(t))' \ todo'[t] :
             Closed(e)' \/ (pc'[t] = "store" /\ Image[e[1]][e[2]] = target'[t]),
         Expanding(t)' /\ inverse'[t] => AllClosed(cur[t][1], cur[t][2])',
         pc'[t] = "relock" =>
           AllClosed(cur[t][1], cur[t][2])' /\ AllClosed(cur[t][2], cur[t][1])',
         \A n \in done' :
           \/ \E u \in Threads : Expanding(u)' /\ cur'[u] = n
           \/ AllClosed(n[1], n[2])' /\ AllClosed(n[2], n[1])'
  PROVE  WorkInv'
<1>1. TodoRest'
  BY OthersWork DEF TodoRest, Expanding, From, To, Expansions
<1>2. FirstClosed'
  BY OthersWork DEF FirstClosed, Expanding
<1>3. RelockClosed'
  BY OthersWork DEF RelockClosed
<1>4. DoneClosed'
  BY DEF DoneClosed
<1>5. QED
  BY <1>1, <1>2, <1>3, <1>4 DEF WorkInv

(* Every step keeps the account of what is closed.                         *)
LEMMA NextWorkInv ==
  TypeInv /\ LockInv /\ AccessInv /\ CodeInv /\ WorkInv /\ [Next]_vars => WorkInv'
<1> SUFFICES ASSUME TypeInv, LockInv, AccessInv, CodeInv, WorkInv, [Next]_vars PROVE WorkInv'
  OBVIOUS
<1>1. CASE Prepare
  <2>1. done' = {} /\ \A t \in Threads : pc'[t] = "lock"
    BY <1>1 DEF Prepare
  <2>2. QED
    BY <2>1 DEF WorkInv, TodoRest, FirstClosed, RelockClosed, DoneClosed, Expanding
<1>2. CASE Join
  <2>1. phase' # "pass" /\ \A t \in Threads : pc'[t] = "exit"
    BY <1>2 DEF Join
  <2>2. QED
    BY <2>1 DEF WorkInv, TodoRest, FirstClosed, RelockClosed, DoneClosed, Expanding
<1>3. ASSUME NEW t \in Threads, Thread(t) PROVE WorkInv'
  <2>1. /\ depth' = depth /\ Visited \subseteq Visited'
        /\ \A e : Closed(e) => Closed(e)'
        /\ \A a, b : AllClosed(a, b) => AllClosed(a, b)'
    BY <1>3, ClosedStays
  <2>2. phase = "pass"
    <3>1. pc[t] # "exit"
      BY <1>3 DEF Thread, Lock, Claim, Visit, Store, Swap, Finish, Relock, Rescan, Exit
    <3>2. QED
      BY <3>1, WorkInPass
  \* a pair that was done stays accounted for, unless it is the pair of t and t leaves it
  <2>3. ASSUME NEW n \in done, ~(Expanding(t) /\ cur[t] = n) \/ (Expanding(t)' /\ cur'[t] = n)
        PROVE  \/ \E u \in Threads : Expanding(u)' /\ cur'[u] = n
               \/ AllClosed(n[1], n[2])' /\ AllClosed(n[2], n[1])'
    <3>1. CASE AllClosed(n[1], n[2]) /\ AllClosed(n[2], n[1])
      BY <2>1, <3>1
    <3>2. CASE \E u \in Threads \ {t} : Expanding(u) /\ cur[u] = n
      BY <1>3, <3>2, OthersWork DEF Expanding
    <3>3. QED
      BY <2>2, <2>3, <3>1, <3>2 DEF WorkInv, DoneClosed
  <2>4. \A n \in Skippable(t) : AllClosed(n[1], n[2])' /\ AllClosed(n[2], n[1])'
    BY <2>1, SkippedClosed
  <2>5. CASE Claim(t)
    <3>1. PICK n \in Claimable(t) :
            /\ done' = done \union {n} \union {k \in Skippable(t) : Before(k, n)}
            /\ cur' = [cur EXCEPT ![t] = n]
            /\ todo' = [todo EXCEPT ![t] = Expansions(n[1], n[2])]
      BY <2>5 DEF Claim
    <3>2. /\ pc[t] = "scan" /\ pc' = [pc EXCEPT ![t] = "visit"]
          /\ inverse' = [inverse EXCEPT ![t] = FALSE]
      BY <2>5 DEF Claim
    <3>3. Expanding(t)' /\ ~Expanding(t) /\ cur'[t] = n /\ ~inverse'[t] /\ pc'[t] = "visit"
      BY <3>1, <3>2 DEF Expanding, TypeInv, TypeOK
    <3>4. Expansions(From(t), To(t))' \ todo'[t] = {}
      BY <3>1, <3>3 DEF From, To, Expansions, TypeInv, TypeOK
    <3>5. \A k \in done' :
            \/ \E u \in Threads : Expanding(u)' /\ cur'[u] = k
            \/ AllClosed(k[1], k[2])' /\ AllClosed(k[2], k[1])'
      BY <2>3, <2>4, <3>1, <3>3
    <3>6. QED
      BY <1>3, <3>3, <3>4, <3>5, WorkStep
  <2>6. CASE Visit(t)
    <3>1. PICK e \in todo[t] :
            /\ todo' = [todo EXCEPT ![t] = @ \ {e}]
            /\ IF Reaches(e[2], Image[e[1]][e[2]])
               THEN /\ pc' = [pc EXCEPT ![t] = "store"]
                    /\ target' = [target EXCEPT ![t] = Image[e[1]][e[2]]]
               ELSE UNCHANGED <<pc, target>>
      BY <2>6 DEF Visit
    <3>2. /\ pc[t] = "visit" /\ UNCHANGED <<done, cur, inverse>>
          /\ pc'[t] \in {"visit", "store"}
      BY <2>6 DEF Visit, sharedVars, TypeInv, TypeOK
    <3>3. Closed(e)' \/ (pc'[t] = "store" /\ Image[e[1]][e[2]] = target'[t])
      <4>1. e[1] \in Moves /\ e[2] \in Pos /\ Image[e[1]][e[2]] \in Pos
        <5>1. e[1] \in Moves /\ e[2] \in Pos
          BY DEF TypeInv, TypeOK
        <5>2. QED
          BY <5>1, TableAssumption, ZenonT(30)
      <4>2. CASE Reaches(e[2], Image[e[1]][e[2]])
        BY <3>1, <4>2 DEF TypeInv, TypeOK
      <4>3. CASE ~Reaches(e[2], Image[e[1]][e[2]])
        BY <2>1, <2>2, <4>1, <4>3, FrontierReaches DEF Closed
      <4>4. QED
        BY <4>2, <4>3
    <3>4. \A f \in Expansions(From(t), To(t))' \ todo'[t] :
            Closed(f)' \/ (pc'[t] = "store" /\ Image[f[1]][f[2]] = target'[t])
      <4>1. \A f \in Expansions(From(t), To(t)) \ todo[t] : Closed(f)
        BY <3>2 DEF WorkInv, TodoRest, Expanding
      <4>2. Expansions(From(t), To(t))' \ todo'[t]
              \subseteq (Expansions(From(t), To(t)) \ todo[t]) \union {e}
        BY <3>1, <3>2 DEF From, To, Expansions, TypeInv, TypeOK
      <4>3. QED
        BY <2>1, <3>3, <4>1, <4>2
    <3>5. inverse'[t] => AllClosed(cur[t][1], cur[t][2])'
      BY <2>1, <3>2 DEF WorkInv, FirstClosed, Expanding
    <3>6. \A n \in done' :
            \/ \E u \in Threads : Expanding(u)' /\ cur'[u] = n
            \/ AllClosed(n[1], n[2])' /\ AllClosed(n[2], n[1])'
      BY <2>3, <3>2 DEF Expanding
    <3>7. QED
      BY <1>3, <3>2, <3>4, <3>5, <3>6, WorkStep DEF Expanding
  <2>7. CASE Store(t)
    <3>1. /\ pc[t] = "store" /\ pc'[t] = "visit" /\ UNCHANGED <<done, cur, inverse, todo>>
      BY <2>7 DEF Store, sharedVars, TypeInv, TypeOK
    <3>2. target[t] \in Visited'
      BY <2>7, StoreEnters
    <3>3. \A f \in Expansions(From(t), To(t))' \ todo'[t] : Closed(f)'
      <4>1. \A f \in Expansions(From(t), To(t)) \ todo[t] :
              Closed(f) \/ Image[f[1]][f[2]] = target[t]
        BY <3>1 DEF WorkInv, TodoRest, Expanding
      <4>2. Expansions(From(t), To(t))' \ todo'[t] = Expansions(From(t), To(t)) \ todo[t]
        BY <3>1 DEF From, To, Expansions
      <4>3. QED
        BY <2>1, <3>2, <4>1, <4>2 DEF Closed
    <3>4. inverse'[t] => AllClosed(cur[t][1], cur[t][2])'
      BY <2>1, <3>1 DEF WorkInv, FirstClosed, Expanding
    <3>5. \A n \in done' :
            \/ \E u \in Threads : Expanding(u)' /\ cur'[u] = n
            \/ AllClosed(n[1], n[2])' /\ AllClosed(n[2], n[1])'
      BY <2>3, <3>1 DEF Expanding
    <3>6. QED
      BY <1>3, <3>1, <3>3, <3>4, <3>5, WorkStep DEF Expanding
  <2>8. CASE Swap(t)
    <3>1. /\ pc[t] = "visit" /\ todo[t] = {} /\ ~inverse[t]
          /\ inverse'[t] = TRUE
          /\ todo'[t] = Expansions(cur[t][2], cur[t][1])
          /\ UNCHANGED <<done, cur, pc>>
      BY <2>8 DEF Swap, sharedVars, TypeInv, TypeOK
    <3>2. Expansions(From(t), To(t))' \ todo'[t] = {}
      BY <3>1 DEF From, To, Expansions
    <3>3. AllClosed(cur[t][1], cur[t][2])
      BY <3>1 DEF WorkInv, TodoRest, Expanding, AllClosed, From, To
    <3>4. \A n \in done' :
            \/ \E u \in Threads : Expanding(u)' /\ cur'[u] = n
            \/ AllClosed(n[1], n[2])' /\ AllClosed(n[2], n[1])'
      BY <2>3, <3>1 DEF Expanding
    <3>5. AllClosed(cur[t][1], cur[t][2])'
      BY <2>1, <3>1, <3>3
    <3>6. QED
      BY <1>3, <3>1, <3>2, <3>4, <3>5, WorkStep
  <2>9. CASE Finish(t)
    <3>1. /\ pc[t] = "visit" /\ todo[t] = {} /\ (inverse[t] \/ cur[t][1] >= cur[t][2])
          /\ pc'[t] = "relock"
          /\ UNCHANGED <<done, cur>>
      BY <2>9 DEF Finish, sharedVars, workVars, TypeInv, TypeOK
    <3>2. AllClosed(From(t), To(t))
      BY <3>1 DEF WorkInv, TodoRest, Expanding, AllClosed
    <3>3. AllClosed(cur[t][1], cur[t][2]) /\ AllClosed(cur[t][2], cur[t][1])
      <4>1. CASE inverse[t]
        BY <3>1, <3>2, <4>1 DEF WorkInv, FirstClosed, Expanding, From, To
      <4>2. CASE ~inverse[t]
        <5>1. cur[t] \in Pairs /\ cur[t][1] \in Rows /\ cur[t][2] \in Rows
          BY <3>1, HeldRows DEF Holding, TypeInv
        <5>2. cur[t][1] \in Nat /\ cur[t][2] \in Nat /\ cur[t][1] <= cur[t][2]
          BY <5>1, TableAssumption DEF Pairs
        <5>3. cur[t][1] = cur[t][2]
          BY <3>1, <4>2, <5>2
        <5>4. QED
          BY <3>2, <4>2, <5>3 DEF From, To
      <4>3. QED
        BY <4>1, <4>2
    <3>4. AllClosed(cur[t][1], cur[t][2])' /\ AllClosed(cur[t][2], cur[t][1])'
      BY <2>1, <3>1, <3>3
    <3>5. \A n \in done' :
            \/ \E u \in Threads : Expanding(u)' /\ cur'[u] = n
            \/ AllClosed(n[1], n[2])' /\ AllClosed(n[2], n[1])'
      <4>1. SUFFICES ASSUME NEW n \in done
                     PROVE  \/ \E u \in Threads : Expanding(u)' /\ cur'[u] = n
                            \/ AllClosed(n[1], n[2])' /\ AllClosed(n[2], n[1])'
        BY <3>1
      <4>2. CASE cur[t] = n
        BY <2>1, <3>3, <4>2
      <4>3. CASE cur[t] # n
        BY <2>3, <4>3
      <4>4. QED
        BY <4>2, <4>3
    <3>6. QED
      BY <1>3, <3>1, <3>4, <3>5, WorkStep DEF Expanding
  <2>10. CASE Lock(t) \/ Relock(t) \/ Rescan(t) \/ Exit(t)
    <3>1. /\ pc[t] \in {"lock", "scan", "relock"} /\ pc'[t] \in {"scan", "exit"}
          /\ done' \subseteq done \union Skippable(t)
      BY <2>10 DEF Lock, Relock, Rescan, Exit, sharedVars, TypeInv, TypeOK
    <3>2. \A n \in done' :
            \/ \E u \in Threads : Expanding(u)' /\ cur'[u] = n
            \/ AllClosed(n[1], n[2])' /\ AllClosed(n[2], n[1])'
      <4>1. ~Expanding(t)
        BY <3>1 DEF Expanding
      <4>2. QED
        BY <2>3, <2>4, <3>1, <4>1
    <3>3. ~Expanding(t)' /\ pc'[t] # "relock"
      BY <3>1 DEF Expanding
    <3>4. QED
      BY <1>3, <3>2, <3>3, WorkStep
  <2>11. QED
    BY <1>3, <2>5, <2>6, <2>7, <2>8, <2>9, <2>10 DEF Thread
<1>4. CASE Terminated \/ UNCHANGED vars
  <2>1. UNCHANGED <<phase, depth, table, done, cur, inverse, pc, target, todo>>
    BY <1>4 DEF Terminated, vars, mainVars, tableVars, sharedVars, workVars
  <2>2. QED
    BY <2>1 DEF WorkInv, TodoRest, FirstClosed, RelockClosed, DoneClosed, Expanding, From, To,
                Closed, AllClosed, Expansions, Visited
<1>5. QED
  BY <1>1, <1>2, <1>3, <1>4 DEF Next

(* The account of codes and of expansions holds in every reachable state.  *)
LEMMA TableInvariant == Spec => [](CodeInv /\ WorkInv)
<1>1. Init => CodeInv /\ WorkInv
  BY InitCodeInv, InitWorkInv
<1>2. TypeInv /\ LockInv /\ AccessInv /\ CodeInv /\ WorkInv /\ [Next]_vars
        => (CodeInv /\ WorkInv)'
  BY NextCodeInv, NextWorkInv
<1>3. QED
  BY <1>1, <1>2, TypeInvariant, LockInvariant, AccessInvariant, PTL DEF Spec

-----------------------------------------------------------------------------
(* A set of numbers that is not empty has a least one.                     *)
LEMMA LeastExists ==
  ASSUME NEW S \in SUBSET Nat, S # {}
  PROVE  Least(S) \in S /\ \A k \in S : Least(S) <= k
<1>1. PICK n \in S : \A k \in S : ~(<<k, n>> \in OpToRel(<, Nat))
  BY NatLessThanWellFounded, WFMin
<1>2. \A k \in S : ~(k < n)
  BY <1>1, Zenon DEF OpToRel
<1>3. \A k \in S : n <= k
  BY <1>2
<1>4. QED
  BY <1>3 DEF Least

(* The least of a set is the one element that is below all others.         *)
LEMMA LeastIs ==
  ASSUME NEW S \in SUBSET Nat, NEW n \in S, \A k \in S : n <= k
  PROVE  Least(S) = n
<1>1. Least(S) \in S /\ \A k \in S : Least(S) <= k
  BY LeastExists
<1>2. Least(S) <= n /\ n <= Least(S) /\ n \in Nat /\ Least(S) \in Nat
  BY <1>1
<1>3. QED
  BY <1>2

(* Outside a pass exactly the entries up to the depth have been reached.   *)
LEMMA VisitedIsBall ==
  ASSUME CodeInv, phase # "pass", NEW p \in Pos
  PROVE  p \in Visited <=> Dist[p] <= depth
BY DEF CodeInv, CodesExact, LayersComplete, Outermost

(* Between the passes the codes of a stripe and its minimum are what the   *)
(* comments of generate and of zero_visited announce: the distance modulo  *)
(* 3 or counted from the base depth, and the least distance of a stripe.   *)
THEOREM TableEncodesDistance == Spec => []EntriesEncodeDistance
<1>1. TypeInv /\ CodeInv => EntriesEncodeDistance
  <2> SUFFICES ASSUME TypeInv, CodeInv, phase # "pass"
               PROVE  /\ \A p \in Pos :
                           table[p] = CASE Dist[p] > depth                   -> Unvisited
                                      [] Dist[p] <= depth /\ depth <= BASE -> Dist[p] % 3
                                      [] Dist[p] <= BASE  /\ depth > BASE  -> 0
                                      [] Dist[p] \in BASE + 1 .. depth     -> Dist[p] - BASE
                      /\ \A s \in Stripes :
                           stripeMin[s] = IF Least(DistsIn(s)) <= depth
                                          THEN Least(DistsIn(s)) ELSE Untouched
    BY DEF EntriesEncodeDistance
  <2>0. BASE \in 1..12 /\ depth \in Nat /\ Dist \in [Pos -> Nat] /\ stripeMin \in [Stripes -> 0..15]
    BY BaseAssumption, DistAssumption DEF TypeInv, TypeOK
  <2>1. ASSUME NEW p \in Pos
        PROVE  table[p] = CASE Dist[p] > depth                   -> Unvisited
                            [] Dist[p] <= depth /\ depth <= BASE -> Dist[p] % 3
                            [] Dist[p] <= BASE  /\ depth > BASE  -> 0
                            [] Dist[p] \in BASE + 1 .. depth     -> Dist[p] - BASE
    <3>1. CASE Dist[p] > depth
      <4>1. table[p] = Unvisited
        BY <2>0, <3>1, VisitedIsBall DEF Visited
      <4>2. QED
        BY <2>0, <3>1, <4>1
    <3>2. CASE Dist[p] <= depth
      <4>1. table[p] = Mark(Dist[p])
        BY <3>2, VisitedIsBall DEF CodeInv, CodesExact
      <4>2. QED
        BY <2>0, <3>2, <4>1 DEF Mark, Zeroed
    <3>3. QED
      BY <2>0, <3>1, <3>2
  <2>2. ASSUME NEW s \in Stripes
        PROVE  stripeMin[s] = IF Least(DistsIn(s)) <= depth THEN Least(DistsIn(s)) ELSE Untouched
    <3>1. /\ DistsIn(s) \in SUBSET Nat /\ DistsIn(s) # {}
          /\ \A n \in DistsIn(s) : \E p \in Pos : StripeOf[p] = s /\ Dist[p] = n
          /\ \A p \in Pos : StripeOf[p] = s => Dist[p] \in DistsIn(s)
      BY <2>0 DEF DistsIn, Stripes
    <3>2. CASE stripeMin[s] = Untouched
      <4>1. Least(DistsIn(s)) \in DistsIn(s)
        BY <3>1, LeastExists
      <4>2. PICK p \in Pos : StripeOf[p] = s /\ Dist[p] = Least(DistsIn(s))
        BY <3>1, <4>1
      <4>3. ASSUME Dist[p] <= depth PROVE FALSE
        <5>1. p \in Visited
          BY <4>3, VisitedIsBall
        <5>2. 15 <= Dist[p] /\ depth <= BASE + 2
          BY <3>2, <4>2, <5>1 DEF CodeInv, MinimumBelow, Untouched, TypeInv, TypeOK
        <5>3. QED
          BY <2>0, <4>3, <5>2
      <4>4. QED
        BY <3>2, <4>2, <4>3
    <3>3. CASE stripeMin[s] # Untouched
      <4>1. PICK w \in Visited : StripeOf[w] = s /\ Dist[w] = stripeMin[s]
        BY <3>3 DEF CodeInv, MinimumReached
      <4>2. w \in Pos /\ Dist[w] <= depth /\ Dist[w] \in DistsIn(s)
        BY <3>1, <4>1, VisitedIsBall DEF Visited
      <4>3. ASSUME NEW p \in Pos, StripeOf[p] = s PROVE Dist[w] <= Dist[p]
        <5>1. CASE p \in Visited
          BY <4>1, <4>3, <5>1 DEF CodeInv, MinimumBelow
        <5>2. CASE p \notin Visited
          BY <2>0, <4>2, <5>2, VisitedIsBall
        <5>3. QED
          BY <5>1, <5>2
      <4>4. Least(DistsIn(s)) = Dist[w]
        BY <3>1, <4>2, <4>3, LeastIs
      <4>5. QED
        BY <4>1, <4>2, <4>4
    <3>4. QED
      BY <3>2, <3>3
  <2>3. QED
    BY <2>1, <2>2
<1>2. QED
  BY <1>1, TypeInvariant, TableInvariant, PTL

(* What an admissible heuristic needs of the finished table: its values    *)
(* never exceed the distance, are exact from BASE + 1 to BASE + 3 and are  *)
(* at least BASE + 3 beyond.                                               *)
THEOREM TableAdmissible == Spec => []HeuristicAdmissible
<1>1. TypeInv /\ CodeInv => HeuristicAdmissible
  <2> SUFFICES ASSUME TypeInv, CodeInv, phase = "generated", NEW p \in Pos
               PROVE  /\ Fetch(p) <= Dist[p]
                      /\ Dist[p] > BASE =>
                           Fetch(p) = IF Dist[p] <= BASE + 3 THEN Dist[p] ELSE BASE + 3
    BY DEF HeuristicAdmissible
  <2>1. depth = BASE + 2 /\ BASE \in 1..12 /\ Dist[p] \in Nat
    BY BaseAssumption, DistAssumption DEF CodeInv, LastDepth
  <2>2. CASE Dist[p] > depth
    <3>1. table[p] = 3
      BY <2>1, <2>2, VisitedIsBall DEF Visited, Unvisited
    <3>2. QED
      BY <2>1, <2>2, <3>1 DEF Fetch
  <2>3. CASE Dist[p] <= depth
    <3>1. p \in Visited /\ table[p] = IF Dist[p] <= BASE THEN 0 ELSE Dist[p] - BASE
      BY <2>1, <2>3, VisitedIsBall DEF CodeInv, CodesExact, Mark, Zeroed
    <3>2. stripeMin[StripeOf[p]] <= Dist[p]
      BY <3>1 DEF CodeInv, MinimumBelow
    <3>3. QED
      BY <2>1, <2>3, <3>1, <3>2 DEF Fetch
  <2>4. QED
    BY <2>1, <2>2, <2>3
<1>2. QED
  BY <1>1, TypeInvariant, TableInvariant, PTL

(* The generator implements the discovery of the positions layer by layer: *)
(* the store of a thread discovers an entry of the next layer, the join of *)
(* the threads completes a layer, and nothing else changes what has been   *)
(* discovered, the reset of the codes at the base depth included.          *)
THEOREM GeneratorImplementsLayers == Spec => LayersRefined
<1>1. Init => Layers!Init
  BY DistAssumption DEF Init, Layers!Init, Visited, Unvisited
<1>2. TypeInv /\ LockInv /\ AccessInv /\ CodeInv /\ WorkInv /\ [Next]_vars
        => [Layers!Next]_(Layers!vars)
  <2> SUFFICES ASSUME TypeInv, LockInv, AccessInv, CodeInv, WorkInv, [Next]_vars
               PROVE  Layers!Next \/ (Visited' = Visited /\ depth' = depth)
    BY DEF Layers!vars
  <2>1. CASE Prepare
    BY <2>1 DEF Prepare, Visited, ZeroVisited, Unvisited
  <2>2. CASE Join
    <3>1. phase = "pass" /\ (\A t \in Threads : pc[t] = "exit") /\ depth' = depth + 1
          /\ Visited' = Visited
      BY <2>2 DEF Join, tableVars, Visited
    <3>2. depth < BASE + 2
      BY <3>1, PassCodes, BaseAssumption
    <3>3. Layers!Ball(depth + 1) \subseteq Visited
      <4>1. SUFFICES ASSUME NEW p \in Pos, Dist[p] <= depth + 1 PROVE p \in Visited
        BY DEF Layers!Ball
      <4>2. CASE Dist[p] <= depth
        BY <4>2 DEF CodeInv, LayersComplete
      <4>3. CASE Dist[p] = depth + 1
        BY <3>1, <4>3, LayerDone
      <4>4. Dist[p] \in Nat /\ depth \in Nat
        BY <3>1, DistAssumption, PassCodes
      <4>5. QED
        BY <4>1, <4>2, <4>3, <4>4
    <3>4. QED
      BY <3>1, <3>2, <3>3 DEF Layers!Next, Layers!Advance
  <2>3. ASSUME NEW t \in Threads, Store(t) PROVE Layers!Next
    <3>1. /\ phase = "pass" /\ depth' = depth
          /\ target[t] \in Pos \ Visited /\ Dist[target[t]] = depth + 1
          /\ Visited' = Visited \union {target[t]}
      BY <2>3, StoreEnters
    <3>2. depth < BASE + 2
      BY <3>1, PassCodes, BaseAssumption
    <3>3. QED
      BY <3>1, <3>2 DEF Layers!Next, Layers!Discover
  <2>4. CASE ~Prepare /\ ~Join /\ \A t \in Threads : ~Store(t)
    <3>1. Visited' = Visited
      BY <2>4, TableFrame DEF Visited
    <3>2. depth' = depth
      BY <2>4 DEF Next, Thread, Lock, Claim, Visit, Swap, Finish, Relock, Rescan, Exit,
                  Terminated, vars, mainVars
    <3>3. QED
      BY <3>1, <3>2
  <2>5. QED
    BY <2>1, <2>2, <2>3, <2>4
<1>3. QED
  BY <1>1, <1>2, TypeInvariant, LockInvariant, AccessInvariant, TableInvariant, PTL
     DEF Spec, LayersRefined, Layers!Spec

-----------------------------------------------------------------------------
(***************************************************************************)
(* The count of found entries that the generator prints is the number of   *)
(* entries in the table.                                                   *)
(*                                                                         *)
(* While threads are at work the count is spread over the variable found   *)
(* and the counters of the threads.  Instead of a sum over the threads the *)
(* invariant names the sets that are counted: the entries reached so far   *)
(* fall into the credit of each thread and a rest, which found counts.     *)
(***************************************************************************)
Uncounted(t) == IF Holding(t) THEN gained[t] ELSE 0

Spread(credit, rest) ==
  /\ IsFiniteSet(rest) /\ Cardinality(rest) = found
  /\ \A t \in Threads : IsFiniteSet(credit[t]) /\ Cardinality(credit[t]) = Uncounted(t)
  /\ \A t \in Threads : credit[t] \intersect rest = {}
  /\ \A t, u \in Threads : t # u => credit[t] \intersect credit[u] = {}
  /\ Visited = rest \union UNION {credit[t] : t \in Threads}

CountInv == \E credit \in [Threads -> SUBSET Pos], rest \in SUBSET Pos : Spread(credit, rest)

-----------------------------------------------------------------------------
(* Initially the solved entry is counted in found.                         *)
LEMMA InitCountInv == Init => CountInv
<1> SUFFICES ASSUME Init PROVE CountInv
  OBVIOUS
<1> DEFINE none == [t \in Threads |-> {}]
<1>1. Visited = {Solved} /\ Solved \in Pos
  BY DistAssumption DEF Init, Visited, Unvisited
<1>2. /\ IsFiniteSet({Solved}) /\ Cardinality({Solved}) = 1
      /\ IsFiniteSet({}) /\ Cardinality({}) = 0
  BY FS_Singleton, FS_EmptySet
<1>3. found = 1 /\ \A t \in Threads : Uncounted(t) = 0
  BY DEF Init, Uncounted, Holding
<1>4. UNION {none[t] : t \in Threads} = {}
  OBVIOUS
<1>5. Spread(none, {Solved})
  BY <1>1, <1>2, <1>3, <1>4 DEF Spread
<1>6. none \in [Threads -> SUBSET Pos]
  OBVIOUS
<1>7. QED
  BY <1>1, <1>5, <1>6 DEF CountInv

(* Steps that reach no entry and count none.                               *)
LEMMA CountInvFrame ==
  ASSUME CountInv, Visited' = Visited, found' = found,
         \A t \in Threads : Uncounted(t)' = Uncounted(t)
  PROVE  CountInv'
BY DEF CountInv, Spread

(* Every step keeps the spread of the entries.                             *)
LEMMA NextCountInv ==
  TypeInv /\ LockInv /\ AccessInv /\ CodeInv /\ CountInv /\ [Next]_vars => CountInv'
<1> SUFFICES ASSUME TypeInv, LockInv, AccessInv, CodeInv, CountInv, [Next]_vars PROVE CountInv'
  OBVIOUS
<1>1. CASE Prepare
  <2>1. Visited' = Visited
    BY <1>1 DEF Prepare, Visited, ZeroVisited, Unvisited
  <2>2. /\ found' = found
        /\ \A t \in Threads : ~Holding(t) /\ ~Holding(t)'
    BY <1>1 DEF Prepare, LockInv, JoinedIdle, Holding
  <2>3. QED
    BY <2>1, <2>2, CountInvFrame DEF Uncounted
<1>2. CASE Join
  <2>1. UNCHANGED <<table, found, pc, gained>>
    BY <1>2 DEF Join, tableVars, sharedVars, workVars
  <2>2. QED
    BY <2>1, CountInvFrame DEF Uncounted, Holding, Visited
<1>3. ASSUME NEW t \in Threads, Thread(t) PROVE CountInv'
  <2>1. CASE Claim(t)
    <3>1. /\ pc[t] = "scan" /\ pc' = [pc EXCEPT ![t] = "visit"]
          /\ gained' = [gained EXCEPT ![t] = 0]
          /\ UNCHANGED <<table, found>>
      BY <2>1 DEF Claim, tableVars
    <3>2. \A u \in Threads : Uncounted(u)' = Uncounted(u)
      BY <3>1 DEF Uncounted, Holding, TypeInv, TypeOK
    <3>3. QED
      BY <3>1, <3>2, CountInvFrame DEF Visited
  <2>2. CASE Store(t)
    <3>1. PICK q \in Pos \ Visited : Visited' = Visited \union {q}
      BY <2>2, StoreEnters
    <3>2. /\ pc[t] = "store" /\ pc' = [pc EXCEPT ![t] = "visit"]
          /\ gained' = [gained EXCEPT ![t] = @ + 1]
          /\ found' = found
      BY <2>2 DEF Store, sharedVars
    <3>3. PICK credit \in [Threads -> SUBSET Pos], rest \in SUBSET Pos : Spread(credit, rest)
      BY DEF CountInv
    <3> DEFINE more == [credit EXCEPT ![t] = @ \union {q}]
    <3>4. /\ \A u \in Threads : more[u] = IF u = t THEN credit[t] \union {q} ELSE credit[u]
          /\ more \in [Threads -> SUBSET Pos]
      BY <3>1
    <3>5. q \notin rest /\ \A u \in Threads : q \notin credit[u]
      BY <3>1, <3>3 DEF Spread
    <3>6. IsFiniteSet(more[t]) /\ Cardinality(more[t]) = Cardinality(credit[t]) + 1
      BY <3>3, <3>4, <3>5, FS_AddElement DEF Spread
    <3>7. /\ Uncounted(t)' = Uncounted(t) + 1
          /\ \A u \in Threads \ {t} : Uncounted(u)' = Uncounted(u)
      BY <3>2 DEF Uncounted, Holding, TypeInv, TypeOK
    <3>8. Visited' = rest \union UNION {more[u] : u \in Threads}
      BY <3>1, <3>3, <3>4 DEF Spread
    <3>9. Spread(more, rest)'
      BY <3>2, <3>3, <3>4, <3>5, <3>6, <3>7, <3>8 DEF Spread
    <3>10. QED
      BY <3>4, <3>9 DEF CountInv
  <2>3. CASE Relock(t)
    <3>1. /\ pc[t] = "relock" /\ pc' = [pc EXCEPT ![t] = "scan"]
          /\ found' = found + gained[t]
          /\ UNCHANGED <<table, gained>>
      BY <2>3 DEF Relock, tableVars, workVars
    <3>2. PICK credit \in [Threads -> SUBSET Pos], rest \in SUBSET Pos : Spread(credit, rest)
      BY DEF CountInv
    <3> DEFINE less == [credit EXCEPT ![t] = {}]
               more == rest \union credit[t]
    <3>3. /\ \A u \in Threads : less[u] = IF u = t THEN {} ELSE credit[u]
          /\ less \in [Threads -> SUBSET Pos] /\ more \in SUBSET Pos
      OBVIOUS
    <3>4. /\ \A u \in Threads \ {t} : Uncounted(u)' = Uncounted(u)
          /\ Uncounted(t)' = 0 /\ Uncounted(t) = gained[t]
      BY <3>1 DEF Uncounted, Holding, TypeInv, TypeOK
    <3>5. IsFiniteSet(more) /\ Cardinality(more) = found + gained[t]
      <4>1. /\ IsFiniteSet(rest) /\ IsFiniteSet(credit[t]) /\ rest \intersect credit[t] = {}
            /\ Cardinality(rest) = found /\ Cardinality(credit[t]) = gained[t]
        BY <3>2, <3>4 DEF Spread
      <4>2. found \in Nat /\ gained[t] \in Nat
        BY DEF TypeInv, TypeOK
      <4>3. /\ IsFiniteSet(more)
            /\ Cardinality(more) = found + gained[t] - Cardinality(rest \intersect credit[t])
        BY <4>1, FS_Union
      <4>4. Cardinality(rest \intersect credit[t]) = 0
        BY <4>1, FS_EmptySet
      <4>5. QED
        BY <4>2, <4>3, <4>4
    <3>6. IsFiniteSet({}) /\ Cardinality({}) = 0
      BY FS_EmptySet
    <3>7. Visited' = more \union UNION {less[u] : u \in Threads}
      <4>1. Visited' = rest \union UNION {credit[u] : u \in Threads}
        BY <3>1, <3>2 DEF Spread, Visited
      <4>2. QED
        BY <3>3, <4>1
    <3>8. Spread(less, more)'
      <4>1. \A u \in Threads : IsFiniteSet(less[u]) /\ Cardinality(less[u]) = Uncounted(u)'
        BY <3>2, <3>3, <3>4, <3>6 DEF Spread
      <4>2. /\ \A u \in Threads : less[u] \intersect more = {}
            /\ \A u, v \in Threads : u # v => less[u] \intersect less[v] = {}
        BY <3>2, <3>3 DEF Spread
      <4>3. QED
        BY <3>1, <3>5, <3>7, <4>1, <4>2 DEF Spread
    <3>9. QED
      BY <3>3, <3>8 DEF CountInv
  <2>4. CASE Lock(t) \/ Visit(t) \/ Swap(t) \/ Finish(t) \/ Rescan(t) \/ Exit(t)
    <3>1. UNCHANGED <<table, found, gained>>
      BY <2>4 DEF Lock, Visit, Swap, Finish, Rescan, Exit, tableVars, sharedVars, workVars
    <3>2. \A u \in Threads : Holding(u)' <=> Holding(u)
      BY <2>4 DEF Lock, Visit, Swap, Finish, Rescan, Exit, Holding, TypeInv, TypeOK
    <3>3. QED
      BY <3>1, <3>2, CountInvFrame DEF Uncounted, Visited
  <2>5. QED
    BY <1>3, <2>1, <2>2, <2>3, <2>4 DEF Thread
<1>4. CASE Terminated \/ UNCHANGED vars
  <2>1. UNCHANGED <<table, found, pc, gained>>
    BY <1>4 DEF Terminated, vars, tableVars, sharedVars, workVars
  <2>2. QED
    BY <2>1, CountInvFrame DEF Uncounted, Holding, Visited
<1>5. QED
  BY <1>1, <1>2, <1>3, <1>4 DEF Next

(* Between the passes no thread has a credit: the count that is summed up  *)
(* over the threads and passes is the number of entries in the table.      *)
THEOREM EntriesCounted == Spec => []FoundCount
<1>1. Init => CountInv
  BY InitCountInv
<1>2. TypeInv /\ LockInv /\ AccessInv /\ CodeInv /\ CountInv /\ [Next]_vars => CountInv'
  BY NextCountInv
<1>3. LockInv /\ CountInv => FoundCount
  <2> SUFFICES ASSUME LockInv, CountInv, phase # "pass" PROVE found = Cardinality(Visited)
    BY DEF FoundCount
  <2>1. PICK credit \in [Threads -> SUBSET Pos], rest \in SUBSET Pos : Spread(credit, rest)
    BY DEF CountInv
  <2>2. \A t \in Threads : credit[t] = {}
    <3>1. \A t \in Threads : Uncounted(t) = 0
      BY DEF LockInv, JoinedIdle, Uncounted, Holding
    <3>2. QED
      BY <2>1, <3>1, FS_EmptySet DEF Spread
  <2>3. Visited = rest
    BY <2>1, <2>2 DEF Spread
  <2>4. QED
    BY <2>1, <2>3 DEF Spread
<1>4. QED
  BY <1>1, <1>2, <1>3, TypeInvariant, LockInvariant, AccessInvariant, TableInvariant, PTL DEF Spec

=============================================================================
