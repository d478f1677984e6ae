-------------------------- MODULE SolverPoolProofs --------------------------
(***************************************************************************)
(* Theorems about SolverPool, for every number of workers and lines, and   *)
(* whatever raw memory reads as unless a theorem says otherwise.           *)
(***************************************************************************)
EXTENDS SolverPool, FiniteSetTheorems, TLAPS

(***************************************************************************)
(* Locks and lines.  A mutex is owned by the one worker between its lock   *)
(* and unlock; the lines under way have different numbers, below next_id,  *)
(* and the last of them belongs to the worker that appends its slot.       *)
(***************************************************************************)
Working == {"insert", "construct", "solve", "answer", "print", "assign"}

HoldsMtx    == \A w \in Workers : mtx = w <=> pc[w] \in {"read", "insert", "construct"}
HoldsOutMtx == \A w \in Workers : outMtx = w <=> pc[w] \in {"print", "assign", "drain", "pop"}
ModeOfLabel ==
  \A w \in Workers : /\ pc[w] \in {"insert", "construct", "assign", "drain", "pop"} => ordered
                     /\ pc[w] = "print" => ~ordered
OwnLine     ==
  /\ \A w \in Workers : pc[w] \in Working => id[w] < nextId
  /\ \A w \in Workers : pc[w] \in {"insert", "construct"} => id[w] = nextId - 1
  /\ \A v, w \in Workers : pc[v] \in Working /\ pc[w] \in Working /\ id[v] = id[w] => v = w
InputRead   ==
  /\ nextId <= arrived
  /\ \A w \in Workers : pc[w] = "exit" => closed /\ nextId = arrived

LockInv == HoldsMtx /\ HoldsOutMtx /\ ModeOfLabel /\ OwnLine /\ InputRead

LEMMA InitLock == Init => LockInv
BY PoolAssumption DEF Init, LockInv, HoldsMtx, HoldsOutMtx, ModeOfLabel, OwnLine, InputRead, Working

LEMMA NextLock == TypeOK /\ LockInv /\ [Next]_vars => LockInv'
<1> SUFFICES ASSUME TypeOK, LockInv, [Next]_vars PROVE LockInv'
  OBVIOUS
<1> USE DEF TypeOK, LockInv, HoldsMtx, HoldsOutMtx, ModeOfLabel, OwnLine, InputRead, Working, input, deque
<1>1. CASE Arrive \/ Close
  BY <1>1, PoolAssumption DEF Arrive, Close
<1>2. ASSUME NEW w \in Workers, Worker(w) PROVE LockInv'
  <2>1. CASE LockIn(w)
    BY <2>1, PoolAssumption DEF LockIn
  <2>2. CASE Read(w)
    BY <2>2, PoolAssumption, SMTT(30) DEF Read
  <2>3. CASE EndOfInput(w)
    BY <2>3, PoolAssumption DEF EndOfInput
  <2>4. CASE Insert(w)
    BY <2>4, PoolAssumption DEF Insert
  <2>5. CASE InsertRaw(w)
    BY <2>5, PoolAssumption DEF InsertRaw
  <2>6. CASE Construct(w)
    BY <2>6, PoolAssumption DEF Construct
  <2>7. CASE Solve(w)
    BY <2>7, PoolAssumption DEF Solve
  <2>8. CASE LockOut(w)
    BY <2>8, PoolAssumption DEF LockOut
  <2>9. CASE PrintAnswer(w)
    BY <2>9, PoolAssumption DEF PrintAnswer
  <2>10. CASE Assign(w)
    BY <2>10, PoolAssumption DEF Assign
  <2>11. CASE PrintFront(w)
    BY <2>11, PoolAssumption DEF PrintFront
  <2>12. CASE Pop(w)
    BY <2>12, PoolAssumption DEF Pop
  <2>13. CASE Drained(w)
    BY <2>13, PoolAssumption DEF Drained
  <2>14. QED
    BY <1>2, <2>1, <2>2, <2>3, <2>4, <2>5, <2>6, <2>7, <2>8, <2>9, <2>10, <2>11, <2>12, <2>13 DEF Worker
<1>3. CASE UNCHANGED vars
  BY <1>3 DEF vars
<1>4. QED
  BY <1>1, <1>2, <1>3 DEF Next, Terminated

-----------------------------------------------------------------------------
(***************************************************************************)
(* The deque in ordered mode.  Its slots belong to consecutive lines, from *)
(* the first one not popped to the last one inserted.  A slot without an   *)
(* answer belongs to a worker that will assign one; a front with an answer *)
(* is seen by the worker that drains; and a line is printed in its place.  *)
(***************************************************************************)
Inserting == \E w \in Workers : pc[w] = "insert"
Popping   == \E w \in Workers : pc[w] = "pop"
First     == IF Popping THEN Len(out) - 1 ELSE Len(out)
Last      == IF Inserting THEN nextId - 1 ELSE nextId

Slots ==
  /\ Popping => solutions # <<>>
  /\ Len(solutions) = Last - First
  /\ \A k \in 1..Len(solutions) : solutions[k] = First + k - 1
Texts ==
  \A i \in Ids : /\ i < First => text[i] = "gone"
                 /\ First <= i /\ i < Last => text[i] \in {"raw", "empty", "full"}
                 /\ Last <= i => text[i] = "none"
Pending ==
  \A i \in Ids : text[i] \in {"raw", "empty"} =>
    \E w \in Workers : pc[w] \in {"construct", "solve", "answer", "assign"} /\ id[w] = i
FrontSeen ==
  solutions # <<>> /\ text[Head(solutions)] = "full" =>
    \E w \in Workers : pc[w] \in {"drain", "pop"}
InPlace == \A k \in 1..Len(out) : out[k] = k - 1 \/ out[k] = Garbage

OrderedInv == ordered => Slots /\ Texts /\ Pending /\ FrontSeen /\ InPlace

LEMMA InitOrdered == Init => OrderedInv
BY PoolAssumption DEF Init, OrderedInv, Inserting, Popping, First, Last, Slots, Texts, Pending, FrontSeen, InPlace, Ids

(* Only the worker moves that takes the step.                              *)
LEMMA OthersStay ==
  ASSUME TypeOK, NEW w \in Workers, Worker(w), NEW v \in Workers \ {w}
  PROVE  pc'[v] = pc[v] /\ id'[v] = id[v] /\ ordered' = ordered
BY DEF TypeOK, Worker, LockIn, Read, EndOfInput, Insert, InsertRaw, Construct, Solve, LockOut,
   PrintAnswer, Assign, PrintFront, Pop, Drained, input

(* The deque grows at its end when a line gets its slot, and shrinks at    *)
(* its front when an answer that was printed is popped.                    *)
LEMMA NextFirstLast ==
  ASSUME TypeOK, LockInv, ordered, NEW w \in Workers, Worker(w)
  PROVE  /\ First \in Int /\ Last \in Int
         /\ Insert(w) \/ InsertRaw(w) =>
              First' = First /\ Last' = Last + 1 /\ id[w] = Last /\ Last \in Ids
         /\ Pop(w) => First' = First + 1 /\ Last' = Last
         /\ PrintFront(w) => First' = First /\ Last' = Last /\ First = Len(out) /\ Popping'
         /\ ~Insert(w) /\ ~InsertRaw(w) /\ ~Pop(w) /\ ~PrintFront(w) =>
              First' = First /\ Last' = Last /\ Popping' = Popping
<1>0. /\ nextId \in Nat /\ Len(out) \in Nat /\ nextId <= Lines /\ Lines \in Nat
      /\ out \in Seq(Ids \union {Garbage}) /\ pc[w] # "print" /\ pc' = [pc EXCEPT ![w] = pc'[w]]
  BY PoolAssumption DEF TypeOK, LockInv, ModeOfLabel, Worker, LockIn, Read, EndOfInput, Insert,
     InsertRaw, Construct, Solve, LockOut, PrintAnswer, Assign, PrintFront, Pop, Drained
<1>1. First \in Int /\ Last \in Int
  BY <1>0 DEF First, Last
<1>2. \A v \in Workers \ {w} : pc'[v] = pc[v]
  BY OthersStay
<1>3. pc[w] \in {"read", "insert", "construct"} =>
        \A v \in Workers \ {w} : pc[v] \notin {"read", "insert", "construct"}
  BY DEF LockInv, HoldsMtx
<1>4. pc[w] \in {"drain", "pop"} => \A v \in Workers \ {w} : pc[v] \notin {"drain", "pop"}
  BY DEF LockInv, HoldsOutMtx
<1>5. ASSUME Insert(w) \/ InsertRaw(w)
      PROVE  First' = First /\ Last' = Last + 1 /\ id[w] = Last /\ Last \in Ids
  <2>1. pc[w] = "insert" /\ pc'[w] \in {"solve", "construct"} /\ UNCHANGED <<out, nextId>>
    BY <1>0, <1>5 DEF Insert, InsertRaw, TypeOK
  <2>2. Inserting /\ ~Inserting' /\ Popping' = Popping
    BY <1>2, <1>3, <2>1 DEF Inserting, Popping
  <2>3. id[w] = nextId - 1 /\ id[w] \in Nat
    BY <2>1 DEF LockInv, OwnLine, TypeOK
  <2>4. QED
    BY <1>0, <2>1, <2>2, <2>3 DEF First, Last, Ids
<1>6. ASSUME Pop(w) PROVE First' = First + 1 /\ Last' = Last
  <2>1. pc[w] = "pop" /\ pc'[w] = "drain" /\ UNCHANGED <<out, nextId>>
    BY <1>0, <1>6 DEF Pop, TypeOK
  <2>2. Popping /\ ~Popping' /\ Inserting' = Inserting
    BY <1>2, <1>4, <2>1 DEF Inserting, Popping
  <2>3. QED
    BY <1>0, <2>1, <2>2 DEF First, Last
<1>7. ASSUME PrintFront(w)
      PROVE  First' = First /\ Last' = Last /\ First = Len(out) /\ Popping'
  <2>1. pc[w] = "drain" /\ pc'[w] = "pop" /\ nextId' = nextId /\ Len(out') = Len(out) + 1
    BY <1>0, <1>7 DEF PrintFront, TypeOK
  <2>2. ~Popping /\ Popping' /\ Inserting' = Inserting
    BY <1>2, <1>4, <2>1 DEF Inserting, Popping
  <2>3. QED
    BY <1>0, <2>1, <2>2 DEF First, Last
<1>8. ASSUME ~Insert(w), ~InsertRaw(w), ~Pop(w), ~PrintFront(w)
      PROVE  First' = First /\ Last' = Last /\ Popping' = Popping
  <2>1. pc[w] \notin {"insert", "pop"} /\ pc'[w] # "pop" /\ out' = out
    BY <1>0, <1>8 DEF Worker, LockIn, Read, EndOfInput, Construct, Solve, LockOut, PrintAnswer,
       Assign, Drained, TypeOK
  <2>2. Popping' = Popping
    BY <1>2, <2>1 DEF Popping
  <2>3. CASE Read(w)
    <3>1. pc[w] = "read" /\ pc'[w] = "insert" /\ nextId' = nextId + 1
      BY <2>3 DEF Read, TypeOK
    <3>2. ~Inserting /\ Inserting'
      BY <1>2, <1>3, <3>1 DEF Inserting
    <3>3. QED
      BY <1>0, <2>1, <2>2, <3>1, <3>2 DEF First, Last
  <2>4. CASE ~Read(w)
    <3>1. pc'[w] # "insert" /\ nextId' = nextId
      BY <1>0, <1>8, <2>4 DEF Worker, LockIn, EndOfInput, Construct, Solve, LockOut, PrintAnswer,
         Assign, Drained, TypeOK
    <3>2. Inserting' = Inserting
      BY <1>2, <2>1, <3>1 DEF Inserting
    <3>3. QED
      BY <2>1, <2>2, <3>1, <3>2 DEF First, Last
  <2>5. QED
    BY <2>3, <2>4
<1>9. QED
  BY <1>1, <1>5, <1>6, <1>7, <1>8

(* A sequence with one more element, and one without its first element.    *)
LEMMA AppendProperties ==
  ASSUME NEW S, NEW s \in Seq(S), NEW e \in S
  PROVE  /\ Append(s, e) \in Seq(S) /\ Append(s, e) # <<>> /\ Len(Append(s, e)) = Len(s) + 1
         /\ Append(s, e)[Len(s) + 1] = e
         /\ \A k \in 1..Len(s) : Append(s, e)[k] = s[k]
         /\ Head(Append(s, e)) = IF s = <<>> THEN e ELSE Head(s)
         /\ s = <<>> => Append(s, e) = <<e>>
<1>1. /\ Append(s, e) \in Seq(S) /\ Len(Append(s, e)) = Len(s) + 1
      /\ Append(s, e)[Len(s) + 1] = e
      /\ \A k \in 1..Len(s) : Append(s, e)[k] = s[k]
  OBVIOUS
<1>2. Append(s, e) # <<>>
  <2>1. Len(s) \in Nat /\ Len(<<>>) = 0
    OBVIOUS
  <2>2. QED
    BY <1>1, <2>1
<1>3. Head(Append(s, e)) = IF s = <<>> THEN e ELSE Head(s)
  OBVIOUS
<1>4. s = <<>> => Append(s, e) = <<e>>
  OBVIOUS
<1>5. QED
  BY <1>1, <1>2, <1>3, <1>4

LEMMA TailProperties ==
  ASSUME NEW S, NEW s \in Seq(S), s # <<>>
  PROVE  /\ Len(s) \in Nat \ {0} /\ Head(s) = s[1] /\ Head(s) \in S
         /\ Tail(s) \in Seq(S) /\ Len(Tail(s)) = Len(s) - 1
         /\ \A k \in 1..Len(Tail(s)) : Tail(s)[k] = s[k + 1]
OBVIOUS

(* Every step of a worker keeps the deque in order.                        *)
LEMMA WorkerOrdered ==
  ASSUME TypeOK, LockInv, OrderedInv, ordered, NEW w \in Workers, Worker(w)
  PROVE  (Slots /\ Texts /\ Pending /\ FrontSeen /\ InPlace)'
<1>0. /\ Slots /\ Texts /\ Pending /\ FrontSeen /\ InPlace
      /\ First \in Int /\ Last \in Int
      /\ solutions \in Seq(Ids) /\ out \in Seq(Ids \union {Garbage}) /\ Len(out) \in Nat
      /\ Len(solutions) \in Nat
      /\ text \in [Ids -> {"none", "raw", "empty", "full", "gone"}] /\ Ids \subseteq Int
      /\ pc \in [Workers -> {"lock", "read", "insert", "construct", "solve", "answer",
                             "print", "assign", "drain", "pop", "exit"}]
  <2>1. First \in Int /\ Last \in Int
    BY NextFirstLast
  <2>2. Len(out) \in Nat /\ Len(solutions) \in Nat
    BY DEF TypeOK
  <2>3. QED
    BY <2>1, <2>2 DEF OrderedInv, TypeOK, Ids
<1>1. \A v \in Workers \ {w} : pc'[v] = pc[v] /\ id'[v] = id[v]
  BY OthersStay
<1>2. solutions # <<>> => /\ Head(solutions) = First /\ First < Last
                          /\ First \in Ids
  <2>1. SUFFICES ASSUME solutions # <<>>
                 PROVE  Head(solutions) = First /\ First < Last /\ First \in Ids
    OBVIOUS
  <2>2. Len(solutions) \in Nat \ {0} /\ Head(solutions) = solutions[1] /\ Head(solutions) \in Ids
    BY <1>0, <2>1, TailProperties
  <2>3. QED
    BY <1>0, <2>2 DEF Slots
<1>3. CASE LockIn(w) \/ Read(w) \/ EndOfInput(w) \/ Solve(w) \/ LockOut(w) \/ Drained(w)
  <2>1. /\ UNCHANGED <<solutions, text, out>>
        /\ First' = First /\ Last' = Last /\ Popping' = Popping
    <3>1. UNCHANGED <<solutions, text, out>>
      BY <1>3 DEF LockIn, Read, EndOfInput, Solve, LockOut, Drained, deque
    <3>2. ~Insert(w) /\ ~InsertRaw(w) /\ ~Pop(w) /\ ~PrintFront(w)
      BY <1>3 DEF LockIn, Read, EndOfInput, Solve, LockOut, Drained, Insert, InsertRaw, Pop, PrintFront
    <3>3. QED
      BY <3>1, <3>2, NextFirstLast
  <2>2. Pending'
    <3>1. pc[w] \in {"construct", "solve", "answer", "assign"} =>
            pc'[w] \in {"construct", "solve", "answer", "assign"} /\ id'[w] = id[w]
      BY <1>0, <1>3 DEF LockIn, Read, EndOfInput, Solve, LockOut, Drained
    <3>2. ASSUME NEW i \in Ids, text'[i] \in {"raw", "empty"}
          PROVE  \E v \in Workers : pc'[v] \in {"construct", "solve", "answer", "assign"} /\ id'[v] = i
      <4>1. PICK v \in Workers : pc[v] \in {"construct", "solve", "answer", "assign"} /\ id[v] = i
        BY <1>0, <2>1, <3>2 DEF Pending
      <4>2. QED
        BY <1>1, <3>1, <4>1
    <3>3. QED
      BY <3>2 DEF Pending
  <2>3. FrontSeen'
    <3>1. pc[w] \in {"drain", "pop"} => solutions = <<>> \/ text[Head(solutions)] # "full"
      BY <1>0, <1>3 DEF LockIn, Read, EndOfInput, Solve, LockOut, Drained, FrontText
    <3>2. QED
      BY <1>0, <1>1, <2>1, <3>1 DEF FrontSeen
  <2>4. QED
    BY <1>0, <2>1, <2>2, <2>3 DEF Slots, Texts, InPlace
<1>4. CASE Insert(w) \/ InsertRaw(w)
  <2>1. /\ First' = First /\ Last' = Last + 1 /\ id[w] = Last /\ Last \in Ids
        /\ out' = out /\ id' = id /\ pc[w] = "insert" /\ pc'[w] \in {"solve", "construct"}
    BY <1>0, <1>4, NextFirstLast DEF Insert, InsertRaw
  <2>2. solutions' = Append(solutions, Last)
    <3>1. solutions = <<>> => Append(solutions, Last) = <<Last>>
      BY <1>0, <2>1, AppendProperties
    <3>2. QED
      BY <1>4, <2>1, <3>1 DEF Insert, InsertRaw
  <2>3. \E t \in {"empty", "raw"} : text' = [text EXCEPT ![Last] = t]
    BY <1>4, <2>1 DEF Insert, InsertRaw
  <2>4. Popping' = Popping
    BY <1>1, <2>1 DEF Popping
  <2>5. /\ solutions' # <<>> /\ Len(solutions') = Len(solutions) + 1
        /\ solutions'[Len(solutions) + 1] = Last
        /\ \A k \in 1..Len(solutions) : solutions'[k] = solutions[k]
    BY <1>0, <2>1, <2>2, AppendProperties
  <2>6. Slots'
    BY <1>0, <2>1, <2>4, <2>5 DEF Slots
  <2>7. Texts'
    BY <1>0, <2>1, <2>3 DEF Texts, Slots
  <2>8. Pending'
    <3>1. ASSUME NEW i \in Ids, text'[i] \in {"raw", "empty"}
          PROVE  \E v \in Workers : pc'[v] \in {"construct", "solve", "answer", "assign"} /\ id'[v] = i
      <4>1. CASE i = Last
        BY <2>1, <4>1
      <4>2. CASE i # Last
        <5>1. text[i] \in {"raw", "empty"}
          BY <1>0, <2>3, <3>1, <4>2
        <5>2. PICK v \in Workers : pc[v] \in {"construct", "solve", "answer", "assign"} /\ id[v] = i
          BY <1>0, <5>1 DEF Pending
        <5>3. QED
          BY <1>1, <2>1, <5>2
      <4>3. QED
        BY <4>1, <4>2
    <3>2. QED
      BY <3>1 DEF Pending
  <2>9. FrontSeen'
    <3>1. CASE solutions = <<>>
      <4>1. Head(solutions') = Last
        BY <1>0, <2>1, <2>2, <3>1, AppendProperties
      <4>2. text'[Last] # "full"
        BY <1>0, <2>1, <2>3
      <4>3. QED
        BY <4>1, <4>2 DEF FrontSeen
    <3>2. CASE solutions # <<>>
      <4>1. Head(solutions') = First
        BY <1>0, <1>2, <2>1, <2>2, <3>2, AppendProperties
      <4>2. text'[First] = text[First]
        BY <1>0, <1>2, <2>3, <3>2
      <4>3. QED
        BY <1>0, <1>1, <1>2, <2>1, <3>2, <4>1, <4>2 DEF FrontSeen
    <3>3. QED
      BY <3>1, <3>2
  <2>10. InPlace'
    BY <1>0, <2>1 DEF InPlace
  <2>11. QED
    BY <2>6, <2>7, <2>8, <2>9, <2>10
<1>5. CASE Construct(w) \/ Assign(w)
  <2>1. /\ UNCHANGED <<solutions, out>>
        /\ First' = First /\ Last' = Last /\ Popping' = Popping
    <3>1. UNCHANGED <<solutions, out>>
      BY <1>5 DEF Construct, Assign
    <3>2. ~Insert(w) /\ ~InsertRaw(w) /\ ~Pop(w) /\ ~PrintFront(w)
      BY <1>5 DEF Construct, Assign, Insert, InsertRaw, Pop, PrintFront
    <3>3. QED
      BY <3>1, <3>2, NextFirstLast
  <2>2. id[w] \in Ids /\ id[w] < Last
    <3>1. id[w] \in 0..(nextId - 1) /\ nextId \in 0..Lines /\ Lines \in Nat
      BY <1>5, PoolAssumption DEF Construct, Assign, LockInv, OwnLine, Working, TypeOK
    <3>2. Inserting => id[w] # nextId - 1
      BY <1>5 DEF Construct, Assign, LockInv, OwnLine, HoldsMtx, Working, Inserting
    <3>3. QED
      BY <3>1, <3>2 DEF Ids, Last
  <2>3. PICK t \in {"empty", "full", text[id[w]]} :
          /\ text' = [text EXCEPT ![id[w]] = t]
          /\ text[id[w]] = "gone" => t = "gone"
    BY <1>5 DEF Construct, Assign
  <2>4. id' = id /\ pc' = [pc EXCEPT ![w] = pc'[w]]
        /\ (Construct(w) => pc'[w] = "solve" /\ pc[w] = "construct")
        /\ (Assign(w) => pc'[w] = "drain" /\ pc[w] = "assign")
    BY <1>0, <1>5 DEF Construct, Assign
  <2>5. Slots'
    BY <1>0, <2>1 DEF Slots
  <2>6. Texts'
    <3>1. text[id[w]] \in {"gone", "raw", "empty", "full"} /\ (First <= id[w] => text[id[w]] # "gone")
      <4>1. id[w] \in Int /\ First \in Int
        BY <1>0, <2>2
      <4>2. /\ id[w] < First => text[id[w]] = "gone"
            /\ First <= id[w] => text[id[w]] \in {"raw", "empty", "full"}
        BY <1>0, <2>2 DEF Texts
      <4>3. QED
        BY <4>1, <4>2
    <3>2. t = "gone" <=> text[id[w]] = "gone"
      BY <1>0, <2>3
    <3>3. ASSUME NEW i \in Ids
          PROVE  /\ i < First => text'[i] = "gone"
                 /\ First <= i /\ i < Last => text'[i] \in {"raw", "empty", "full"}
                 /\ Last <= i => text'[i] = "none"
      BY <1>0, <2>2, <2>3, <3>1, <3>2 DEF Texts
    <3>4. QED
      BY <2>1, <3>3 DEF Texts
  <2>7. Pending'
    <3>1. ASSUME NEW i \in Ids, text'[i] \in {"raw", "empty"}
          PROVE  \E v \in Workers : pc'[v] \in {"construct", "solve", "answer", "assign"} /\ id'[v] = i
      <4>1. CASE i = id[w] /\ Construct(w)
        BY <2>4, <4>1
      <4>2. CASE i = id[w] /\ Assign(w)
        <5>1. text'[i] \in {"gone", "full"}
          BY <1>0, <2>2, <4>2 DEF Assign
        <5>2. QED
          BY <3>1, <5>1
      <4>3. CASE i # id[w]
        <5>1. text[i] \in {"raw", "empty"}
          BY <1>0, <2>3, <3>1, <4>3
        <5>2. PICK v \in Workers : pc[v] \in {"construct", "solve", "answer", "assign"} /\ id[v] = i
          BY <1>0, <5>1 DEF Pending
        <5>3. QED
          BY <1>1, <2>4, <4>3, <5>2
      <4>4. QED
        BY <1>5, <4>1, <4>2, <4>3
    <3>2. QED
      BY <3>1 DEF Pending
  <2>8. FrontSeen'
    <3>1. CASE Assign(w)
      BY <2>4, <3>1 DEF FrontSeen
    <3>2. CASE Construct(w)
      <4>1. solutions # <<>> /\ text'[First] = "full" => text[First] = "full"
        BY <1>0, <1>2, <3>2 DEF Construct
      <4>2. QED
        BY <1>0, <1>1, <1>2, <2>1, <2>4, <3>2, <4>1 DEF FrontSeen
    <3>3. QED
      BY <1>5, <3>1, <3>2
  <2>9. InPlace'
    BY <1>0, <2>1 DEF InPlace
  <2>10. QED
    BY <2>5, <2>6, <2>7, <2>8, <2>9
<1>6. CASE PrintFront(w)
  <2>1. /\ First' = First /\ Last' = Last /\ First = Len(out)
        /\ UNCHANGED <<solutions, text, id>> /\ pc[w] = "drain" /\ pc'[w] = "pop"
    BY <1>0, <1>6, NextFirstLast DEF PrintFront, deque
  <2>2. solutions # <<>>
    BY <1>6 DEF PrintFront, FrontText
  <2>3. PICK l \in {First, Garbage} : out' = Append(out, l)
    BY <1>2, <1>6, <2>2 DEF PrintFront
  <2>4. Pending'
    <3>1. ASSUME NEW i \in Ids, text'[i] \in {"raw", "empty"}
          PROVE  \E v \in Workers : pc'[v] \in {"construct", "solve", "answer", "assign"} /\ id'[v] = i
      <4>1. PICK v \in Workers : pc[v] \in {"construct", "solve", "answer", "assign"} /\ id[v] = i
        BY <1>0, <2>1, <3>1 DEF Pending
      <4>2. QED
        BY <1>1, <2>1, <4>1
    <3>2. QED
      BY <3>1 DEF Pending
  <2>5. InPlace'
    <3>1. l \in Ids \union {Garbage}
      BY <1>2, <2>2
    <3>2. /\ Len(out') = Len(out) + 1 /\ out'[Len(out) + 1] = l
          /\ \A k \in 1..Len(out) : out'[k] = out[k]
      BY <1>0, <2>3, <3>1, AppendProperties
    <3>3. QED
      <4>1. /\ Len(out) \in Nat
            /\ \A k \in 1..Len(out) : out[k] = k - 1 \/ out[k] = Garbage
        BY <1>0 DEF InPlace, TypeOK
      <4>2. l = Len(out) \/ l = Garbage
        BY <1>0, <2>1
      <4>3. QED
        BY <3>2, <4>1, <4>2 DEF InPlace
  <2>6. QED
    BY <1>0, <2>1, <2>2, <2>4, <2>5 DEF Slots, Texts, FrontSeen
<1>7. CASE Pop(w)
  <2>1. /\ First' = First + 1 /\ Last' = Last
        /\ UNCHANGED <<out, id>> /\ pc[w] = "pop" /\ pc'[w] = "drain"
    BY <1>0, <1>7, NextFirstLast DEF Pop
  <2>2. solutions # <<>>
    BY <1>0, <2>1 DEF Slots, Popping
  <2>3. solutions' = Tail(solutions) /\ text' = [text EXCEPT ![First] = "gone"]
    BY <1>2, <1>7, <2>2 DEF Pop
  <2>4. Slots'
    <3>1. ~Popping'
      BY <1>1, <2>1 DEF Popping, LockInv, HoldsOutMtx
    <3>2. /\ Len(solutions') = Len(solutions) - 1
          /\ \A k \in 1..Len(solutions') : solutions'[k] = solutions[k + 1]
      BY <1>0, <2>2, <2>3, TailProperties
    <3>3. QED
      BY <1>0, <2>1, <3>1, <3>2 DEF Slots
  <2>5. Texts'
    BY <1>0, <1>2, <2>1, <2>2, <2>3 DEF Texts
  <2>6. Pending'
    <3>1. ASSUME NEW i \in Ids, text'[i] \in {"raw", "empty"}
          PROVE  \E v \in Workers : pc'[v] \in {"construct", "solve", "answer", "assign"} /\ id'[v] = i
      <4>1. text[i] \in {"raw", "empty"}
        BY <1>0, <2>3, <3>1
      <4>2. PICK v \in Workers : pc[v] \in {"construct", "solve", "answer", "assign"} /\ id[v] = i
        BY <1>0, <4>1 DEF Pending
      <4>3. QED
        BY <1>1, <2>1, <4>2
    <3>2. QED
      BY <3>1 DEF Pending
  <2>7. FrontSeen' /\ InPlace'
    BY <1>0, <2>1 DEF FrontSeen, InPlace
  <2>8. QED
    BY <2>4, <2>5, <2>6, <2>7
<1>8. QED
  <2>1. ~PrintAnswer(w)
    BY DEF PrintAnswer, LockInv, ModeOfLabel
  <2>2. QED
    BY <1>3, <1>4, <1>5, <1>6, <1>7, <2>1 DEF Worker

(* The deque stays in order through every step.                            *)
LEMMA NextOrdered == TypeOK /\ LockInv /\ OrderedInv /\ [Next]_vars => OrderedInv'
<1> SUFFICES ASSUME TypeOK, LockInv, OrderedInv, [Next]_vars, ordered'
             PROVE  (Slots /\ Texts /\ Pending /\ FrontSeen /\ InPlace)'
  BY DEF OrderedInv
<1>1. ASSUME NEW w \in Workers, Worker(w)
      PROVE  (Slots /\ Texts /\ Pending /\ FrontSeen /\ InPlace)'
  <2>1. ordered
    BY <1>1 DEF Worker, LockIn, Read, EndOfInput, Insert, InsertRaw, Construct, Solve, LockOut,
       PrintAnswer, Assign, PrintFront, Pop, Drained, input
  <2>2. QED
    BY <1>1, <2>1, WorkerOrdered
<1>2. ASSUME Arrive \/ Close \/ UNCHANGED vars
      PROVE  (Slots /\ Texts /\ Pending /\ FrontSeen /\ InPlace)'
  <2>1. UNCHANGED <<ordered, nextId, solutions, text, out, pc, id>>
    BY <1>2 DEF Arrive, Close, vars, input, deque
  <2>2. First' = First /\ Last' = Last /\ Popping' = Popping
    BY <2>1 DEF First, Last, Popping, Inserting
  <2>3. QED
    BY <2>1, <2>2 DEF OrderedInv, Slots, Texts, Pending, FrontSeen, InPlace
<1>3. QED
  BY <1>1, <1>2 DEF Next, Terminated

-----------------------------------------------------------------------------
LEMMA InitType == Init => TypeOK
<1> SUFFICES ASSUME Init PROVE TypeOK
  OBVIOUS
<1>1. 0 \in 0..Lines /\ Lines \in Nat
  BY PoolAssumption
<1>2. solutions \in Seq(Ids) /\ out \in Seq(Ids \union {Garbage})
  BY DEF Init
<1>3. QED
  BY <1>1, <1>2 DEF Init, TypeOK

(* Every step of a worker keeps the types.                                 *)
LEMMA WorkerType ==
  ASSUME TypeOK, LockInv, OrderedInv, NEW w \in Workers, Worker(w)
  PROVE  TypeOK'
<1> USE DEF TypeOK, input, deque
<1>0. Lines \in Nat
  BY PoolAssumption
<1>1. pc[w] \in Working => id[w] \in Ids
  BY <1>0 DEF LockInv, OwnLine, Ids
<1>2. CASE LockIn(w) \/ EndOfInput(w) \/ Solve(w) \/ LockOut(w) \/ Drained(w)
  <2>1. \E l \in {"read", "exit", "answer", "assign", "print", "lock"} : pc' = [pc EXCEPT ![w] = l]
    BY <1>2 DEF LockIn, EndOfInput, Solve, LockOut, Drained
  <2>2. /\ UNCHANGED <<input, nextId, deque, out, id>>
        /\ mtx' \in Workers \union {NoWorker} /\ outMtx' \in Workers \union {NoWorker}
    BY <1>2 DEF LockIn, EndOfInput, Solve, LockOut, Drained
  <2>3. QED
    BY <2>1, <2>2
<1>3. CASE Read(w)
  <2>1. \E l \in {"insert", "solve"} : pc' = [pc EXCEPT ![w] = l]
    BY <1>3 DEF Read
  <2>2. nextId' \in 0..Lines /\ id' \in [Workers -> Nat] /\ mtx' \in Workers \union {NoWorker}
    BY <1>0, <1>3 DEF Read
  <2>3. UNCHANGED <<input, deque, out, outMtx>>
    BY <1>3 DEF Read
  <2>4. QED
    BY <2>1, <2>2, <2>3
<1>4. CASE Insert(w) \/ InsertRaw(w)
  <2>1. id[w] \in Ids
    BY <1>1, <1>4 DEF Insert, InsertRaw, Working
  <2>2. solutions' \in Seq(Ids)
    <3>1. Append(solutions, id[w]) \in Seq(Ids) /\ <<id[w]>> \in Seq(Ids)
      BY <2>1
    <3>2. QED
      BY <1>4, <3>1 DEF Insert, InsertRaw
  <2>3. QED
    BY <1>4, <2>1, <2>2 DEF Insert, InsertRaw
<1>5. CASE Construct(w) \/ Assign(w)
  BY <1>5, ZenonT(30) DEF Construct, Assign
<1>6. CASE PrintAnswer(w)
  <2>1. id[w] \in Ids \union {Garbage}
    BY <1>1, <1>6 DEF PrintAnswer, Working
  <2>2. out' \in Seq(Ids \union {Garbage})
    BY <1>6, <2>1 DEF PrintAnswer
  <2>3. QED
    BY <1>6, <2>2 DEF PrintAnswer
<1>7. CASE PrintFront(w)
  <2>1. solutions # <<>>
    BY <1>7 DEF PrintFront, FrontText
  <2>2. Head(solutions) \in Ids
    BY <2>1, TailProperties
  <2>3. PICK l \in Ids \union {Garbage} : out' = Append(out, l)
    BY <1>7, <2>2 DEF PrintFront
  <2>4. out' \in Seq(Ids \union {Garbage})
    BY <2>3
  <2>5. QED
    BY <1>7, <2>4 DEF PrintFront
<1>8. CASE Pop(w)
  <2>1. solutions # <<>>
    BY <1>8 DEF Pop, LockInv, ModeOfLabel, OrderedInv, Slots, Popping
  <2>2. solutions' \in Seq(Ids)
    BY <1>8, <2>1, TailProperties DEF Pop
  <2>3. text' \in [Ids -> {"none", "raw", "empty", "full", "gone"}]
    BY <1>8 DEF Pop
  <2>4. QED
    BY <1>8, <2>2, <2>3 DEF Pop
<1>9. QED
  BY <1>2, <1>3, <1>4, <1>5, <1>6, <1>7, <1>8 DEF Worker

(* Every step keeps the types.                                             *)
LEMMA NextType == TypeOK /\ LockInv /\ OrderedInv /\ [Next]_vars => TypeOK'
<1> SUFFICES ASSUME TypeOK, LockInv, OrderedInv, [Next]_vars PROVE TypeOK'
  OBVIOUS
<1>1. CASE Arrive
  <2>1. arrived' \in 0..Lines
    BY <1>1, PoolAssumption DEF Arrive, TypeOK
  <2>2. UNCHANGED <<ordered, closed, nextId, deque, out, mtx, outMtx, pc, id>>
    BY <1>1 DEF Arrive
  <2>3. QED
    BY <2>1, <2>2 DEF TypeOK, deque
<1>2. CASE Close
  BY <1>2 DEF Close, TypeOK, deque
<1>3. CASE UNCHANGED vars
  BY <1>3 DEF TypeOK, vars, input, deque
<1>4. QED
  BY <1>1, <1>2, <1>3, WorkerType DEF Next, Terminated

-----------------------------------------------------------------------------
(***************************************************************************)
(* Answers in unordered mode: no line is answered twice, and one that was  *)
(* read is answered or being solved.                                       *)
(***************************************************************************)
Solving == {"solve", "answer", "print"}
Answered(i) == \E k \in 1..Len(out) : out[k] = i
UnorderedInv ==
  ~ordered =>
    /\ solutions = <<>>
    /\ \A k \in 1..Len(out) : out[k] \in 0..(nextId - 1)
    /\ \A j, k \in 1..Len(out) : out[j] = out[k] => j = k
    /\ \A w \in Workers : pc[w] \in Solving => ~Answered(id[w])
    /\ \A i \in 0..(nextId - 1) : Answered(i) \/ \E w \in Workers : pc[w] \in Solving /\ id[w] = i

LEMMA InitUnordered == Init => UnorderedInv
BY DEF Init, UnorderedInv, Answered, Solving

(* Every step of a worker keeps the answers right.                         *)
LEMMA WorkerUnordered ==
  ASSUME TypeOK, LockInv, UnorderedInv, ~ordered, NEW w \in Workers, Worker(w)
  PROVE  UnorderedInv'
<1>0. /\ nextId \in Nat /\ out \in Seq(Ids \union {Garbage}) /\ Len(out) \in Nat
      /\ id \in [Workers -> Nat] /\ solutions = <<>> /\ ordered' = ordered
      /\ pc \in [Workers -> {"lock", "read", "insert", "construct", "solve", "answer",
                             "print", "assign", "drain", "pop", "exit"}]
  <2>1. Len(out) \in Nat
    BY DEF TypeOK
  <2>2. QED
    BY <2>1, OthersStay DEF TypeOK, UnorderedInv, Worker, LockIn, Read, EndOfInput, Insert, InsertRaw,
       Construct, Solve, LockOut, PrintAnswer, Assign, PrintFront, Pop, Drained, input
<1>1. \A v \in Workers \ {w} : pc'[v] = pc[v] /\ id'[v] = id[v]
  BY OthersStay
<1>2. CASE LockIn(w) \/ EndOfInput(w) \/ Solve(w) \/ LockOut(w)
  <2>1. UNCHANGED <<nextId, solutions, out, id>> /\ (pc[w] \in Solving <=> pc'[w] \in Solving)
    BY <1>0, <1>2 DEF LockIn, EndOfInput, Solve, LockOut, deque, Solving
  <2>2. \A v \in Workers : pc[v] \in Solving <=> pc'[v] \in Solving
    BY <1>1, <2>1
  <2>3. QED
    BY <1>0, <2>1, <2>2 DEF UnorderedInv, Answered
<1>3. CASE Read(w)
  <2>1. /\ nextId' = nextId + 1 /\ id'[w] = nextId /\ pc[w] = "read" /\ pc'[w] = "solve"
        /\ UNCHANGED <<solutions, out>>
    BY <1>0, <1>3 DEF Read, deque
  <2>2. \A k \in 1..Len(out) : out[k] \in 0..(nextId - 1)
    BY DEF UnorderedInv
  <2>3. ~Answered(nextId)
    BY <1>0, <2>2 DEF Answered
  <2>4. \A v \in Workers : pc'[v] \in Solving => ~Answered(id'[v])
    BY <1>0, <1>1, <2>1, <2>3 DEF UnorderedInv
  <2>5. ASSUME NEW i \in 0..(nextId' - 1)
        PROVE  Answered(i) \/ \E v \in Workers : pc'[v] \in Solving /\ id'[v] = i
    <3>1. CASE i = nextId
      BY <2>1, <3>1 DEF Solving
    <3>2. CASE i # nextId
      <4>1. i \in 0..(nextId - 1)
        BY <1>0, <2>1, <3>2
      <4>2. Answered(i) \/ \E v \in Workers : pc[v] \in Solving /\ id[v] = i
        BY <1>0, <4>1 DEF UnorderedInv
      <4>3. QED
        BY <1>1, <2>1, <4>2 DEF Solving
    <3>3. QED
      BY <3>1, <3>2
  <2>6. \A k \in 1..Len(out) : out[k] \in 0..(nextId' - 1)
    BY <1>0, <2>1, <2>2
  <2>7. QED
    BY <1>0, <2>1, <2>4, <2>5, <2>6 DEF UnorderedInv, Answered
<1>4. CASE PrintAnswer(w)
  <2>1. /\ pc[w] = "print" /\ pc'[w] = "lock" /\ UNCHANGED <<nextId, solutions, id>>
        /\ out' = Append(out, id[w])
    BY <1>0, <1>4 DEF PrintAnswer, deque
  <2>2. id[w] \in 0..(nextId - 1) /\ id[w] \in Ids \union {Garbage}
    BY <1>0, <2>1, PoolAssumption DEF LockInv, OwnLine, Working, TypeOK, Ids
  <2>3. /\ Len(out') = Len(out) + 1 /\ out'[Len(out) + 1] = id[w]
        /\ \A k \in 1..Len(out) : out'[k] = out[k]
    BY <1>0, <2>1, <2>2, AppendProperties
  <2>4. \A i : Answered(i)' <=> Answered(i) \/ i = id[w]
    BY <1>0, <2>3 DEF Answered
  <2>5. ~Answered(id[w])
    BY <1>0, <2>1 DEF UnorderedInv, Solving
  <2>6. \A k \in 1..Len(out') : out'[k] \in 0..(nextId' - 1)
    BY <1>0, <2>1, <2>2, <2>3 DEF UnorderedInv
  <2>7. \A j, k \in 1..Len(out') : out'[j] = out'[k] => j = k
    <3>1. \A j \in 1..Len(out) : out[j] # id[w]
      BY <2>5 DEF Answered
    <3>2. \A j, k \in 1..Len(out) : out[j] = out[k] => j = k
      BY <1>0 DEF UnorderedInv
    <3>3. QED
      <4>1. ASSUME NEW j \in 1..Len(out'), NEW k \in 1..Len(out'), out'[j] = out'[k]
            PROVE  j = k
        <5>1. Len(out) \in Nat
          BY <1>0 DEF TypeOK
        <5>2. (j \in 1..Len(out) \/ j = Len(out) + 1) /\ (k \in 1..Len(out) \/ k = Len(out) + 1)
          BY <2>3, <5>1
        <5>3. QED
          BY <2>3, <3>1, <3>2, <4>1, <5>2, Zenon
      <4>2. QED
        BY <4>1
  <2>8. \A v \in Workers : pc'[v] \in Solving => \A k \in 1..Len(out') : out'[k] # id'[v]
    <3>1. ASSUME NEW v \in Workers, pc'[v] \in Solving
          PROVE  \A k \in 1..Len(out') : out'[k] # id[v]
      <4>1. v # w
        BY <2>1, <3>1 DEF Solving
      <4>2. pc[v] \in Solving /\ id[v] # id[w]
        BY <1>1, <2>1, <3>1, <4>1 DEF Solving, LockInv, OwnLine, Working
      <4>3. ~Answered(id[v])
        BY <1>0, <4>2 DEF UnorderedInv
      <4>4. QED
        BY <1>0, <2>3, <4>2, <4>3 DEF Answered
    <3>2. QED
      BY <2>1, <3>1
  <2>9. \A i \in 0..(nextId' - 1) :
          Answered(i)' \/ \E v \in Workers : pc'[v] \in Solving /\ id'[v] = i
    <3>1. ASSUME NEW i \in 0..(nextId - 1), i # id[w], ~Answered(i)
          PROVE  \E v \in Workers : pc'[v] \in Solving /\ id'[v] = i
      <4>1. PICK v \in Workers : pc[v] \in Solving /\ id[v] = i
        BY <1>0, <3>1 DEF UnorderedInv
      <4>2. QED
        BY <1>1, <3>1, <4>1
    <3>2. QED
      BY <2>1, <2>4, <3>1
  <2>10. QED
    BY <1>0, <2>1, <2>6, <2>7, <2>8, <2>9 DEF UnorderedInv, Answered
<1>5. QED
  <2>1. pc[w] \notin {"insert", "construct", "assign", "drain", "pop"}
    BY DEF LockInv, ModeOfLabel
  <2>2. QED
    BY <1>2, <1>3, <1>4, <2>1 DEF Worker, Insert, InsertRaw, Construct, Assign, PrintFront, Pop, Drained

LEMMA NextUnordered == TypeOK /\ LockInv /\ UnorderedInv /\ [Next]_vars => UnorderedInv'
<1> SUFFICES ASSUME TypeOK, LockInv, UnorderedInv, [Next]_vars PROVE UnorderedInv'
  OBVIOUS
<1>1. ASSUME NEW w \in Workers, Worker(w) PROVE UnorderedInv'
  <2>1. ordered' = ordered
    BY <1>1 DEF Worker, LockIn, Read, EndOfInput, Insert, InsertRaw, Construct, Solve, LockOut,
       PrintAnswer, Assign, PrintFront, Pop, Drained, input
  <2>2. QED
    BY <1>1, <2>1, WorkerUnordered DEF UnorderedInv
<1>2. CASE Arrive \/ Close \/ UNCHANGED vars
  BY <1>2 DEF Arrive, Close, vars, input, deque, UnorderedInv, Answered
<1>3. QED
  BY <1>1, <1>2 DEF Next, Terminated

-----------------------------------------------------------------------------
PoolInv == TypeOK /\ LockInv /\ OrderedInv /\ UnorderedInv

LEMMA PoolInvariant == Spec => []PoolInv
<1>1. Init => PoolInv
  BY InitType, InitLock, InitOrdered, InitUnordered DEF PoolInv
<1>2. PoolInv /\ [Next]_vars => PoolInv'
  BY NextType, NextLock, NextOrdered, NextUnordered DEF PoolInv
<1>3. QED
  BY <1>1, <1>2, PTL DEF Spec

(* The variables always have their types; in particular what is printed or *)
(* popped is the number of a line.                                         *)
THEOREM PoolTypeCorrect == Spec => []TypeOK
<1>1. PoolInv => TypeOK
  BY DEF PoolInv
<1>2. QED
  BY <1>1, PoolInvariant, PTL

(* Who gives up the output lock has printed every answer that could be     *)
(* printed.                                                                *)
THEOREM NoAnswerHeldBack == Spec => []NothingHeldBack
<1>1. PoolInv => NothingHeldBack
  <2> SUFFICES ASSUME PoolInv, outMtx = NoWorker, solutions # <<>>, text[Head(solutions)] = "full"
               PROVE  FALSE
    BY DEF NothingHeldBack
  <2>1. ordered
    BY DEF PoolInv, UnorderedInv
  <2>2. PICK w \in Workers : pc[w] \in {"drain", "pop"}
    BY <2>1 DEF PoolInv, OrderedInv, FrontSeen
  <2>3. outMtx = w
    BY <2>2 DEF PoolInv, LockInv, HoldsOutMtx
  <2>4. QED
    BY <2>3, PoolAssumption
<1>2. QED
  BY <1>1, PoolInvariant, PTL

(* When all workers have ended no slot is left: the front one would belong *)
(* to a worker that still has to assign its answer.                        *)
LEMMA OrderedAllAnswered ==
  ASSUME PoolInv, ordered, \A w \in Workers : pc[w] = "exit"
  PROVE  Len(out) = nextId /\ solutions = <<>>
<1>1. ~Inserting /\ ~Popping
  BY DEF Inserting, Popping
<1>2. First = Len(out) /\ Last = nextId /\ nextId \in Nat /\ Len(out) \in Nat
      /\ solutions \in Seq(Ids)
  <2>1. Len(out) \in Nat
    BY DEF PoolInv, TypeOK
  <2>2. QED
    BY <1>1, <2>1, PoolAssumption DEF First, Last, PoolInv, TypeOK
<1>3. Len(solutions) = Last - First /\ \A k \in 1..Len(solutions) : solutions[k] = First + k - 1
  BY DEF PoolInv, OrderedInv, Slots
<1>4. ASSUME solutions # <<>> PROVE FALSE
  <2>1. Len(solutions) \in Nat \ {0} /\ Head(solutions) = solutions[1] /\ Head(solutions) \in Ids
    BY <1>2, <1>4, TailProperties
  <2>2. Head(solutions) = First /\ First < Last /\ First \in Ids
    BY <1>2, <1>3, <2>1
  <2>3. text[First] \in {"raw", "empty", "full"}
    BY <1>2, <2>2 DEF PoolInv, OrderedInv, Texts
  <2>4. QED
    BY <1>4, <2>2, <2>3 DEF PoolInv, OrderedInv, Pending, FrontSeen
<1>5. QED
  BY <1>2, <1>3, <1>4

(* In unordered mode the answers number the lines that were read.          *)
LEMMA UnorderedAllAnswered ==
  ASSUME PoolInv, ~ordered, \A w \in Workers : pc[w] = "exit"
  PROVE  Len(out) = nextId /\ solutions = <<>>
<1> DEFINE places == 1..Len(out)
           lines  == 0..(nextId - 1)
           answer == [k \in places |-> out[k]]
<1>1. Len(out) \in Nat /\ nextId \in Nat
  <2>1. Len(out) \in Nat
    BY DEF PoolInv, TypeOK
  <2>2. QED
    BY <2>1, PoolAssumption DEF PoolInv, TypeOK
<1>2. /\ \A k \in places : out[k] \in lines
      /\ \A j, k \in places : out[j] = out[k] => j = k
      /\ \A i \in lines : Answered(i)
  BY DEF PoolInv, UnorderedInv, Solving
<1>3. answer \in Injection(places, lines) /\ answer \in Surjection(places, lines)
  <2>1. /\ answer \in [places -> lines]
        /\ \A j, k \in places : answer[j] = answer[k] => j = k
        /\ \A i \in lines : \E k \in places : answer[k] = i
    BY <1>2 DEF Answered
  <2> HIDE DEF places, lines, answer
  <2>2. QED
    BY <2>1 DEF Injection, Surjection, IsInjective
<1>4. Cardinality(places) = Len(out) /\ Cardinality(lines) = nextId /\ IsFiniteSet(lines)
  <2>1. Cardinality(1..Len(out)) = IF 1 > Len(out) THEN 0 ELSE Len(out) - 1 + 1
    BY <1>1, FS_Interval
  <2>2. /\ Cardinality(0..(nextId - 1)) = IF 0 > nextId - 1 THEN 0 ELSE nextId - 1 - 0 + 1
        /\ IsFiniteSet(0..(nextId - 1))
    <3>1. 0 \in Int /\ nextId - 1 \in Int
      BY <1>1
    <3>2. QED
      BY <3>1, FS_Interval
  <2>3. QED
    BY <1>1, <2>1, <2>2
<1>5. Cardinality(places) = Cardinality(lines)
  <2> HIDE DEF places, lines, answer
  <2>1. QED
    BY <1>3, <1>4, FS_Injection
<1>6. QED
  BY <1>4, <1>5 DEF PoolInv, UnorderedInv

(* When the workers have ended, every line that arrived has been read and  *)
(* answered, in either mode.                                               *)
THEOREM AllAnsweredAtEnd == Spec => []AllAnswered
<1>1. PoolInv => AllAnswered
  <2> SUFFICES ASSUME PoolInv, \A w \in Workers : pc[w] = "exit"
               PROVE  closed /\ nextId = arrived /\ Len(out) = nextId /\ solutions = <<>>
    BY DEF AllAnswered
  <2>1. closed /\ nextId = arrived
    BY PoolAssumption DEF PoolInv, LockInv, InputRead
  <2>2. QED
    BY <2>1, OrderedAllAnswered, UnorderedAllAnswered
<1>2. QED
  BY <1>1, PoolInvariant, PTL

-----------------------------------------------------------------------------
(***************************************************************************)
(* The order of the output, where no string is read before it is           *)
(* constructed and taken for an answer: in unordered mode, which has no    *)
(* deque, and when fresh memory reads as an empty string.                  *)
(***************************************************************************)
CleanMemory == RawText = {"empty"} \/ TRUE \notin Modes

NoGarbage == \A k \in 1..Len(out) : out[k] # Garbage

(* A line is only printed with its answer.                                 *)
LEMMA NextNoGarbage ==
  ASSUME CleanMemory, PoolInv, NoGarbage, [Next]_vars
  PROVE  NoGarbage'
<1>1. ASSUME NEW w \in Workers, NEW l \in Ids, out' = Append(out, l) PROVE NoGarbage'
  <2>1. /\ Len(out) \in Nat /\ Len(out') = Len(out) + 1 /\ out'[Len(out) + 1] = l
        /\ \A k \in 1..Len(out) : out'[k] = out[k]
    <3>1. out \in Seq(Ids \union {Garbage}) /\ l \in Ids \union {Garbage}
      BY DEF PoolInv, TypeOK
    <3>2. Len(out) \in Nat
      BY <3>1
    <3>3. QED
      BY <1>1, <3>1, <3>2, AppendProperties
  <2>2. l # Garbage
    BY PoolAssumption DEF Ids
  <2>3. QED
    BY <2>1, <2>2 DEF NoGarbage
<1>2. ASSUME NEW w \in Workers, PrintAnswer(w) PROVE NoGarbage'
  <2>1. id[w] \in Ids
    BY <1>2, PoolAssumption DEF PrintAnswer, PoolInv, LockInv, OwnLine, Working, TypeOK, Ids
  <2>2. QED
    BY <1>1, <1>2, <2>1 DEF PrintAnswer
<1>3. ASSUME NEW w \in Workers, PrintFront(w) PROVE NoGarbage'
  <2>1. ordered /\ ordered \in Modes
    BY <1>3 DEF PrintFront, PoolInv, LockInv, ModeOfLabel, TypeOK
  <2>2. RawText = {"empty"}
    BY <2>1 DEF CleanMemory
  <2>3. solutions # <<>> /\ text[Head(solutions)] = "full"
    BY <1>3, <2>2 DEF PrintFront, FrontText
  <2>4. Head(solutions) \in Ids
    BY <2>3, TailProperties DEF PoolInv, TypeOK
  <2>5. QED
    BY <1>1, <1>3, <2>3, <2>4 DEF PrintFront
<1>4. ASSUME out' = out PROVE NoGarbage'
  BY <1>4 DEF NoGarbage
<1>5. QED
  BY <1>2, <1>3, <1>4 DEF Next, Arrive, Close, Terminated, vars, Worker, LockIn, Read, EndOfInput,
     Insert, InsertRaw, Construct, Solve, LockOut, Assign, Pop, Drained

LEMMA NoGarbageInvariant == ASSUME CleanMemory PROVE Spec => []NoGarbage
<1>1. Init => NoGarbage
  BY DEF Init, NoGarbage
<1>2. PoolInv /\ NoGarbage /\ [Next]_vars => NoGarbage'
  BY NextNoGarbage
<1>3. QED
  BY <1>1, <1>2, PoolInvariant, PTL DEF Spec

(* Output in the same order as input, as the --ordered option says, if no  *)
(* raw memory is taken for an answer.                                      *)
THEOREM OutputOrdered == ASSUME CleanMemory PROVE Spec => []OutputInOrder
<1>1. PoolInv /\ NoGarbage => OutputInOrder
  BY DEF PoolInv, OrderedInv, InPlace, NoGarbage, OutputInOrder
<1>2. QED
  BY <1>1, PoolInvariant, NoGarbageInvariant, PTL

-----------------------------------------------------------------------------
(* Every step of the pool is a step of the service or none of its steps:   *)
(* a line is accepted when its number is taken, and answered when its      *)
(* answer is printed.                                                      *)
LEMMA StepIsServiceStep ==
  ASSUME CleanMemory, PoolInv, NoGarbage, NoGarbage', [Next]_vars
  PROVE  [Service!Next]_(Service!vars)
<1>0. /\ nextId \in 0..Lines /\ arrived \in 0..Lines /\ Lines \in Nat /\ nextId \in Nat
      /\ out \in Seq(Ids \union {Garbage}) /\ Len(out) \in Nat
  <2>1. Len(out) \in Nat
    BY DEF PoolInv, TypeOK
  <2>2. QED
    BY <2>1, PoolAssumption DEF PoolInv, TypeOK
<1>1. ASSUME NEW w \in Workers, Read(w) PROVE Service!Accept
  BY <1>0, <1>1 DEF Read, Service!Accept, PoolInv, LockInv, InputRead, input
<1>2. ASSUME NEW w \in Workers, PrintAnswer(w) PROVE \E i \in 0..(Lines - 1) : Service!Answer(i)
  <2>1. /\ pc[w] = "print" /\ ~ordered /\ id[w] \in 0..(nextId - 1)
    BY <1>0, <1>2 DEF PrintAnswer, PoolInv, LockInv, ModeOfLabel, OwnLine, Working, TypeOK
  <2>2. \A k \in 1..Len(out) : out[k] # id[w]
    BY <2>1 DEF PoolInv, UnorderedInv, Answered, Solving
  <2>3. Service!Answer(id[w])
    BY <1>0, <1>2, <2>1, <2>2 DEF PrintAnswer, Service!Answer, input
  <2>4. id[w] \in 0..(Lines - 1)
    BY <1>0, <2>1
  <2>5. QED
    BY <2>3, <2>4
<1>3. ASSUME NEW w \in Workers, PrintFront(w) PROVE \E i \in 0..(Lines - 1) : Service!Answer(i)
  <2>1. ordered /\ ordered \in Modes /\ pc[w] = "drain"
    BY <1>3 DEF PrintFront, PoolInv, LockInv, ModeOfLabel, TypeOK
  <2>2. solutions # <<>> /\ text[Head(solutions)] = "full" /\ out' = Append(out, Head(solutions))
    BY <1>3, <2>1 DEF PrintFront, FrontText, CleanMemory
  <2>3. /\ First = Len(out) /\ Slots /\ InPlace
    BY <1>3, <2>1, NextFirstLast DEF PoolInv, OrderedInv, Worker
  <2>4. Head(solutions) = Len(out) /\ Len(out) < nextId
    <3>1. Len(solutions) \in Nat \ {0} /\ Head(solutions) = solutions[1] /\ Head(solutions) \in Ids
      BY <2>2, TailProperties DEF PoolInv, TypeOK
    <3>2. QED
      BY <1>0, <2>3, <3>1 DEF Slots, Last
  <2>5. \A k \in 1..Len(out) : out[k] # Len(out)
    BY <1>0, <2>3 DEF InPlace, NoGarbage
  <2>6. Service!Answer(Len(out))
    BY <1>0, <1>3, <2>2, <2>4, <2>5 DEF PrintFront, Service!Answer, input
  <2>7. QED
    BY <1>0, <2>4, <2>6
<1>4. ASSUME NEW w \in Workers, Worker(w), ~Read(w), ~PrintAnswer(w), ~PrintFront(w)
      PROVE  UNCHANGED Service!vars
  BY <1>4 DEF Worker, LockIn, EndOfInput, Insert, InsertRaw, Construct, Solve, LockOut, Assign, Pop,
     Drained, input, Service!vars
<1>5. ASSUME Arrive \/ Close \/ UNCHANGED vars PROVE UNCHANGED Service!vars
  BY <1>5 DEF Arrive, Close, vars, input, Service!vars
<1>6. QED
  BY <1>1, <1>2, <1>3, <1>4, <1>5 DEF Next, Terminated, Service!Next

(* The pool does what the program promises to who feeds it cubes, if no    *)
(* raw memory is taken for an answer: only lines that were accepted are    *)
(* answered, each at most once, in ordered mode in their order.  (That     *)
(* they are answered at all is left to model checking.)                    *)
THEOREM PoolImplementsService ==
  ASSUME CleanMemory
  PROVE  Spec => Service!Init /\ [][Service!Next]_(Service!vars)
<1>1. Init => Service!Init
  BY DEF Init, Service!Init
<1>2. PoolInv /\ NoGarbage /\ NoGarbage' /\ [Next]_vars => [Service!Next]_(Service!vars)
  BY StepIsServiceStep
<1>3. QED
  BY <1>1, <1>2, PoolInvariant, NoGarbageInvariant, PTL DEF Spec

(* Whatever memory reads as, in ordered mode each line that is printed is  *)
(* the answer to the line of its number, or garbage in its place.          *)
THEOREM AnswersInPlace == Spec => [](ordered => InPlace)
<1>1. PoolInv => (ordered => InPlace)
  BY DEF PoolInv, OrderedInv
<1>2. QED
  BY <1>1, PoolInvariant, PTL

=============================================================================
