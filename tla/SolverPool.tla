----------------------------- MODULE SolverPool -----------------------------
(***************************************************************************)
(* The worker threads of vc-optimal (solver() in src/src/vc-optimal.cpp).  *)
(*                                                                         *)
(* Under mtx a worker reads a line from standard input, blocking while     *)
(* none is there, and takes the next sequence number; in ordered mode it   *)
(* also appends an empty string to the deque "solutions" and keeps an      *)
(* iterator to it.  It solves the cube without a lock.  Under out_mtx it   *)
(* prints the answer or, in ordered mode, assigns it through the iterator  *)
(* and then prints and pops the strings at the front that are not empty.   *)
(*                                                                         *)
(* The deque is shared, but the insertion holds mtx and the rest holds     *)
(* out_mtx: the insertion is not excluded by a worker that looks at the    *)
(* front.  Into an empty deque, insert goes through emplace_front, which   *)
(* at the boundary of a node makes the new slot reachable before the       *)
(* string in it is constructed.  What the raw slot reads as depends on     *)
(* what the memory held.                                                   *)
(***************************************************************************)
EXTENDS Integers, Sequences

CONSTANTS
  Workers,   (* worker threads                                             *)
  NoWorker,  (* the owner of a mutex that is free                          *)
  Lines,     (* bound on the number of lines on standard input             *)
  Modes,     (* the values of the --ordered option                         *)
  RawText,   (* what a string not constructed yet may read as              *)
  Garbage    (* a printed line that is no answer                           *)

ASSUME PoolAssumption ==
  /\ Workers # {}
  /\ NoWorker \notin Workers
  /\ Lines \in Nat
  /\ Modes \subseteq BOOLEAN
  /\ RawText \subseteq {"empty", "full"}
  /\ RawText # {}
  /\ Garbage \notin Nat

Ids == 0..(Lines - 1)

VARIABLES
  ordered,    (* the --ordered option                                      *)
  arrived,    (* lines that have arrived on standard input                 *)
  closed,     (* standard input is at its end                              *)
  nextId,     (* next_id                                                   *)
  solutions,  (* the deque, as the sequence numbers its slots belong to    *)
  text,       (* text[i]: what is in the slot of line i                    *)
  out,        (* lines written to standard output                          *)
  mtx,        (* owner of mtx                                              *)
  outMtx,     (* owner of out_mtx                                          *)
  pc,         (* where each worker is                                      *)
  id          (* id[w]: solution_id of the line w works on                 *)

input == <<ordered, arrived, closed>>
deque == <<solutions, text>>
vars == <<input, nextId, deque, out, mtx, outMtx, pc, id>>

Init ==
  /\ ordered \in Modes
  /\ arrived = 0
  /\ closed = FALSE
  /\ nextId = 0
  /\ solutions = <<>>
  /\ text = [i \in Ids |-> "none"]
  /\ out = <<>>
  /\ mtx = NoWorker
  /\ outMtx = NoWorker
  /\ pc = [w \in Workers |-> "lock"]
  /\ id = [w \in Workers |-> 0]

-----------------------------------------------------------------------------
(* Standard input: a line arrives, or the end is reached.                  *)
Arrive ==
  /\ ~closed
  /\ arrived < Lines
  /\ arrived' = arrived + 1
  /\ UNCHANGED <<ordered, closed, nextId, deque, out, mtx, outMtx, pc, id>>

Close ==
  /\ ~closed
  /\ closed' = TRUE
  /\ UNCHANGED <<ordered, arrived, nextId, deque, out, mtx, outMtx, pc, id>>

-----------------------------------------------------------------------------
(* Defect: mtx is not taken.                                               *)
MutLockIn(w) ==
  /\ pc[w] = "lock"
  /\ mtx' = w
  /\ pc' = [pc EXCEPT ![w] = "read"]
  /\ UNCHANGED <<input, nextId, deque, out, outMtx, id>>

(* mtx.lock, before the first line and after each answer.                  *)
LockIn(w) ==
  /\ pc[w] = "lock"
  /\ mtx = NoWorker
  /\ mtx' = w
  /\ pc' = [pc EXCEPT ![w] = "read"]
  /\ UNCHANGED <<input, nextId, deque, out, outMtx, id>>

(* Defect: one line too many is read, as with feof alone.                  *)
MutRead(w) ==
  /\ pc[w] = "read"
  /\ nextId <= arrived
  /\ id' = [id EXCEPT ![w] = nextId]
  /\ nextId' = nextId + 1
  /\ IF ordered
     THEN /\ pc' = [pc EXCEPT ![w] = "insert"]
          /\ UNCHANGED mtx
     ELSE /\ pc' = [pc EXCEPT ![w] = "solve"]
          /\ mtx' = NoWorker
  /\ UNCHANGED <<input, deque, out, outMtx>>

(* fgets returns a line; next_id++.  Unless a slot is needed, mtx is       *)
(* released.                                                               *)
Read(w) ==
  /\ pc[w] = "read"
  /\ nextId < arrived
  /\ id' = [id EXCEPT ![w] = nextId]
  /\ nextId' = nextId + 1
  /\ IF ordered
     THEN /\ pc' = [pc EXCEPT ![w] = "insert"]
          /\ UNCHANGED mtx
     ELSE /\ pc' = [pc EXCEPT ![w] = "solve"]
          /\ mtx' = NoWorker
  /\ UNCHANGED <<input, deque, out, outMtx>>

(* Defect: a worker takes an empty pipe for the end of the input.          *)
MutEndOfInput(w) ==
  /\ pc[w] = "read"
  /\ nextId = arrived
  /\ mtx' = NoWorker
  /\ pc' = [pc EXCEPT ![w] = "exit"]
  /\ UNCHANGED <<input, nextId, deque, out, outMtx, id>>

(* Defect: the worker ends with mtx locked.                                *)
MutKeepLock(w) ==
  /\ pc[w] = "read"
  /\ nextId = arrived
  /\ closed
  /\ pc' = [pc EXCEPT ![w] = "exit"]
  /\ UNCHANGED <<input, nextId, deque, out, mtx, outMtx, id>>

(* fgets or feof reports the end of the input: the worker ends.            *)
EndOfInput(w) ==
  /\ pc[w] = "read"
  /\ nextId = arrived
  /\ closed
  /\ mtx' = NoWorker
  /\ pc' = [pc EXCEPT ![w] = "exit"]
  /\ UNCHANGED <<input, nextId, deque, out, outMtx, id>>

(* solutions.insert(solutions.end(), ""), and mtx is released.             *)
Insert(w) ==
  /\ pc[w] = "insert"
  /\ solutions' = Append(solutions, id[w])
  /\ text' = [text EXCEPT ![id[w]] = "empty"]
  /\ mtx' = NoWorker
  /\ pc' = [pc EXCEPT ![w] = "solve"]
  /\ UNCHANGED <<input, nextId, out, outMtx, id>>

(* The same through emplace_front at a node boundary, in two steps.        *)
InsertRaw(w) ==
  /\ pc[w] = "insert"
  /\ solutions = <<>>
  /\ solutions' = <<id[w]>>
  /\ text' = [text EXCEPT ![id[w]] = "raw"]
  /\ pc' = [pc EXCEPT ![w] = "construct"]
  /\ UNCHANGED <<input, nextId, out, mtx, outMtx, id>>

(* The string is constructed, be its slot still in the deque or not.       *)
Construct(w) ==
  /\ pc[w] = "construct"
  /\ text' = [text EXCEPT ![id[w]] = IF @ = "raw" THEN "empty" ELSE @]
  /\ mtx' = NoWorker
  /\ pc' = [pc EXCEPT ![w] = "solve"]
  /\ UNCHANGED <<input, nextId, solutions, out, outMtx, id>>

(* The line is parsed, the cube solved and the answer formatted.           *)
Solve(w) ==
  /\ pc[w] = "solve"
  /\ pc' = [pc EXCEPT ![w] = "answer"]
  /\ UNCHANGED <<input, nextId, deque, out, mtx, outMtx, id>>

(* Defect: one mutex guards the input and the output.                      *)
MutLockOut(w) ==
  /\ pc[w] = "answer"
  /\ outMtx = NoWorker
  /\ mtx = NoWorker
  /\ outMtx' = w
  /\ pc' = [pc EXCEPT ![w] = IF ordered THEN "assign" ELSE "print"]
  /\ UNCHANGED <<input, nextId, deque, out, mtx, id>>

(* out_mtx.lock.                                                           *)
LockOut(w) ==
  /\ pc[w] = "answer"
  /\ outMtx = NoWorker
  /\ outMtx' = w
  /\ pc' = [pc EXCEPT ![w] = IF ordered THEN "assign" ELSE "print"]
  /\ UNCHANGED <<input, nextId, deque, out, mtx, id>>

(* Unordered: puts(buf), and out_mtx is released.                          *)
PrintAnswer(w) ==
  /\ pc[w] = "print"
  /\ out' = Append(out, id[w])
  /\ outMtx' = NoWorker
  /\ pc' = [pc EXCEPT ![w] = "lock"]
  /\ UNCHANGED <<input, nextId, deque, mtx, id>>

(* Ordered: *solutionp = buf.                                              *)
Assign(w) ==
  /\ pc[w] = "assign"
  /\ text' = [text EXCEPT ![id[w]] = IF @ = "gone" THEN @ ELSE "full"]
  /\ pc' = [pc EXCEPT ![w] = "drain"]
  /\ UNCHANGED <<input, nextId, solutions, out, mtx, outMtx, id>>

(* What the string at the front may read as; no front counts as empty.     *)
FrontText ==
  IF solutions = <<>> THEN {"empty"}
  ELSE IF text[Head(solutions)] = "raw" THEN RawText
  ELSE {text[Head(solutions)]}

(* The front is not empty: it is printed ...                               *)
PrintFront(w) ==
  /\ pc[w] = "drain"
  /\ "full" \in FrontText
  /\ out' = Append(out, IF text[Head(solutions)] = "full" THEN Head(solutions) ELSE Garbage)
  /\ pc' = [pc EXCEPT ![w] = "pop"]
  /\ UNCHANGED <<input, nextId, deque, mtx, outMtx, id>>

(* Defect: only one answer is printed at a time.                           *)
MutPop(w) ==
  /\ pc[w] = "pop"
  /\ text' = [text EXCEPT ![Head(solutions)] = "gone"]
  /\ solutions' = Tail(solutions)
  /\ outMtx' = NoWorker
  /\ pc' = [pc EXCEPT ![w] = "lock"]
  /\ UNCHANGED <<input, nextId, out, mtx, id>>

(* ... and popped.                                                         *)
Pop(w) ==
  /\ pc[w] = "pop"
  /\ text' = [text EXCEPT ![Head(solutions)] = "gone"]
  /\ solutions' = Tail(solutions)
  /\ pc' = [pc EXCEPT ![w] = "drain"]
  /\ UNCHANGED <<input, nextId, out, mtx, outMtx, id>>

(* The deque is empty or its front is: out_mtx is released.                *)
Drained(w) ==
  /\ pc[w] = "drain"
  /\ "empty" \in FrontText
  /\ outMtx' = NoWorker
  /\ pc' = [pc EXCEPT ![w] = "lock"]
  /\ UNCHANGED <<input, nextId, deque, out, mtx, id>>

(* The workers are joined.                                                 *)
Terminated == (\A w \in Workers : pc[w] = "exit") /\ closed /\ UNCHANGED vars

Worker(w) ==
  \/ LockIn(w)      \/ Read(w)       \/ EndOfInput(w)
  \/ Insert(w)      \/ InsertRaw(w)  \/ Construct(w)
  \/ Solve(w)       \/ LockOut(w)
  \/ PrintAnswer(w)
  \/ Assign(w)      \/ PrintFront(w) \/ Pop(w) \/ Drained(w)

Next ==
  \/ Arrive
  \/ Close
  \/ \E w \in Workers : Worker(w)
  \/ Terminated

Spec == Init /\ [][Next]_vars

(* The workers are scheduled; the input need neither arrive nor end.  Weak *)
(* fairness is enough although a mutex may be taken by others again and    *)
(* again while a worker waits: who took it comes back only with another    *)
(* line, and there are finitely many.  With endless input the code relies  *)
(* on a mutex that does not starve a thread; the bound on Lines hides it.  *)
Fairness == \A w \in Workers : WF_vars(Worker(w))
FairSpec == Spec /\ Fairness

-----------------------------------------------------------------------------
TypeOK ==
  /\ ordered \in Modes
  /\ arrived \in 0..Lines
  /\ closed \in BOOLEAN
  /\ nextId \in 0..Lines
  /\ solutions \in Seq(Ids)
  /\ text \in [Ids -> {"none", "raw", "empty", "full", "gone"}]
  /\ out \in Seq(Ids \union {Garbage})
  /\ mtx \in Workers \union {NoWorker}
  /\ outMtx \in Workers \union {NoWorker}
  /\ pc \in [Workers -> {"lock", "read", "insert", "construct", "solve", "answer",
                         "print", "assign", "drain", "pop", "exit"}]
  /\ id \in [Workers -> Nat]

(* The pool gives the service: answers are neither lost nor repeated, in   *)
(* ordered mode they come in order, and an accepted line is answered even  *)
(* if the worker that waits for more input holds mtx for ever.             *)
Service == INSTANCE LineService WITH accepted <- nextId, printed <- out
ServiceImplemented == Service!Spec

(* The safety part of it alone, in the words of the --ordered option:      *)
(* output in the same order as input.                                      *)
OutputInOrder ==
  ordered => \A k \in 1..Len(out) : out[k] = k - 1

(* Whoever leaves the output lock leaves no answer behind that could have  *)
(* been printed: the front of the deque is still being solved.             *)
NothingHeldBack ==
  outMtx = NoWorker /\ solutions # <<>> => text[Head(solutions)] # "full"

(* When the workers have ended, all the input has been read and all of it  *)
(* has been answered: nothing is left in the deque.                        *)
AllAnswered ==
  (\A w \in Workers : pc[w] = "exit") =>
    closed /\ nextId = arrived /\ Len(out) = nextId /\ solutions = <<>>

(* At the end of the input every worker ends, so that join returns.        *)
WorkersEnd == closed ~> \A w \in Workers : pc[w] = "exit"

=============================================================================
