-------------------------- MODULE TableStoreProofs --------------------------
(***************************************************************************)
(* Theorems about TableStore, for every number of processes, every length  *)
(* of the table and all situations that the assumptions admit.             *)
(***************************************************************************)
EXTENDS TableStore, WellFoundedInduction, TLAPS

Labels == {"out", "attach", "reattach", "create", "shmopen", "shmread",
           "open", "read", "generate", "opentmp", "write", "rename", "ready"}

Reading(p) == pc[p] \in {"shmread", "read"}

(* A file is open exactly while it is read or written, and the two names   *)
(* never stand for one inode.                                              *)
OpenFiles  == \A p \in Procs : fp[p] # NoFile <=> Reading(p) \/ pc[p] = "write"
NamesApart == tmp # NoFile => tmp # file

TypeInv ==
  /\ TypeOK
  /\ OpenFiles
  /\ NamesApart

-----------------------------------------------------------------------------
(* The length of an inode is the number of its last row, 0 if it has none. *)
LEMMA LengthProperty ==
  ASSUME NEW i \in Inodes, data[i] \subseteq AllRows
  PROVE  /\ Length(i) \in 0..NRows
         /\ Length(i) = 0 \/ Length(i) \in data[i]
         /\ \A k \in data[i] : k <= Length(i)
<1> DEFINE bounds == {n \in 0..NRows : \A k \in data[i] : k <= n}
<1>0. NRows \in Nat
  BY StoreAssumption
<1>1. NRows \in bounds /\ bounds \subseteq Nat
  BY <1>0 DEF AllRows
<1>2. PICK n \in bounds : \A k \in bounds : ~(<<k, n>> \in OpToRel(<, Nat))
  BY <1>1, NatLessThanWellFounded, WFMin
<1>3. n \in 0..NRows /\ \A k \in data[i] : k <= n
  OBVIOUS
<1>4. \A k \in bounds : ~(k < n)
  BY <1>1, <1>2, Zenon DEF OpToRel
<1>5. n = 0 \/ n \in data[i]
  <2>1. SUFFICES ASSUME n # 0, n \notin data[i] PROVE FALSE
    OBVIOUS
  <2>2. n - 1 \in 0..NRows /\ \A k \in data[i] : k <= n - 1
    BY <1>0, <1>3, <2>1 DEF AllRows
  <2>3. QED
    BY <1>0, <1>4, <2>2
<1>6. QED
  BY <1>3, <1>5 DEF Length

(* There is an inode for a new file.                                       *)
LEMMA FreeInodeProperty ==
  ASSUME TypeOK
  PROVE  /\ FreeInode \in Inodes /\ FreeInode # tmp /\ FreeInode # file
         /\ \A p \in Procs : fp[p] # FreeInode
<1>1. \E i \in Inodes : i \notin {tmp, file} /\ \A p \in Procs : fp[p] # i
  <2>1. /\ tmp \in Inodes \union {NoFile} /\ file \in Inodes \union {NoFile}
        /\ fp \in [Procs -> Inodes \union {NoFile}]
    BY DEF TypeOK
  <2> DEFINE Apart(a, b, f) == \E i \in Inodes : i \notin {a, b} /\ \A p \in Procs : f[p] # i
  <2>2. \A a, b \in Inodes \union {NoFile}, f \in [Procs -> Inodes \union {NoFile}] : Apart(a, b, f)
    BY InodeAssumption
  <2> HIDE DEF Apart
  <2>3. Apart(tmp, file, fp)
    BY <2>1, <2>2, Zenon
  <2>4. QED
    BY <2>3 DEF Apart
<1>2. QED
  BY <1>1 DEF FreeInode

-----------------------------------------------------------------------------
(* The initial state is well typed.                                        *)
LEMMA InitTypeInv == Init => TypeInv
<1> SUFFICES ASSUME Init PROVE TypeInv
  OBVIOUS
<1>1. situation.saved \subseteq AllRows /\ 1 \in Inodes /\ NRows \in Nat
  BY StoreAssumption DEF Init, AllRows
<1>2. data \in [Inodes -> SUBSET AllRows]
  BY <1>1 DEF Init
<1>3. file \in Inodes \union {NoFile}
  BY <1>1 DEF Init
<1>4. fp \in [Procs -> Inodes \union {NoFile}] /\ row \in [Procs -> 0..NRows]
  BY <1>1 DEF Init
<1>5. /\ mem \in [Procs -> SUBSET AllRows] /\ attached \in [Procs -> BOOLEAN]
      /\ pc \in [Procs -> {"out"}]
  BY DEF Init
<1>6. QED
  BY <1>2, <1>3, <1>4, <1>5 DEF Init, TypeInv, TypeOK, OpenFiles, NamesApart, Reading

(* Every step keeps the types.                                             *)
LEMMA NextTypeInv == TypeInv /\ [Next]_vars => TypeInv'
<1> SUFFICES ASSUME TypeInv, [Next]_vars PROVE TypeInv'
  OBVIOUS
<1> USE DEF TypeInv, TypeOK, OpenFiles, NamesApart, Reading
<1>1. ASSUME NEW p \in Procs, Start(p) PROVE TypeInv'
  BY <1>1 DEF Start, Goto, disk, segment, own
<1>2. ASSUME NEW p \in Procs, Obtain(p) PROVE TypeInv'
  <2>1. CASE Attach(p)
    BY <2>1 DEF Attach, Goto, disk, segment
  <2>2. CASE AttachFails(p)
    <3>1. \E l \in {"create", "reattach", "open"} : pc' = [pc EXCEPT ![p] = l]
      BY <2>2 DEF AttachFails, Goto
    <3>2. UNCHANGED <<situation, disk, segment, own>> /\ pc[p] \in {"attach", "reattach"}
      BY <2>2 DEF AttachFails
    <3>3. QED
      BY <3>1, <3>2 DEF disk, segment, own
  <2>3. CASE Create(p)
    <3>1. \E l \in {"shmopen", "generate"} : pc' = [pc EXCEPT ![p] = l]
      BY <2>3 DEF Create, Goto
    <3>2. QED
      BY <2>3, <3>1 DEF Create, disk, own
  <2>4. CASE CreateFails(p)
    BY <2>4 DEF CreateFails, Goto, disk, segment, own
  <2>5. CASE Open(p)
    <3>1. CASE file = NoFile
      BY <2>5, <3>1 DEF Open, Goto, disk, segment
    <3>2. CASE file # NoFile
      <4>1. \E l \in {"shmread", "read"} : pc' = [pc EXCEPT ![p] = l]
        BY <2>5, <3>2 DEF Open, Goto
      <4>2. row' = [row EXCEPT ![p] = 0] /\ 0 \in 0..NRows
        BY <2>5, <3>2, StoreAssumption DEF Open
      <4>3. fp' = [fp EXCEPT ![p] = file]
            /\ UNCHANGED <<situation, disk, segment, mem, attached>>
        BY <2>5, <3>2 DEF Open
      <4>4. QED
        BY <3>2, <4>1, <4>2, <4>3 DEF disk, segment
    <3>3. QED
      BY <3>1, <3>2
  <2>6. CASE LoadFails(p)
    BY <2>6 DEF LoadFails, Goto, disk, segment
  <2>7. CASE ReadRow(p)
    <3>1. fp[p] \in Inodes /\ row[p] < Length(fp[p]) /\ Length(fp[p]) \in 0..NRows
      BY <2>7, LengthProperty DEF ReadRow
    <3>2. row[p] + 1 \in 1..NRows
      BY <3>1, StoreAssumption
    <3>3. row' = [row EXCEPT ![p] = @ + 1] /\ UNCHANGED <<situation, disk, shm, pc, fp, attached>>
      BY <2>7 DEF ReadRow
    <3>4. row' \in [Procs -> 0..NRows]
      BY <3>2, <3>3
    <3>5. seg' \subseteq AllRows /\ mem' \in [Procs -> SUBSET AllRows]
      BY <2>7, <3>1 DEF ReadRow
    <3>6. QED
      BY <3>3, <3>4, <3>5 DEF disk
  <2>8. CASE ReadEnd(p)
    <3>1. /\ \E l \in {"ready", "generate"} : pc' = [pc EXCEPT ![p] = l]
          /\ attached' \in [Procs -> BOOLEAN]
      BY <2>8 DEF ReadEnd, Goto
    <3>2. fp' = [fp EXCEPT ![p] = NoFile] /\ UNCHANGED <<situation, disk, segment, row, mem>>
      BY <2>8 DEF ReadEnd
    <3>3. QED
      BY <3>1, <3>2 DEF disk, segment
  <2>9. CASE Generate(p)
    BY <2>9 DEF Generate, Goto, disk, segment
  <2>10. CASE Crash(p)
    BY <2>10, StoreAssumption DEF Crash, Leave, Goto, disk, segment
  <2>11. CASE OpenTmp(p)
    <3>1. tmp' \in Inodes /\ tmp' # NoFile /\ tmp' # file
      BY <2>11, FreeInodeProperty, StoreAssumption DEF OpenTmp
    <3>2. row' \in [Procs -> 0..NRows]
      BY <2>11, StoreAssumption DEF OpenTmp
    <3>3. /\ fp' = [fp EXCEPT ![p] = tmp'] /\ data' = [data EXCEPT ![tmp'] = {}]
          /\ pc' = [pc EXCEPT ![p] = "write"]
          /\ UNCHANGED <<situation, file, segment, mem, attached>>
      BY <2>11 DEF OpenTmp, Goto
    <3>4. QED
      BY <3>1, <3>2, <3>3 DEF segment
  <2>12. CASE WriteRow(p)
    <3>1. row[p] + 1 \in AllRows /\ row[p] + 1 \in 0..NRows
      BY <2>12, StoreAssumption DEF WriteRow, AllRows
    <3>2. /\ row' = [row EXCEPT ![p] = @ + 1]
          /\ data' = [data EXCEPT ![fp[p]] = @ \union {row[p] + 1}]
          /\ UNCHANGED <<situation, tmp, file, segment, pc, fp, mem, attached>>
      BY <2>12 DEF WriteRow
    <3>3. QED
      BY <3>1, <3>2 DEF segment
  <2>13. CASE WriteFails(p)
    BY <2>13 DEF WriteFails, Goto, disk, segment
  <2>14. CASE WriteEnd(p)
    BY <2>14 DEF WriteEnd, Goto, disk, segment
  <2>15. CASE Rename(p)
    BY <2>15 DEF Rename, Goto, segment, own
  <2>16. QED
    BY <1>2, <2>1, <2>2, <2>3, <2>4, <2>5, <2>6, <2>7, <2>8, <2>9, <2>10, <2>11, <2>12, <2>13,
       <2>14, <2>15 DEF Obtain
<1>3. ASSUME NEW p \in Procs, Finish(p) \/ Killed(p) PROVE TypeInv'
  <2>1. Leave(p)
    BY <1>3 DEF Finish, Killed
  <2>2. QED
    BY <2>1, StoreAssumption DEF Leave, Goto, disk, segment
<1>4. CASE UNCHANGED vars
  BY <1>4 DEF vars, disk, segment, own
<1>5. QED
  BY <1>1, <1>2, <1>3, <1>4 DEF Next

(* Types, open files and the two names are as they should be for ever.     *)
LEMMA TypeInvariant == Spec => []TypeInv
<1>1. Init => TypeInv
  BY InitTypeInv
<1>2. TypeInv /\ [Next]_vars => TypeInv'
  BY NextTypeInv
<1>3. QED
  BY <1>1, <1>2, PTL DEF Spec

(* The variables always have their types; no process ever counts more rows *)
(* than the table has.                                                     *)
THEOREM StoreTypeCorrect == Spec => []TypeOK
<1>1. TypeInv => TypeOK
  BY DEF TypeInv
<1>2. QED
  BY <1>1, TypeInvariant, PTL

-----------------------------------------------------------------------------
Step(p) == Start(p) \/ Obtain(p) \/ Finish(p) \/ Killed(p)

LEMMA StepOrStutter == [Next]_vars => (\E p \in Procs : Step(p)) \/ UNCHANGED vars
BY DEF Next, Step

(* A step of one process leaves the others and the situation alone; only a *)
(* start takes a process out of rest.                                      *)
LEMMA StepOfOne ==
  ASSUME TypeInv, NEW p \in Procs, Step(p)
  PROVE  /\ situation' = situation
         /\ \A q \in Procs \ {p} : UNCHANGED <<pc[q], fp[q], row[q], mem[q], attached[q]>>
         /\ Start(p) => pc[p] = "out"
         /\ Obtain(p) => Preparing(p)
         /\ Finish(p) \/ Killed(p) => pc'[p] = "out"
<1> USE DEF TypeInv, TypeOK, Goto, own, disk, segment
<1>1. CASE Start(p)
  BY <1>1 DEF Start, Obtain, Attach, AttachFails, Create, CreateFails, Open, LoadFails, ReadRow,
     ReadEnd, Generate, Crash, OpenTmp, WriteRow, WriteFails, WriteEnd, Rename, Finish, Killed, Leave
<1>2. CASE Obtain(p)
  <2>1. pc[p] \notin {"out", "ready"}
    BY <1>2 DEF Obtain, Attach, AttachFails, Create, CreateFails, Open, LoadFails, ReadRow,
       ReadEnd, Generate, Crash, OpenTmp, WriteRow, WriteFails, WriteEnd, Rename
  <2>2. situation' = situation
    BY <1>2 DEF Obtain, Attach, AttachFails, Create, CreateFails, Open, LoadFails, ReadRow,
       ReadEnd, Generate, Crash, OpenTmp, WriteRow, WriteFails, WriteEnd, Rename, Leave
  <2>3. ASSUME NEW q \in Procs \ {p}
        PROVE  UNCHANGED <<pc[q], fp[q], row[q], mem[q], attached[q]>>
    <3>1. CASE Attach(p) \/ AttachFails(p) \/ Create(p) \/ CreateFails(p) \/ LoadFails(p)
      BY <3>1 DEF Attach, AttachFails, Create, CreateFails, LoadFails
    <3>2. CASE Open(p)
      BY <3>2 DEF Open
    <3>3. CASE ReadRow(p)
      BY <3>3 DEF ReadRow
    <3>4. CASE ReadEnd(p)
      BY <3>4 DEF ReadEnd
    <3>5. CASE Generate(p) \/ Crash(p)
      BY <3>5 DEF Generate, Crash, Leave
    <3>6. CASE OpenTmp(p) \/ WriteRow(p) \/ WriteFails(p) \/ WriteEnd(p) \/ Rename(p)
      BY <3>6 DEF OpenTmp, WriteRow, WriteFails, WriteEnd, Rename
    <3>7. QED
      BY <1>2, <3>1, <3>2, <3>3, <3>4, <3>5, <3>6 DEF Obtain
  <2>4. pc[p] # "out" /\ (Finish(p) \/ Killed(p) => pc'[p] = "out")
    BY <2>1 DEF Finish, Killed, Leave
  <2>5. QED
    BY <2>1, <2>2, <2>3, <2>4 DEF Start, Preparing
<1>3. CASE Finish(p) \/ Killed(p)
  <2>1. Leave(p) /\ pc[p] # "out"
    BY <1>3 DEF Finish, Killed
  <2>2. pc'[p] = "out"
    BY <2>1 DEF Leave
  <2>3. Obtain(p) => pc[p] \notin {"out", "ready"}
    BY DEF Obtain, Attach, AttachFails, Create, CreateFails, Open, LoadFails, ReadRow,
       ReadEnd, Generate, Crash, OpenTmp, WriteRow, WriteFails, WriteEnd, Rename
  <2>4. QED
    BY <2>1, <2>2, <2>3 DEF Leave, Start, Preparing
<1>4. QED
  BY <1>1, <1>2, <1>3 DEF Step

(***************************************************************************)
(* Invocations in turn.  One process at a time gets its table; its writes  *)
(* go to the temporary file, which holds the rows it has written so far;   *)
(* it renames a complete file; and what it reads is the table file.        *)
(***************************************************************************)
OneAtATime    == \A p, q \in Procs : Preparing(p) /\ Preparing(q) => p = q
WriterHasTmp  == \A p \in Procs : pc[p] = "write" => fp[p] = tmp /\ data[tmp] = 1..row[p]
RenameWhole   == \A p \in Procs : pc[p] = "rename" => tmp # NoFile /\ data[tmp] = AllRows
ReaderHasFile == \A p \in Procs : Reading(p) => fp[p] = file

TurnInv ==
  InTurn =>
    /\ OneAtATime
    /\ WriterHasTmp
    /\ RenameWhole
    /\ ReaderHasFile

LEMMA InitTurnInv == Init => TurnInv
BY DEF Init, TurnInv, OneAtATime, WriterHasTmp, RenameWhole, ReaderHasFile, Preparing, Reading

(* In turn, the others rest while a process gets its table.                *)
LEMMA OthersRest ==
  ASSUME TypeInv, TurnInv, InTurn, NEW p \in Procs, Obtain(p), NEW q \in Procs \ {p}
  PROVE  /\ pc[q] \in {"out", "ready"} /\ pc'[q] = pc[q]
         /\ ~Preparing(q) /\ ~Reading(q) /\ pc[q] \notin {"write", "rename"}
<1>1. Preparing(p) /\ pc'[q] = pc[q]
  BY StepOfOne DEF Step
<1>2. ~Preparing(q)
  BY <1>1 DEF TurnInv, OneAtATime
<1>3. QED
  BY <1>1, <1>2 DEF Preparing, Reading, TypeInv, TypeOK

(* Every step keeps the invariant of invocations in turn.                  *)
LEMMA NextTurnInv == TypeInv /\ TurnInv /\ [Next]_vars => TurnInv'
<1> SUFFICES ASSUME TypeInv, TurnInv, [Next]_vars, InTurn'
             PROVE  (OneAtATime /\ WriterHasTmp /\ RenameWhole /\ ReaderHasFile)'
  BY DEF TurnInv
<1>1. ASSUME NEW p \in Procs, Step(p)
      PROVE  (OneAtATime /\ WriterHasTmp /\ RenameWhole /\ ReaderHasFile)'
  <2>1. /\ InTurn
        /\ \A q \in Procs \ {p} : UNCHANGED <<pc[q], fp[q], row[q], mem[q], attached[q]>>
    BY <1>1, StepOfOne DEF InTurn
  <2>2. CASE Start(p)
    <3>1. /\ pc' = [pc EXCEPT ![p] = "attach"] /\ UNCHANGED <<tmp, file, data, fp, row>>
          /\ \A q \in Procs : ~Preparing(q)
      BY <2>1, <2>2 DEF Start, Goto, InTurn, disk, own
    <3>2. QED
      BY <2>1, <3>1 DEF TurnInv, OneAtATime, WriterHasTmp, RenameWhole, ReaderHasFile, Preparing,
                        Reading, TypeInv, TypeOK
  <2>3. CASE Finish(p) \/ Killed(p)
    <3>1. pc'[p] = "out" /\ UNCHANGED <<tmp, file, data>>
      BY <2>3, StepOfOne DEF Step, Finish, Killed, Leave, disk
    <3>2. QED
      BY <2>1, <3>1 DEF TurnInv, OneAtATime, WriterHasTmp, RenameWhole, ReaderHasFile, Preparing,
                        Reading
  <2>4. CASE Obtain(p)
    <3>1. \A q \in Procs \ {p} : /\ ~Preparing(q)' /\ ~Reading(q)'
                                 /\ pc'[q] \notin {"write", "rename"}
      BY <2>1, <2>4, OthersRest DEF Preparing, Reading
    <3>2. /\ pc'[p] = "write" => fp'[p] = tmp' /\ data'[tmp'] = 1..row'[p]
          /\ pc'[p] = "rename" => tmp' # NoFile /\ data'[tmp'] = AllRows
          /\ Reading(p)' => fp'[p] = file'
      <4> USE DEF TypeInv, TypeOK, Goto
      <4>1. CASE Attach(p) \/ AttachFails(p) \/ Create(p) \/ CreateFails(p) \/ LoadFails(p)
                   \/ ReadEnd(p) \/ Generate(p) \/ Crash(p) \/ WriteFails(p) \/ Rename(p)
        <5>1. pc'[p] \notin {"write", "rename", "read", "shmread"}
          BY <4>1 DEF Attach, AttachFails, Create, CreateFails, LoadFails, ReadEnd, Generate,
                      Crash, Leave, WriteFails, Rename
        <5>2. QED
          BY <5>1 DEF Reading
      <4>2. CASE Open(p)
        <5>1. /\ pc'[p] \notin {"write", "rename"}
              /\ Reading(p)' => fp'[p] = file
              /\ file' = file
          BY <4>2 DEF Open, Reading, disk
        <5>2. QED
          BY <5>1
      <4>3. CASE ReadRow(p)
        BY <2>1, <4>3 DEF ReadRow, TurnInv, ReaderHasFile, Reading, disk
      <4>4. CASE OpenTmp(p)
        <5>1. tmp' \in Inodes /\ pc'[p] = "write" /\ fp'[p] = tmp' /\ row'[p] = 0
          BY <4>4, FreeInodeProperty DEF OpenTmp
        <5>2. data'[tmp'] = {} /\ 1..0 = {}
          BY <4>4, <5>1 DEF OpenTmp
        <5>3. QED
          BY <5>1, <5>2 DEF Reading
      <4>5. CASE WriteRow(p)
        <5>1. /\ pc[p] = "write" /\ fp[p] = tmp /\ data[tmp] = 1..row[p] /\ tmp \in Inodes
          BY <2>1, <4>5 DEF WriteRow, TurnInv, WriterHasTmp, OpenFiles
        <5>2. /\ row'[p] = row[p] + 1 /\ data'[tmp] = data[tmp] \union {row[p] + 1}
              /\ UNCHANGED <<pc, fp, tmp>>
          BY <4>5, <5>1 DEF WriteRow
        <5>3. 1..(row[p] + 1) = (1..row[p]) \union {row[p] + 1}
          BY StoreAssumption
        <5>4. QED
          BY <5>1, <5>2, <5>3 DEF Reading
      <4>6. CASE WriteEnd(p)
        <5>1. /\ row[p] = NRows /\ pc'[p] = "rename" /\ UNCHANGED <<tmp, data>>
              /\ fp[p] = tmp /\ data[tmp] = 1..row[p] /\ tmp \in Inodes
          BY <2>1, <4>6 DEF WriteEnd, TurnInv, WriterHasTmp, OpenFiles, disk
        <5>2. QED
          BY <5>1, StoreAssumption DEF AllRows, Reading
      <4>7. QED
        BY <2>4, <4>1, <4>2, <4>3, <4>4, <4>5, <4>6 DEF Obtain
    <3>3. QED
      BY <3>1, <3>2 DEF OneAtATime, WriterHasTmp, RenameWhole, ReaderHasFile
  <2>5. QED
    BY <1>1, <2>2, <2>3, <2>4 DEF Step
<1>2. CASE UNCHANGED vars
  BY <1>2 DEF vars, disk, own, TurnInv, InTurn, OneAtATime, WriterHasTmp, RenameWhole,
              ReaderHasFile, Preparing, Reading
<1>3. QED
  BY <1>1, <1>2 DEF Next, Step

LEMMA TurnInvariant == Spec => []TurnInv
<1>1. Init => TurnInv
  BY InitTurnInv
<1>2. TypeInv /\ TurnInv /\ [Next]_vars => TurnInv'
  BY NextTurnInv
<1>3. QED
  BY <1>1, <1>2, TypeInvariant, PTL DEF Spec

-----------------------------------------------------------------------------
(* In turn, a step either leaves the table file as it is, name and rows,   *)
(* or puts a complete one in its place.                                    *)
LEMMA FileStep ==
  ASSUME TypeInv, TurnInv, InTurn, [Next]_vars
  PROVE  \/ file' = file /\ (file # NoFile => data'[file] = data[file])
         \/ file' # NoFile /\ data'[file'] = AllRows
<1> USE DEF TypeInv, TypeOK
<1>1. ASSUME NEW p \in Procs, OpenTmp(p)
      PROVE  file' = file /\ (file # NoFile => data'[file] = data[file])
  <2>1. tmp' # file
    BY <1>1, FreeInodeProperty DEF OpenTmp, NamesApart
  <2>2. file' = file /\ data' = [data EXCEPT ![tmp'] = {}]
    BY <1>1 DEF OpenTmp
  <2>3. QED
    BY <2>1, <2>2
<1>2. ASSUME NEW p \in Procs, WriteRow(p)
      PROVE  file' = file /\ (file # NoFile => data'[file] = data[file])
  <2>1. fp[p] = tmp /\ tmp # NoFile /\ tmp # file
    BY <1>2 DEF WriteRow, TurnInv, WriterHasTmp, OpenFiles, NamesApart
  <2>2. file' = file /\ data' = [data EXCEPT ![fp[p]] = @ \union {row'[p]}]
    BY <1>2 DEF WriteRow
  <2>3. QED
    BY <2>1, <2>2
<1>3. ASSUME NEW p \in Procs, Rename(p)
      PROVE  \/ file' = file /\ data' = data
             \/ file' # NoFile /\ data'[file'] = AllRows
  BY <1>3 DEF Rename, TurnInv, RenameWhole
<1>4. ASSUME NEW p \in Procs, Step(p), ~OpenTmp(p), ~WriteRow(p), ~Rename(p)
      PROVE  file' = file /\ data' = data
  BY <1>4 DEF Step, Start, Obtain, Attach, AttachFails, Create, CreateFails, Open, LoadFails,
     ReadRow, ReadEnd, Generate, Crash, WriteFails, WriteEnd, Finish, Killed, Leave, disk
<1>5. CASE UNCHANGED vars
  BY <1>5 DEF vars, disk
<1>6. QED
  BY <1>1, <1>2, <1>3, <1>4, <1>5 DEF Next, Step

(* Only a complete file ever gets the name of the table, whatever kills or *)
(* faults befell the invocations, as long as they take turns.              *)
THEOREM OnlyWholeFilesNamed == Spec => NamedWhole
<1>1. TypeInv /\ TurnInv /\ [Next]_vars
        => (InTurn /\ file' # file => file' # NoFile /\ data'[file'] = AllRows)
  BY FileStep
<1>2. QED
  BY <1>1, TypeInvariant, TurnInvariant, PTL DEF Spec, NamedWhole

(* A complete table file stays complete, under its name.                   *)
THEOREM SavedTablesStay == Spec => SavedForGood
<1>1. TypeInv /\ TurnInv /\ [Next]_vars
        => (InTurn /\ file # NoFile /\ data[file] = AllRows
              => file' # NoFile /\ data'[file'] = AllRows)
  BY FileStep
<1>2. QED
  BY <1>1, TypeInvariant, TurnInvariant, PTL DEF Spec, SavedForGood

-----------------------------------------------------------------------------
(***************************************************************************)
(* Private tables.  What was generated is whole; before anything is read   *)
(* or generated the memory of a process is empty; a segment that is used   *)
(* or loaded exists; and when invocations take turns a reader has got what *)
(* the file holds up to its position.                                      *)
(***************************************************************************)
GeneratedWhole ==
  \A p \in Procs : pc[p] \in {"opentmp", "write", "rename"} => mem[p] = AllRows
NothingYet ==
  \A p \in Procs :
    pc[p] \in {"out", "attach", "reattach", "create", "shmopen", "open"} => mem[p] = {}
AttachedReady == \A p \in Procs : attached[p] => pc[p] = "ready" /\ shm
LoadingShared == \A p \in Procs : pc[p] \in {"shmopen", "shmread"} => shm
FileUnholed   == file # NoFile => Unholed(data[file])
ReadSoFar     ==
  \A p \in Procs : pc[p] = "read" => mem[p] = (1..row[p]) \intersect data[file]

PrivateInv ==
  /\ GeneratedWhole
  /\ NothingYet
  /\ AttachedReady
  /\ LoadingShared
  /\ InTurn /\ Unholed(situation.saved) => FileUnholed /\ ReadSoFar /\ PrivateComplete

LEMMA InitPrivateInv == Init => PrivateInv
<1> SUFFICES ASSUME Init PROVE PrivateInv
  OBVIOUS
<1>1. GeneratedWhole /\ NothingYet /\ AttachedReady /\ LoadingShared /\ ReadSoFar /\ PrivateComplete
  BY DEF Init, GeneratedWhole, NothingYet, AttachedReady, LoadingShared, ReadSoFar, PrivateComplete
<1>2. Unholed(situation.saved) => FileUnholed
  BY StoreAssumption DEF Init, FileUnholed
<1>3. QED
  BY <1>1, <1>2 DEF PrivateInv

(* A file without holes that has its last row has them all.                *)
LEMMA UnholedWhole ==
  ASSUME NEW i \in Inodes, data[i] \subseteq AllRows, Unholed(data[i]), Length(i) = NRows
  PROVE  data[i] = AllRows
<1>1. NRows \in data[i]
  BY LengthProperty, StoreAssumption
<1>2. QED
  BY <1>1 DEF Unholed, AllRows

(* A complete set of rows has no holes.                                    *)
LEMMA AllRowsUnholed == Unholed(AllRows)
BY StoreAssumption DEF Unholed, AllRows

(* The part of the invariant that needs no turns.                          *)
LEMMA NextWholeMem ==
  TypeInv /\ PrivateInv /\ [Next]_vars => (GeneratedWhole /\ NothingYet /\ AttachedReady /\ LoadingShared)'
<1> SUFFICES ASSUME TypeInv, PrivateInv, [Next]_vars
             PROVE  (GeneratedWhole /\ NothingYet /\ AttachedReady /\ LoadingShared)'
  OBVIOUS
<1> USE DEF TypeInv, TypeOK, PrivateInv
<1>1. ASSUME NEW p \in Procs, Step(p) PROVE (GeneratedWhole /\ NothingYet /\ AttachedReady /\ LoadingShared)'
  <2>1. \A q \in Procs \ {p} : UNCHANGED <<pc[q], fp[q], row[q], mem[q], attached[q]>>
    BY <1>1, StepOfOne
  <2>2. shm => shm'
    BY <1>1 DEF Step, Start, Obtain, Attach, AttachFails, Create, CreateFails, Open, LoadFails,
       ReadRow, ReadEnd, Generate, Crash, OpenTmp, WriteRow, WriteFails, WriteEnd, Rename, Finish,
       Killed, Leave, segment
  <2>3. /\ pc'[p] \in {"opentmp", "write", "rename"} => mem'[p] = AllRows
        /\ pc'[p] \in {"out", "attach", "reattach", "create", "shmopen", "open"} => mem'[p] = {}
        /\ attached'[p] => pc'[p] = "ready" /\ shm'
        /\ pc'[p] \in {"shmopen", "shmread"} => shm'
    <3> USE DEF Goto, disk, segment, own
    <3>1. CASE Start(p)
      BY <3>1 DEF Start, AttachedReady, NothingYet
    <3>2. CASE Attach(p) \/ CreateFails(p) \/ LoadFails(p) \/ Generate(p) \/ WriteFails(p)
                 \/ WriteEnd(p) \/ Rename(p) \/ OpenTmp(p) \/ WriteRow(p)
      BY <3>2 DEF Attach, CreateFails, LoadFails, Generate, WriteFails, WriteEnd, Rename, OpenTmp,
                  WriteRow, AttachedReady, NothingYet, GeneratedWhole
    <3>3. CASE AttachFails(p)
      BY <3>3 DEF AttachFails, AttachedReady, NothingYet, GeneratedWhole
    <3>4. CASE Create(p)
      BY <3>4 DEF Create, AttachedReady, NothingYet
    <3>5. CASE Open(p)
      BY <3>5 DEF Open, AttachedReady, NothingYet, LoadingShared
    <3>6. CASE ReadRow(p)
      BY <3>6 DEF ReadRow, AttachedReady, LoadingShared
    <3>7. CASE ReadEnd(p)
      <4>1. pc[p] # "ready" /\ ~attached[p] /\ (pc[p] = "shmread" => shm)
        BY <3>7 DEF ReadEnd, AttachedReady, LoadingShared
      <4>2. QED
        BY <3>7, <4>1 DEF ReadEnd
    <3>8. CASE Finish(p) \/ Killed(p) \/ Crash(p)
      BY <3>8 DEF Finish, Killed, Crash, Leave
    <3>9. QED
      BY <1>1, <3>1, <3>2, <3>3, <3>4, <3>5, <3>6, <3>7, <3>8 DEF Step, Obtain
  <2>4. QED
    BY <2>1, <2>2, <2>3 DEF GeneratedWhole, NothingYet, AttachedReady, LoadingShared
<1>2. CASE UNCHANGED vars
  BY <1>2 DEF vars, segment, own, GeneratedWhole, NothingYet, AttachedReady, LoadingShared
<1>3. QED
  BY <1>1, <1>2 DEF Next, Step

(* In turn, holes never get into the file of the table.                    *)
LEMMA NextFileUnholed ==
  ASSUME TypeInv, TurnInv, InTurn, FileUnholed, [Next]_vars
  PROVE  FileUnholed'
<1>1. CASE file' = file /\ (file # NoFile => data'[file] = data[file])
  BY <1>1 DEF FileUnholed
<1>2. CASE file' # NoFile /\ data'[file'] = AllRows
  BY <1>2, AllRowsUnholed DEF FileUnholed
<1>3. QED
  BY <1>1, <1>2, FileStep

(* The part of the invariant for invocations in turn.                      *)
LEMMA NextPrivate ==
  ASSUME TypeInv, TurnInv, PrivateInv, InTurn, Unholed(situation.saved), [Next]_vars
  PROVE  (FileUnholed /\ ReadSoFar /\ PrivateComplete)'
<1> USE DEF TypeInv, TypeOK
<1>0. FileUnholed /\ ReadSoFar /\ PrivateComplete /\ AttachedReady
  BY DEF PrivateInv
<1>1. ASSUME NEW p \in Procs, Step(p) PROVE (ReadSoFar /\ PrivateComplete)'
  <2>1. \A q \in Procs \ {p} : UNCHANGED <<pc[q], fp[q], row[q], mem[q], attached[q]>>
    BY <1>1, StepOfOne
  <2>2. ASSUME NEW q \in Procs \ {p} PROVE pc'[q] = "read" => UNCHANGED <<file, data>>
    <3>1. CASE Obtain(p)
      BY <3>1, OthersRest
    <3>2. CASE ~Obtain(p)
      BY <1>1, <3>2 DEF Step, Start, Finish, Killed, Leave, disk
    <3>3. QED
      BY <3>1, <3>2
  <2>3. /\ pc'[p] = "read" => mem'[p] = (1..row'[p]) \intersect data'[file']
        /\ pc'[p] = "ready" /\ ~attached'[p] => mem'[p] = AllRows
    <3> USE DEF Goto, disk, segment, own
    <3>1. CASE Start(p) \/ AttachFails(p) \/ Create(p) \/ CreateFails(p) \/ LoadFails(p)
                 \/ Generate(p) \/ OpenTmp(p) \/ WriteEnd(p) \/ Finish(p) \/ Killed(p) \/ Crash(p)
      <4>1. pc'[p] \notin {"read", "ready"}
        BY <3>1 DEF Start, AttachFails, Create, CreateFails, LoadFails, Generate, OpenTmp,
                    WriteEnd, Finish, Killed, Crash, Leave
      <4>2. QED
        BY <4>1
    <3>2. CASE Attach(p)
      BY <3>2 DEF Attach
    <3>3. CASE Open(p)
      <4>1. 1..0 = {}
        OBVIOUS
      <4>2. pc'[p] # "ready" /\ (pc'[p] = "read" => pc[p] = "open" /\ row'[p] = 0)
        BY <3>3 DEF Open
      <4>3. pc[p] = "open" => mem'[p] = {}
        BY <3>3 DEF Open, PrivateInv, NothingYet
      <4>4. QED
        BY <4>1, <4>2, <4>3
    <3>4. CASE ReadRow(p)
      <4>1. CASE pc[p] = "read"
        <5>1. fp[p] = file
          BY <4>1 DEF TurnInv, ReaderHasFile, Reading
        <5>2. /\ row'[p] = row[p] + 1
              /\ mem'[p] = mem[p] \union ({row[p] + 1} \intersect data[file])
              /\ UNCHANGED <<file, data, pc>>
          BY <3>4, <4>1, <5>1 DEF ReadRow
        <5>3. 1..(row[p] + 1) = (1..row[p]) \union {row[p] + 1}
          BY StoreAssumption
        <5>4. mem[p] = (1..row[p]) \intersect data[file]
          BY <1>0, <4>1 DEF ReadSoFar
        <5>5. QED
          BY <4>1, <5>2, <5>3, <5>4
      <4>2. CASE pc[p] # "read"
        BY <3>4, <4>2 DEF ReadRow
      <4>3. QED
        BY <4>1, <4>2
    <3>5. CASE ReadEnd(p)
      <4>1. pc'[p] # "read"
        BY <3>5 DEF ReadEnd
      <4>2. ASSUME pc'[p] = "ready", ~attached'[p] PROVE mem'[p] = AllRows
        <5>1. pc[p] = "read" /\ row[p] = NRows /\ row[p] = Length(fp[p]) /\ mem'[p] = mem[p]
          BY <3>5, <4>2 DEF ReadEnd
        <5>2. fp[p] = file /\ file \in Inodes /\ file # NoFile
          BY <5>1 DEF TurnInv, ReaderHasFile, Reading, OpenFiles
        <5>3. data[file] = AllRows
          BY <1>0, <5>1, <5>2, UnholedWhole DEF FileUnholed
        <5>4. QED
          BY <1>0, <5>1, <5>3 DEF ReadSoFar, AllRows
      <4>3. QED
        BY <4>1, <4>2
    <3>6. CASE WriteRow(p)
      BY <3>6 DEF WriteRow
    <3>7. CASE WriteFails(p) \/ Rename(p)
      BY <3>7 DEF WriteFails, Rename, PrivateInv, GeneratedWhole
    <3>8. QED
      BY <1>1, <3>1, <3>2, <3>3, <3>4, <3>5, <3>6, <3>7 DEF Step, Obtain
  <2>4. QED
    BY <1>0, <2>1, <2>2, <2>3 DEF ReadSoFar, PrivateComplete
<1>2. ASSUME UNCHANGED vars PROVE (ReadSoFar /\ PrivateComplete)'
  BY <1>0, <1>2 DEF vars, disk, own, ReadSoFar, PrivateComplete
<1>3. FileUnholed'
  BY <1>0, NextFileUnholed
<1>4. (ReadSoFar /\ PrivateComplete)'
  BY <1>1, <1>2, StepOrStutter
<1>5. QED
  BY <1>3, <1>4

(* Every step keeps the invariant of private tables.                       *)
LEMMA NextPrivateInv == TypeInv /\ TurnInv /\ PrivateInv /\ [Next]_vars => PrivateInv'
<1> SUFFICES ASSUME TypeInv, TurnInv, PrivateInv, [Next]_vars PROVE PrivateInv'
  OBVIOUS
<1>1. situation' = situation
  BY StepOfOne DEF Next, Step, vars
<1>2. QED
  BY <1>1, NextWholeMem, NextPrivate DEF PrivateInv, InTurn

LEMMA PrivateInvariant == Spec => []PrivateInv
<1>1. Init => PrivateInv
  BY InitPrivateInv
<1>2. TypeInv /\ TurnInv /\ PrivateInv /\ [Next]_vars => PrivateInv'
  BY NextPrivateInv
<1>3. QED
  BY <1>1, <1>2, TypeInvariant, TurnInvariant, PTL DEF Spec

-----------------------------------------------------------------------------
(***************************************************************************)
(* The shared segment, when invocations take turns undisturbed and found a *)
(* complete table file at first.  The one that creates the segment loads   *)
(* it before anybody else can attach it.                                   *)
(***************************************************************************)
FileWhole     == file # NoFile /\ data[file] = AllRows
NoSegmentYet  == \A p \in Procs : pc[p] \in {"reattach", "create"} => ~shm
Loaded        == shm => seg = AllRows \/ \E p \in Procs : Loading(p)
LoadedSoFar   == \A p \in Procs : pc[p] = "shmread" => 1..row[p] \subseteq seg
NobodyWhileLoading == \A p, q \in Procs : Loading(p) => ~attached[q]

SharedInv == FileWhole /\ NoSegmentYet /\ Loaded /\ LoadedSoFar /\ NobodyWhileLoading

SegmentInv == InTurn /\ Undisturbed /\ situation.saved = AllRows => SharedInv

LEMMA InitSegmentInv == Init => SegmentInv
<1> SUFFICES ASSUME Init, situation.saved = AllRows PROVE SharedInv
  BY DEF SegmentInv
<1>1. AllRows # {}
  BY StoreAssumption DEF AllRows
<1>2. FileWhole
  BY <1>1, StoreAssumption DEF Init, FileWhole, NoFile
<1>3. QED
  BY <1>2 DEF Init, SharedInv, NoSegmentYet, Loaded, LoadedSoFar, NobodyWhileLoading, Loading

(* A complete file is as long as the table.                                *)
LEMMA WholeLength ==
  ASSUME NEW i \in Inodes, data[i] = AllRows
  PROVE  Length(i) = NRows
<1>1. NRows \in data[i] /\ NRows \in Nat
  BY StoreAssumption DEF AllRows
<1>2. Length(i) \in 0..NRows /\ NRows <= Length(i)
  BY <1>1, LengthProperty
<1>3. QED
  BY <1>1, <1>2

(* The segment changes only by its creation and by the reads of its        *)
(* loader.                                                                 *)
LEMMA SegmentFrame ==
  ASSUME NEW p \in Procs, Step(p), ~Create(p), ~ReadRow(p)
  PROVE  UNCHANGED <<shm, seg>>
BY DEF Step, Start, Obtain, Attach, AttachFails, CreateFails, Open, LoadFails, ReadEnd, Generate,
   Crash, OpenTmp, WriteRow, WriteFails, WriteEnd, Rename, Finish, Killed, Leave, segment

(* Every step keeps the invariant of the shared segment.                   *)
LEMMA NextShared ==
  ASSUME TypeInv, TurnInv, PrivateInv, SharedInv, InTurn, Undisturbed, [Next]_vars
  PROVE  SharedInv'
<1> USE DEF TypeInv, TypeOK
<1>0. FileWhole /\ NoSegmentYet /\ Loaded /\ LoadedSoFar /\ NobodyWhileLoading /\ AttachedReady
      /\ LoadingShared
  BY DEF SharedInv, PrivateInv
<1>1. FileWhole'
  BY <1>0, FileStep DEF FileWhole
<1>2. ASSUME NEW p \in Procs, Step(p)
      PROVE  (NoSegmentYet /\ Loaded /\ LoadedSoFar /\ NobodyWhileLoading)'
  <2>1. \A q \in Procs \ {p} : UNCHANGED <<pc[q], fp[q], row[q], mem[q], attached[q]>>
    BY <1>2, StepOfOne
  <2> USE DEF Goto, disk, own
  <2>2. CASE Start(p) \/ Finish(p) \/ Killed(p)
    <3>1. /\ pc'[p] \in {"out", "attach"} /\ pc[p] \in {"out", "ready"}
          /\ attached'[p] => attached[p]
      BY <1>2, <2>2 DEF Start, Finish, Killed, Leave, Undisturbed
    <3>2. UNCHANGED <<shm, seg>>
      BY <2>2 DEF Start, Finish, Killed, Leave, segment
    <3>3. QED
      BY <1>0, <2>1, <3>1, <3>2 DEF NoSegmentYet, Loaded, LoadedSoFar, NobodyWhileLoading, Loading
  <2>3. CASE Obtain(p)
    <3>0. \A q \in Procs \ {p} : /\ pc[q] \in {"out", "ready"} /\ pc'[q] \in {"out", "ready"}
                                 /\ attached'[q] = attached[q]
      BY <2>1, <2>3, OthersRest
    <3>1. CASE Create(p)
      <4>1. /\ pc[p] = "create" /\ ~shm /\ shm' /\ pc' = [pc EXCEPT ![p] = "shmopen"]
            /\ attached' = attached
        BY <3>1 DEF Create, Undisturbed
      <4>2. \A q \in Procs : ~attached[q]
        BY <1>0, <4>1 DEF AttachedReady
      <4>3. QED
        BY <3>0, <4>1, <4>2 DEF NoSegmentYet, Loaded, LoadedSoFar, NobodyWhileLoading, Loading
    <3>2. CASE ReadRow(p)
      <4>1. UNCHANGED <<pc, shm, attached>>
        BY <3>2 DEF ReadRow
      <4>2. CASE pc[p] = "shmread"
        <5>1. fp[p] = file
          BY <4>2 DEF TurnInv, ReaderHasFile, Reading
        <5>2. row[p] + 1 \in AllRows
          <6>1. file \in Inodes /\ row[p] < Length(file) /\ Length(file) = NRows
            BY <1>0, <3>2, <5>1, WholeLength DEF ReadRow, FileWhole
          <6>2. QED
            BY <6>1, StoreAssumption DEF AllRows
        <5>3. /\ row'[p] = row[p] + 1 /\ seg \union {row[p] + 1} \subseteq seg'
          BY <1>0, <3>2, <4>2, <5>1, <5>2 DEF ReadRow, FileWhole
        <5>4. 1..(row[p] + 1) = (1..row[p]) \union {row[p] + 1}
          BY StoreAssumption
        <5>5. LoadedSoFar'
          BY <1>0, <3>0, <4>1, <4>2, <5>3, <5>4 DEF LoadedSoFar
        <5>6. QED
          BY <1>0, <4>1, <4>2, <5>5 DEF NoSegmentYet, Loaded, NobodyWhileLoading, Loading
      <4>3. CASE pc[p] # "shmread"
        <5>1. seg' = seg
          BY <3>2, <4>3 DEF ReadRow
        <5>2. QED
          BY <1>0, <3>0, <4>1, <4>3, <5>1 DEF NoSegmentYet, Loaded, LoadedSoFar, NobodyWhileLoading,
                                         Loading
      <4>4. QED
        BY <4>2, <4>3
    <3>3. CASE ~Create(p) /\ ~ReadRow(p)
      <4>0. UNCHANGED <<shm, seg>>
        BY <1>2, <3>3, SegmentFrame
      <4>1. pc'[p] \in {"reattach", "create"} => ~shm
        BY <2>3, <3>3 DEF Obtain, Attach, AttachFails, CreateFails, Open, LoadFails, ReadEnd, Generate,
           Crash, Leave, OpenTmp, WriteRow, WriteFails, WriteEnd, Rename, Undisturbed
      <4>2. Loading(p)' => pc[p] = "shmopen" /\ pc'[p] = "shmread" /\ row'[p] = 0 /\ attached' = attached
        BY <2>3, <3>3 DEF Obtain, Attach, AttachFails, CreateFails, Open, LoadFails, ReadEnd, Generate,
           Crash, Leave, OpenTmp, WriteRow, WriteFails, WriteEnd, Rename, Loading
      <4>3. Loading(p) /\ ~Loading(p)' => seg = AllRows
        <5>1. SUFFICES ASSUME Loading(p), ~Loading(p)' PROVE seg = AllRows
          OBVIOUS
        <5>2. CASE pc[p] = "shmopen"
          BY <1>0, <2>3, <3>3, <5>1, <5>2 DEF Obtain, Attach, AttachFails, CreateFails, Open, LoadFails,
             ReadEnd, Generate, Crash, OpenTmp, WriteRow, WriteFails, WriteEnd, Rename, Loading,
             FileWhole, Undisturbed
        <5>3. CASE pc[p] = "shmread"
          <6>1. fp[p] = file /\ file \in Inodes
            BY <1>0, <5>3 DEF TurnInv, ReaderHasFile, Reading, FileWhole
          <6>2. row[p] = NRows
            <7>1. ReadEnd(p)
              BY <1>0, <2>3, <3>3, <5>3 DEF Obtain, Attach, AttachFails, CreateFails, Open, LoadFails,
                 Generate, Crash, OpenTmp, WriteRow, WriteFails, WriteEnd, Rename, Undisturbed
            <7>2. QED
              BY <1>0, <6>1, <7>1, WholeLength DEF ReadEnd, FileWhole
          <6>3. QED
            BY <1>0, <5>3, <6>2 DEF LoadedSoFar, AllRows
        <5>4. QED
          BY <5>1, <5>2, <5>3 DEF Loading
      <4>4. attached'[p] => ~Loading(p)'
        BY <2>3, <3>3, <4>2 , <1>0 DEF AttachedReady
      <4>5. NoSegmentYet' /\ LoadedSoFar'
        <5>1. 1..0 = {}
          OBVIOUS
        <5>2. QED
          BY <3>0, <4>0, <4>1, <4>2, <5>1 DEF NoSegmentYet, LoadedSoFar, Loading
      <4>6. Loaded'
        BY <1>0, <3>0, <4>0, <4>3 DEF Loaded, Loading
      <4>7. NobodyWhileLoading'
        BY <1>0, <3>0, <4>2, <4>4 DEF NobodyWhileLoading, Loading
      <4>8. QED
        BY <4>5, <4>6, <4>7
    <3>4. QED
      BY <3>1, <3>2, <3>3
  <2>4. QED
    BY <1>2, <2>2, <2>3 DEF Step
<1>3. ASSUME UNCHANGED vars
      PROVE  (NoSegmentYet /\ Loaded /\ LoadedSoFar /\ NobodyWhileLoading)'
  BY <1>0, <1>3 DEF vars, segment, own, NoSegmentYet, Loaded, LoadedSoFar, NobodyWhileLoading, Loading
<1>4. (NoSegmentYet /\ Loaded /\ LoadedSoFar /\ NobodyWhileLoading)'
  BY <1>2, <1>3, StepOrStutter
<1>5. QED
  BY <1>1, <1>4 DEF SharedInv

LEMMA SegmentInvariant == Spec => []SegmentInv
<1>1. Init => SegmentInv
  BY InitSegmentInv
<1>2. TypeInv /\ TurnInv /\ PrivateInv /\ SegmentInv /\ [Next]_vars => SegmentInv'
  <2> SUFFICES ASSUME TypeInv, TurnInv, PrivateInv, SegmentInv, [Next]_vars PROVE SegmentInv'
    OBVIOUS
  <2>1. situation' = situation
    BY StepOfOne DEF Next, Step, vars
  <2>2. QED
    BY <2>1, NextShared DEF SegmentInv, InTurn, Undisturbed
<1>3. QED
  BY <1>1, <1>2, TypeInvariant, TurnInvariant, PrivateInvariant, PTL DEF Spec

-----------------------------------------------------------------------------
(***************************************************************************)
(* The shared segment, when invocations overlap undisturbed, one process   *)
(* has --shm and the table file was complete at first.  Then nobody ever   *)
(* generates a table, since only the creation of a segment could fail and  *)
(* only the one process creates it; so the file stays as it is, and the    *)
(* segment, once created, is being loaded or complete.                     *)
(***************************************************************************)
NobodyGenerates ==
  \A p \in Procs : pc[p] \notin {"generate", "opentmp", "write", "rename"}
SharersOnly ==
  \A p \in Procs :
    pc[p] \in {"reattach", "create", "shmopen", "shmread"} => p \in situation.shm
ReadersWhole ==
  \A p \in Procs : Reading(p) => fp[p] = file
PrivateSoFar ==
  \A p \in Procs : pc[p] = "read" => 1..row[p] \subseteq mem[p]

SharerInv ==
  /\ FileWhole /\ NobodyGenerates /\ SharersOnly /\ NoSegmentYet /\ ReadersWhole
  /\ LoadedSoFar /\ PrivateSoFar /\ Loaded /\ PrivateComplete

OverlapInv == OneSharer /\ Undisturbed /\ situation.saved = AllRows => SharerInv

LEMMA InitOverlapInv == Init => OverlapInv
<1> SUFFICES ASSUME Init, situation.saved = AllRows PROVE SharerInv
  BY DEF OverlapInv
<1>1. AllRows # {}
  BY StoreAssumption DEF AllRows
<1>2. FileWhole
  BY <1>1, StoreAssumption DEF Init, FileWhole, NoFile
<1>3. QED
  BY <1>2 DEF Init, SharerInv, NobodyGenerates, SharersOnly, NoSegmentYet, ReadersWhole, Reading,
              LoadedSoFar, PrivateSoFar, Loaded, PrivateComplete

(* A process that reads on in a complete file has one more row to read,    *)
(* and one that is at the end has read them all.                           *)
LEMMA ReadsWhole ==
  ASSUME TypeInv, FileWhole, ReadersWhole, NEW p \in Procs, Reading(p)
  PROVE  /\ fp[p] \in Inodes /\ data[fp[p]] = AllRows /\ Length(fp[p]) = NRows
         /\ row[p] < NRows => row[p] + 1 \in AllRows
         /\ 1..(row[p] + 1) = (1..row[p]) \union {row[p] + 1}
<1>1. fp[p] \in Inodes /\ data[fp[p]] = AllRows
  BY DEF TypeInv, TypeOK, FileWhole, ReadersWhole
<1>2. row[p] \in 0..NRows /\ NRows \in Nat
  BY StoreAssumption DEF TypeInv, TypeOK
<1>3. QED
  BY <1>1, <1>2, WholeLength DEF AllRows

(* Every step keeps the invariant.                                         *)
LEMMA NextSharer ==
  ASSUME TypeInv, PrivateInv, SharerInv, OneSharer, Undisturbed, NEW p \in Procs, Step(p)
  PROVE  SharerInv'
<1> USE DEF TypeInv, TypeOK, Goto, Reading, Loading
<1>0. /\ FileWhole /\ NobodyGenerates /\ SharersOnly /\ NoSegmentYet /\ ReadersWhole
      /\ LoadedSoFar /\ PrivateSoFar /\ Loaded /\ PrivateComplete
      /\ AttachedReady /\ NothingYet
  BY DEF SharerInv, PrivateInv
<1>1. /\ situation' = situation
      /\ \A q \in Procs \ {p} : UNCHANGED <<pc[q], fp[q], row[q], mem[q], attached[q]>>
  BY StepOfOne
<1>2. \/ Start(p) \/ Attach(p) \/ AttachFails(p) \/ Create(p) \/ Open(p)
      \/ ReadRow(p) \/ ReadEnd(p) \/ Finish(p)
  BY <1>0 DEF Step, Obtain, CreateFails, LoadFails, Generate, Crash, OpenTmp, WriteRow, WriteFails,
     WriteEnd, Rename, Killed, NobodyGenerates, NoSegmentYet, Undisturbed
<1>3. UNCHANGED <<file, data>>
  BY <1>2 DEF Start, Attach, AttachFails, Create, Open, ReadRow, ReadEnd, Finish, Leave, disk
<1>4. FileWhole'
  BY <1>0, <1>3 DEF FileWhole
<1>5. CASE Start(p) \/ Attach(p) \/ AttachFails(p) \/ Finish(p)
  <2>1. UNCHANGED <<shm, seg>>
    BY <1>5 DEF Start, Attach, AttachFails, Finish, Leave, segment
  <2>2. /\ pc[p] \in {"out", "attach", "reattach", "ready"}
        /\ pc'[p] \in {"out", "attach", "reattach", "create", "open", "ready"}
        /\ pc'[p] \in {"reattach", "create"} => p \in situation.shm /\ ~shm
        /\ pc'[p] = "ready" => attached'[p]
    BY <1>0, <1>5 DEF Start, Attach, AttachFails, Finish, Leave, Undisturbed, SharersOnly
  <2>3. NobodyGenerates' /\ SharersOnly' /\ NoSegmentYet'
    BY <1>0, <1>1, <2>1, <2>2 DEF NobodyGenerates, SharersOnly, NoSegmentYet
  <2>4. ReadersWhole' /\ LoadedSoFar' /\ PrivateSoFar'
    BY <1>0, <1>1, <1>3, <2>1, <2>2 DEF ReadersWhole, LoadedSoFar, PrivateSoFar
  <2>5. Loaded'
    BY <1>0, <1>1, <2>1, <2>2 DEF Loaded
  <2>6. PrivateComplete'
    BY <1>0, <1>1, <2>2 DEF PrivateComplete
  <2>7. QED
    BY <1>4, <2>3, <2>4, <2>5, <2>6 DEF SharerInv
<1>6. CASE Create(p)
  <2>1. /\ pc[p] = "create" /\ pc'[p] = "shmopen" /\ shm' /\ UNCHANGED own
    BY <1>6 DEF Create, Undisturbed
  <2>2. p \in situation.shm
    BY <1>0, <2>1 DEF SharersOnly
  <2>3. \A q \in Procs \ {p} : pc[q] \notin {"reattach", "create", "shmopen", "shmread"}
    BY <1>0, <2>2 DEF SharersOnly, OneSharer
  <2>4. NobodyGenerates' /\ SharersOnly' /\ NoSegmentYet'
    BY <1>0, <1>1, <2>1, <2>2, <2>3 DEF NobodyGenerates, SharersOnly, NoSegmentYet
  <2>5. ReadersWhole' /\ LoadedSoFar' /\ PrivateSoFar'
    BY <1>0, <1>1, <1>3, <2>1, <2>3 DEF ReadersWhole, LoadedSoFar, PrivateSoFar, own
  <2>6. Loaded'
    BY <2>1 DEF Loaded
  <2>7. PrivateComplete'
    BY <1>0, <1>1, <2>1 DEF PrivateComplete, own
  <2>8. QED
    BY <1>4, <2>4, <2>5, <2>6, <2>7 DEF SharerInv
<1>7. CASE Open(p)
  <2>1. UNCHANGED <<shm, seg, mem, attached>>
    BY <1>7 DEF Open, segment
  <2>2. /\ \/ pc[p] = "shmopen" /\ pc'[p] = "shmread"
           \/ pc[p] = "open" /\ pc'[p] = "read"
        /\ fp'[p] = file /\ row'[p] = 0
    BY <1>0, <1>7 DEF Open, FileWhole
  <2>3. NobodyGenerates' /\ SharersOnly' /\ NoSegmentYet'
    BY <1>0, <1>1, <2>1, <2>2 DEF NobodyGenerates, SharersOnly, NoSegmentYet
  <2>4. 1..0 = {}
    OBVIOUS
  <2>5. ReadersWhole' /\ LoadedSoFar' /\ PrivateSoFar'
    BY <1>0, <1>1, <1>3, <2>1, <2>2, <2>4 DEF ReadersWhole, LoadedSoFar, PrivateSoFar
  <2>6. Loaded'
    BY <1>0, <1>1, <2>1, <2>2 DEF Loaded
  <2>7. PrivateComplete'
    BY <1>0, <1>1, <2>1, <2>2 DEF PrivateComplete
  <2>8. QED
    BY <1>4, <2>3, <2>5, <2>6, <2>7 DEF SharerInv
<1>8. CASE ReadRow(p)
  <2>1. UNCHANGED <<shm, pc, fp, attached>> /\ Reading(p)
    BY <1>8 DEF ReadRow
  <2>2. row[p] < NRows /\ row'[p] = row[p] + 1
    BY <1>0, <1>8, <2>1, ReadsWhole DEF ReadRow
  <2>3. /\ seg' = IF pc[p] = "shmread" THEN seg \union {row[p] + 1} ELSE seg
        /\ mem'[p] = IF pc[p] = "read" THEN mem[p] \union {row[p] + 1} ELSE mem[p]
    <3>1. {row'[p]} \intersect data[fp[p]] = {row[p] + 1}
      BY <1>0, <2>1, <2>2, ReadsWhole
    <3>2. QED
      BY <1>8, <2>1, <2>2, <3>1 DEF ReadRow
  <2>4. NobodyGenerates' /\ SharersOnly' /\ NoSegmentYet' /\ ReadersWhole'
    BY <1>0, <1>1, <1>3, <2>1 DEF NobodyGenerates, SharersOnly, NoSegmentYet, ReadersWhole
  <2>5. 1..(row[p] + 1) = (1..row[p]) \union {row[p] + 1}
    BY <1>0, <2>1, ReadsWhole
  <2>6. LoadedSoFar' /\ PrivateSoFar'
    BY <1>0, <1>1, <2>1, <2>2, <2>3, <2>5 DEF LoadedSoFar, PrivateSoFar
  <2>7. Loaded'
    BY <1>0, <2>1, <2>2, <2>3, ReadsWhole DEF Loaded
  <2>8. PrivateComplete'
    BY <1>0, <1>1, <2>1 DEF PrivateComplete
  <2>9. QED
    BY <1>4, <2>4, <2>6, <2>7, <2>8 DEF SharerInv
<1>9. CASE ReadEnd(p)
  <2>1. UNCHANGED <<shm, seg, row, mem>> /\ Reading(p)
    BY <1>9 DEF ReadEnd, segment
  <2>2. row[p] = NRows
    BY <1>0, <1>9, <2>1, ReadsWhole DEF ReadEnd
  <2>3. /\ pc'[p] = "ready"
        /\ \/ pc[p] = "read" /\ ~attached'[p]
           \/ pc[p] = "shmread" /\ attached'[p]
    BY <1>9, <2>1, <2>2 DEF ReadEnd
  <2>4. NobodyGenerates' /\ SharersOnly' /\ NoSegmentYet'
    BY <1>0, <1>1, <2>1, <2>3 DEF NobodyGenerates, SharersOnly, NoSegmentYet
  <2>5. ReadersWhole' /\ LoadedSoFar' /\ PrivateSoFar'
    BY <1>0, <1>1, <1>3, <2>1, <2>3 DEF ReadersWhole, LoadedSoFar, PrivateSoFar
  <2>6. Loaded'
    <3>1. pc[p] = "shmread" => seg = AllRows
      BY <1>0, <2>2 DEF LoadedSoFar, AllRows
    <3>2. QED
      BY <1>0, <1>1, <2>1, <2>3, <3>1 DEF Loaded
  <2>7. PrivateComplete'
    <3>1. pc[p] = "read" => mem[p] = AllRows
      BY <1>0, <2>2 DEF PrivateSoFar, AllRows
    <3>2. QED
      BY <1>0, <1>1, <2>1, <2>3, <3>1 DEF PrivateComplete
  <2>8. QED
    BY <1>4, <2>4, <2>5, <2>6, <2>7 DEF SharerInv
<1>10. QED
  BY <1>2, <1>5, <1>6, <1>7, <1>8, <1>9

LEMMA OverlapInvariant == Spec => []OverlapInv
<1>1. Init => OverlapInv
  BY InitOverlapInv
<1>2. TypeInv /\ PrivateInv /\ OverlapInv /\ [Next]_vars => OverlapInv'
  <2> SUFFICES ASSUME TypeInv, PrivateInv, OverlapInv, [Next]_vars PROVE OverlapInv'
    OBVIOUS
  <2>1. CASE UNCHANGED vars
    BY <2>1 DEF vars, disk, segment, own, OverlapInv, OneSharer, Undisturbed, SharerInv, FileWhole,
       NobodyGenerates, SharersOnly, NoSegmentYet, ReadersWhole, Reading, LoadedSoFar, PrivateSoFar,
       Loaded, Loading, PrivateComplete
  <2>2. ASSUME NEW p \in Procs, Step(p) PROVE OverlapInv'
    <3>1. situation' = situation
      BY <2>2, StepOfOne
    <3>2. QED
      BY <2>2, <3>1, NextSharer DEF OverlapInv, OneSharer, Undisturbed
  <2>3. QED
    BY <2>1, <2>2, StepOrStutter
<1>3. QED
  BY <1>1, <1>2, TypeInvariant, PrivateInvariant, PTL DEF Spec

(* When invocations take turns nobody searches with a private table that   *)
(* lacks rows, whatever happened to earlier ones; and when they are        *)
(* undisturbed and the file was complete, nobody with such a segment.  If  *)
(* they overlap and one has --shm, only those do that run while it loads.  *)
THEOREM NobodySearchesWithHoles == Spec => []TablesComplete
<1>1. PrivateInv /\ SegmentInv /\ OverlapInv => TablesComplete
  <2> SUFFICES ASSUME PrivateInv, SegmentInv, OverlapInv PROVE TablesComplete
    OBVIOUS
  <2>1. InTurn /\ Unholed(situation.saved) => PrivateComplete
    BY DEF PrivateInv
  <2>2. ASSUME InTurn, Undisturbed, situation.saved = AllRows,
               NEW p \in Procs, pc[p] = "ready", attached[p]
        PROVE  seg = AllRows
    BY <2>2 DEF SegmentInv, SharedInv, Loaded, NobodyWhileLoading, PrivateInv, AttachedReady
  <2>3. OneSharer /\ Undisturbed /\ situation.saved = AllRows => PrivateComplete
    BY DEF OverlapInv, SharerInv
  <2>4. ASSUME OneSharer, Undisturbed, situation.saved = AllRows, \A p \in Procs : ~Loading(p),
               NEW p \in Procs, pc[p] = "ready", attached[p]
        PROVE  seg = AllRows
    BY <2>4 DEF OverlapInv, SharerInv, Loaded, PrivateInv, AttachedReady
  <2>5. QED
    BY <2>1, <2>2, <2>3, <2>4 DEF TablesComplete, SegmentComplete
<1>2. QED
  BY <1>1, PrivateInvariant, SegmentInvariant, OverlapInvariant, PTL

-----------------------------------------------------------------------------
(***************************************************************************)
(* Invocations that overlap, undisturbed.  Of each of the two files every  *)
(* row is there or still to be written by a process that has the file      *)
(* open, which may be another one than created or named it.                *)
(***************************************************************************)
Covered(i) ==
  \A k \in AllRows : k \in data[i] \/ \E p \in Procs : pc[p] = "write" /\ fp[p] = i /\ row[p] < k

CoverInv ==
  Undisturbed /\ situation.saved \in {{}, AllRows} =>
    \A i \in {tmp, file} \ {NoFile} : Covered(i)

LEMMA InitCoverInv == Init => CoverInv
<1> SUFFICES ASSUME Init, situation.saved \in {{}, AllRows}, NEW i \in {tmp, file} \ {NoFile}
             PROVE  Covered(i)
  BY DEF CoverInv
<1>1. i = 1 /\ situation.saved = AllRows
  BY DEF Init
<1>2. data[i] = AllRows
  BY <1>1, StoreAssumption DEF Init
<1>3. QED
  BY <1>2 DEF Covered

(* A step that neither truncates nor writes and closes no file under way   *)
(* keeps what is covered.                                                  *)
LEMMA CoveredStays ==
  ASSUME TypeInv, NEW p \in Procs, Step(p), UNCHANGED data,
         pc[p] = "write" => row[p] = NRows,
         NEW i \in Inodes, Covered(i)
  PROVE  Covered(i)'
<1> SUFFICES ASSUME NEW k \in AllRows, k \notin data[i]
             PROVE  \E q \in Procs : pc'[q] = "write" /\ fp'[q] = i /\ row'[q] < k
  BY DEF Covered
<1>1. PICK q \in Procs : pc[q] = "write" /\ fp[q] = i /\ row[q] < k
  BY DEF Covered
<1>2. ~(NRows < k)
  BY StoreAssumption DEF AllRows
<1>3. q # p
  BY <1>1, <1>2
<1>4. QED
  BY <1>1, <1>3, StepOfOne

(* Every step keeps the files covered.                                     *)
LEMMA NextCovered ==
  ASSUME TypeInv, Undisturbed, \A i \in {tmp, file} \ {NoFile} : Covered(i), NEW p \in Procs, Step(p)
  PROVE  \A i \in {tmp', file'} \ {NoFile} : Covered(i)'
<1> USE DEF TypeInv, TypeOK
<1>0. \A q \in Procs \ {p} : UNCHANGED <<pc[q], fp[q], row[q]>>
  BY StepOfOne
<1>1. CASE OpenTmp(p)
  <2>1. /\ tmp' \in Inodes /\ tmp' # NoFile /\ tmp' # file
        /\ data' = [data EXCEPT ![tmp'] = {}] /\ file' = file
        /\ pc[p] = "opentmp" /\ pc'[p] = "write" /\ fp'[p] = tmp' /\ row'[p] = 0
    BY <1>1, FreeInodeProperty, StoreAssumption DEF OpenTmp, Goto, NamesApart
  <2>2. ASSUME NEW k \in AllRows
        PROVE  \E q \in Procs : pc'[q] = "write" /\ fp'[q] = tmp' /\ row'[q] < k
    <3>1. 0 < k
      BY StoreAssumption DEF AllRows
    <3>2. QED
      BY <2>1, <3>1
  <2>3. ASSUME file # NoFile, NEW k \in AllRows
        PROVE  k \in data'[file] \/ \E q \in Procs : pc'[q] = "write" /\ fp'[q] = file /\ row'[q] < k
    <3>1. CASE k \in data[file]
      BY <2>1, <2>3, <3>1
    <3>2. CASE k \notin data[file]
      <4>1. PICK q \in Procs : pc[q] = "write" /\ fp[q] = file /\ row[q] < k
        BY <2>3, <3>2 DEF Covered
      <4>2. QED
        BY <1>0, <2>1, <4>1
    <3>3. QED
      BY <3>1, <3>2
  <2>4. QED
    BY <2>1, <2>2, <2>3 DEF Covered
<1>2. CASE WriteRow(p)
  <2>1. /\ pc[p] = "write" /\ row[p] < NRows /\ fp[p] \in Inodes
        /\ row'[p] = row[p] + 1 /\ data' = [data EXCEPT ![fp[p]] = @ \union {row[p] + 1}]
        /\ UNCHANGED <<tmp, file, pc, fp>>
    BY <1>2 DEF WriteRow, OpenFiles
  <2>2. ASSUME NEW i \in {tmp, file} \ {NoFile}, NEW k \in AllRows
        PROVE  k \in data'[i] \/ \E q \in Procs : pc'[q] = "write" /\ fp'[q] = i /\ row'[q] < k
    <3>1. CASE k \in data[i]
      BY <2>1, <3>1
    <3>2. CASE k \notin data[i]
      <4>1. PICK q \in Procs : pc[q] = "write" /\ fp[q] = i /\ row[q] < k
        BY <2>2, <3>2 DEF Covered
      <4>2. CASE q # p
        BY <1>0, <4>1, <4>2
      <4>3. CASE q = p /\ k = row[p] + 1
        BY <2>1, <4>1, <4>3
      <4>4. CASE q = p /\ k # row[p] + 1
        <5>1. row[p] + 1 < k
          BY <4>1, <4>4, StoreAssumption DEF AllRows
        <5>2. QED
          BY <2>1, <4>1, <4>4, <5>1
      <4>5. QED
        BY <4>2, <4>3, <4>4
    <3>3. QED
      BY <3>1, <3>2
  <2>3. QED
    BY <2>1, <2>2 DEF Covered
<1>3. CASE ~OpenTmp(p) /\ ~WriteRow(p)
  <2>1. UNCHANGED data
    BY <1>3 DEF Step, Start, Obtain, Attach, AttachFails, Create, CreateFails, Open, LoadFails,
       ReadRow, ReadEnd, Generate, Crash, WriteFails, WriteEnd, Rename, Finish, Killed, Leave, disk
  <2>2. pc[p] = "write" => row[p] = NRows
    BY <1>3 DEF Undisturbed, Step, Start, Obtain, Attach, AttachFails, Create, CreateFails, Open,
       LoadFails, ReadRow, ReadEnd, Generate, Crash, WriteFails, WriteEnd, Rename, Finish, Killed
  <2>3. {tmp', file'} \subseteq {tmp, file, NoFile}
    BY <1>3 DEF Step, Start, Obtain, Attach, AttachFails, Create, CreateFails, Open, LoadFails,
       ReadRow, ReadEnd, Generate, Crash, WriteFails, WriteEnd, Rename, Finish, Killed, Leave, disk
  <2>4. ASSUME NEW i \in {tmp', file'} \ {NoFile} PROVE Covered(i)'
    <3>1. i \in {tmp, file} \ {NoFile} /\ i \in Inodes
      BY <2>3
    <3>2. Covered(i)
      BY <3>1
    <3>3. QED
      BY <2>1, <2>2, <3>1, <3>2, CoveredStays
  <2>5. QED
    BY <2>4
<1>4. QED
  BY <1>1, <1>2, <1>3

LEMMA CoverInvariant == Spec => []CoverInv
<1>1. Init => CoverInv
  BY InitCoverInv
<1>2. TypeInv /\ CoverInv /\ [Next]_vars => CoverInv'
  <2> SUFFICES ASSUME TypeInv, CoverInv, [Next]_vars PROVE CoverInv'
    OBVIOUS
  <2>1. ASSUME NEW p \in Procs, Step(p) PROVE CoverInv'
    <3>1. situation' = situation
      BY <2>1, StepOfOne
    <3>2. QED
      BY <2>1, <3>1, NextCovered DEF CoverInv, Undisturbed
  <2>2. ASSUME UNCHANGED vars PROVE CoverInv'
    BY <2>2 DEF CoverInv, Covered, Undisturbed, vars, disk, own
  <2>3. QED
    BY <2>1, <2>2, StepOrStutter
<1>3. QED
  BY <1>1, <1>2, TypeInvariant, PTL DEF Spec

(* However invocations overlapped, when none is under way any more the     *)
(* file they leave is complete, unless one was killed or short of disk.    *)
THEOREM FileWholeAtRest == Spec => []WholeAtRest
<1>1. TypeInv /\ CoverInv => WholeAtRest
  <2> SUFFICES ASSUME TypeInv, CoverInv, Undisturbed, situation.saved \in {{}, AllRows},
                      file # NoFile, \A p \in Procs : ~Preparing(p)
               PROVE  data[file] = AllRows
    BY DEF WholeAtRest
  <2>1. Covered(file)
    BY DEF CoverInv
  <2>2. \A p \in Procs : pc[p] # "write"
    BY DEF Preparing
  <2>3. data[file] \subseteq AllRows
    BY DEF TypeInv, TypeOK
  <2>4. QED
    BY <2>1, <2>2, <2>3 DEF Covered
<1>2. QED
  BY <1>1, TypeInvariant, CoverInvariant, PTL

=============================================================================
