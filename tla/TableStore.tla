----------------------------- MODULE TableStore -----------------------------
(***************************************************************************)
(* How invocations of vc-optimal obtain the pruning table: the first part  *)
(* of solver() (src/src/vc-optimal.cpp), save, load and loadShared of      *)
(* prune_base (src/src/nxprune.cpp) and the shared memory of               *)
(* src/src/alloc.cpp.  All invocations use one --coord, hence one file,    *)
(* one temporary file and one shared memory key.                           *)
(*                                                                         *)
(* A table is the set of its rows that hold data; rows are written and     *)
(* read in order.  A file is as long as its last row; the rows before it   *)
(* that nobody wrote are holes, which read as zeros.  A shared segment has *)
(* its full size from the start and is zero where nothing was loaded.      *)
(***************************************************************************)
EXTENDS Integers

CONSTANTS
  Procs,        (* processes; each is invoked again and again              *)
  NRows,        (* N_CORNER_SYM                                            *)
  Inodes,       (* the files there can be at a time                        *)
  Situations    (* what may happen to them, see StoreAssumption            *)

NoFile == 0

(***************************************************************************)
(* A situation says                                                        *)
(*   shm:     which processes are invoked with --shm,                      *)
(*   overlap: whether a process may start while another gets its table,    *)
(*   kills:   whether processes may be killed,                             *)
(*   faults:  whether memory, shared memory and disk space may be lacking  *)
(*            and files fail to be opened, read, written or renamed,       *)
(*   saved:   the rows of the table file at first, {} if there is none.    *)
(***************************************************************************)
ASSUME StoreAssumption ==
  /\ Procs # {}
  /\ NRows \in Nat \ {0}
  /\ 1 \in Inodes /\ NoFile \notin Inodes
  /\ Situations \subseteq [shm : SUBSET Procs, overlap : BOOLEAN, kills : BOOLEAN,
                           faults : BOOLEAN, saved : SUBSET (1..NRows)]

(* There is always a free inode.                                           *)
ASSUME InodeAssumption ==
  \A a, b \in Inodes \union {NoFile}, f \in [Procs -> Inodes \union {NoFile}] :
    \E i \in Inodes : i \notin {a, b} /\ \A p \in Procs : f[p] # i

AllRows == 1..NRows

VARIABLES
  situation, (* the situation, which stays                                *)
  tmp,      (* the inode named "<table>.tmp", or NoFile                    *)
  file,     (* the inode named "<table>", or NoFile                        *)
  data,     (* data[i]: the rows written to inode i                        *)
  shm,      (* the shared segment exists                                   *)
  seg,      (* the rows loaded into the segment                            *)
  pc,       (* where each process is                                       *)
  fp,       (* fp[p]: the inode p has open                                 *)
  row,      (* row[p]: rows p has read or written so far                   *)
  mem,      (* mem[p]: the rows of the private table of p                  *)
  attached  (* attached[p]: p uses the segment as its table                *)

disk == <<tmp, file, data>>
segment == <<shm, seg>>
own == <<fp, row, mem, attached>>
vars == <<situation, disk, segment, pc, own>>

(* The length of an inode, in rows, and its row k as fread delivers it.    *)
Length(i) == CHOOSE n \in 0..NRows : (n = 0 \/ n \in data[i]) /\ \A k \in data[i] : k <= n

(* The table that p has or is getting.                                     *)
Table(p) == IF attached[p] THEN seg ELSE mem[p]

Preparing(p) == pc[p] \notin {"out", "ready"}

Init ==
  /\ situation \in Situations
  /\ tmp = NoFile
  /\ file = IF situation.saved = {} THEN NoFile ELSE 1
  /\ data = [i \in Inodes |-> IF i = 1 THEN situation.saved ELSE {}]
  /\ shm = FALSE
  /\ seg = {}
  /\ pc = [p \in Procs |-> "out"]
  /\ fp = [p \in Procs |-> NoFile]
  /\ row = [p \in Procs |-> 0]
  /\ mem = [p \in Procs |-> {}]
  /\ attached = [p \in Procs |-> FALSE]

-----------------------------------------------------------------------------
Goto(p, label) == pc' = [pc EXCEPT ![p] = label]

Start(p) ==
  /\ pc[p] = "out"
  /\ situation.overlap \/ \A q \in Procs : ~Preparing(q)
  /\ Goto(p, "attach")
  /\ UNCHANGED <<situation, disk, segment, own>>

(* loadShared(key), and its repetition in loadShared(key, filename): an    *)
(* existing segment is used, whatever it holds.                            *)
Attach(p) ==
  /\ pc[p] \in {"attach", "reattach"}
  /\ shm
  /\ attached' = [attached EXCEPT ![p] = TRUE]
  /\ Goto(p, "ready")
  /\ UNCHANGED <<situation, disk, segment, fp, row, mem>>

AttachFails(p) ==
  /\ pc[p] \in {"attach", "reattach"}
  /\ ~shm \/ situation.faults
  /\ Goto(p, CASE pc[p] = "reattach"                      -> "create"
                [] pc[p] = "attach" /\ p \in situation.shm     -> "reattach"
                [] pc[p] = "attach" /\ p \notin situation.shm  -> "open")
  /\ UNCHANGED <<situation, disk, segment, own>>

(* loadShared(key, filename): the segment is created unless it exists.  It *)
(* may be created and yet not be attached.                                 *)
Create(p) ==
  /\ pc[p] = "create"
  /\ ~shm
  /\ shm' = TRUE
  /\ seg' = {}
  /\ \E label \in IF situation.faults THEN {"shmopen", "generate"} ELSE {"shmopen"} : Goto(p, label)
  /\ UNCHANGED <<situation, disk, own>>

CreateFails(p) ==
  /\ pc[p] = "create"
  /\ shm \/ situation.faults
  /\ Goto(p, "generate")
  /\ UNCHANGED <<situation, disk, segment, own>>

(* fopen of the table file, for the segment or for private memory.         *)
Open(p) ==
  /\ pc[p] \in {"shmopen", "open"}
  /\ IF file = NoFile
     THEN /\ Goto(p, "generate")
          /\ UNCHANGED <<fp, row>>
     ELSE /\ Goto(p, IF pc[p] = "shmopen" THEN "shmread" ELSE "read")
          /\ fp' = [fp EXCEPT ![p] = file]
          /\ row' = [row EXCEPT ![p] = 0]
  /\ UNCHANGED <<situation, disk, segment, mem, attached>>

(* load, loadShared: fopen fails, alloc::huge finds no memory, or fread or *)
(* fclose reports an error.  What was read stays where it is, unused.      *)
LoadFails(p) ==
  /\ situation.faults
  /\ pc[p] \in {"shmopen", "open", "shmread", "read"}
  /\ fp' = [fp EXCEPT ![p] = NoFile]
  /\ Goto(p, "generate")
  /\ UNCHANGED <<situation, disk, segment, row, mem, attached>>

(* fread: one row; zeros for a hole.                                       *)
ReadRow(p) ==
  /\ pc[p] \in {"shmread", "read"}
  /\ row[p] < Length(fp[p])
  /\ row' = [row EXCEPT ![p] = @ + 1]
  /\ LET got == {row'[p]} \intersect data[fp[p]]
     IN  IF pc[p] = "shmread"
         THEN seg' = (seg \ {row'[p]}) \union got /\ UNCHANGED mem
         ELSE mem' = [mem EXCEPT ![p] = @ \union got] /\ UNCHANGED seg
  /\ UNCHANGED <<situation, disk, shm, pc, fp, attached>>

(* Defect: the number of rows is not checked.                              *)
MutReadEnd(p) ==
  /\ pc[p] \in {"shmread", "read"}
  /\ row[p] = Length(fp[p])
  /\ fp' = [fp EXCEPT ![p] = NoFile]
  /\ Goto(p, "ready")
  /\ attached' = [attached EXCEPT ![p] = pc[p] = "shmread"]
  /\ UNCHANGED <<situation, disk, segment, row, mem>>

(* The end of the file, and fclose: the table is used if n rows were read, *)
(* otherwise it is generated.                                              *)
ReadEnd(p) ==
  /\ pc[p] \in {"shmread", "read"}
  /\ row[p] = Length(fp[p])
  /\ fp' = [fp EXCEPT ![p] = NoFile]
  /\ IF row[p] = NRows
     THEN /\ Goto(p, "ready")
          /\ attached' = [attached EXCEPT ![p] = pc[p] = "shmread"]
     ELSE /\ Goto(p, "generate")
          /\ UNCHANGED attached
  /\ UNCHANGED <<situation, disk, segment, row, mem>>

(* prune_generator::generate, into memory of its own.                      *)
Generate(p) ==
  /\ pc[p] = "generate"
  /\ mem' = [mem EXCEPT ![p] = AllRows]
  /\ Goto(p, "opentmp")
  /\ UNCHANGED <<situation, disk, segment, fp, row, attached>>

-----------------------------------------------------------------------------
(* An inode that has no name and that nobody has open.                     *)
FreeInode == CHOOSE i \in Inodes : i \notin {tmp, file} /\ \A p \in Procs : fp[p] # i

(* Defect: the table is written under its own name.                        *)
MutOpenTmp(p) ==
  /\ pc[p] = "opentmp"
  /\ file' = IF file = NoFile THEN FreeInode ELSE file
  /\ fp' = [fp EXCEPT ![p] = file']
  /\ data' = [data EXCEPT ![file'] = {}]
  /\ row' = [row EXCEPT ![p] = 0]
  /\ Goto(p, "write")
  /\ UNCHANGED <<situation, tmp, segment, mem, attached>>

(* save: fopen(tmpname, "w") truncates the temporary file, or creates it.  *)
OpenTmp(p) ==
  /\ pc[p] = "opentmp"
  /\ tmp' = IF tmp = NoFile THEN FreeInode ELSE tmp
  /\ fp' = [fp EXCEPT ![p] = tmp']
  /\ data' = [data EXCEPT ![tmp'] = {}]
  /\ row' = [row EXCEPT ![p] = 0]
  /\ Goto(p, "write")
  /\ UNCHANGED <<situation, file, segment, mem, attached>>

(* Defect: one row too many is written.                                    *)
MutWriteRow(p) ==
  /\ pc[p] = "write"
  /\ row[p] <= NRows
  /\ row' = [row EXCEPT ![p] = @ + 1]
  /\ data' = [data EXCEPT ![fp[p]] = @ \union {row'[p]}]
  /\ UNCHANGED <<situation, tmp, file, segment, pc, fp, mem, attached>>

(* save: fwrite of one row, at the writer's own position.                  *)
WriteRow(p) ==
  /\ pc[p] = "write"
  /\ row[p] < NRows
  /\ row' = [row EXCEPT ![p] = @ + 1]
  /\ data' = [data EXCEPT ![fp[p]] = @ \union {row'[p]}]
  /\ UNCHANGED <<situation, tmp, file, segment, pc, fp, mem, attached>>

(* Defect: the number of rows written is not checked.                      *)
MutWriteFails(p) ==
  /\ pc[p] \in {"opentmp", "write"}
  /\ situation.faults
  /\ fp' = [fp EXCEPT ![p] = NoFile]
  /\ Goto(p, IF pc[p] = "write" THEN "rename" ELSE "ready")
  /\ UNCHANGED <<situation, disk, segment, row, mem, attached>>

(* Defect: a failed save is tried again.                                   *)
MutRetryWrite(p) ==
  /\ pc[p] \in {"opentmp", "write"}
  /\ situation.faults
  /\ fp' = [fp EXCEPT ![p] = NoFile]
  /\ Goto(p, "opentmp")
  /\ UNCHANGED <<situation, disk, segment, row, mem, attached>>

(* save: fopen, fwrite or fclose fails; the result of save is ignored.     *)
WriteFails(p) ==
  /\ pc[p] \in {"opentmp", "write"}
  /\ situation.faults
  /\ fp' = [fp EXCEPT ![p] = NoFile]
  /\ Goto(p, "ready")
  /\ UNCHANGED <<situation, disk, segment, row, mem, attached>>

(* Defect: the last row is left out.                                       *)
MutWriteEnd(p) ==
  /\ pc[p] = "write"
  /\ row[p] = NRows - 1
  /\ fp' = [fp EXCEPT ![p] = NoFile]
  /\ Goto(p, "rename")
  /\ UNCHANGED <<situation, disk, segment, row, mem, attached>>

(* save: all rows are written and the temporary file is closed.            *)
WriteEnd(p) ==
  /\ pc[p] = "write"
  /\ row[p] = NRows
  /\ fp' = [fp EXCEPT ![p] = NoFile]
  /\ Goto(p, "rename")
  /\ UNCHANGED <<situation, disk, segment, row, mem, attached>>

(* save: rename, which fails if the temporary file has been renamed; the   *)
(* result of save is ignored.                                              *)
Rename(p) ==
  /\ pc[p] = "rename"
  /\ \/ tmp # NoFile /\ file' = tmp /\ tmp' = NoFile
     \/ (tmp = NoFile \/ situation.faults) /\ UNCHANGED <<tmp, file>>
  /\ Goto(p, "ready")
  /\ UNCHANGED <<situation, data, segment, own>>

-----------------------------------------------------------------------------
(* The process ends, or is killed: memory and open files go, the names,    *)
(* the files and the segment stay.                                         *)
Leave(p) ==
  /\ Goto(p, "out")
  /\ fp' = [fp EXCEPT ![p] = NoFile]
  /\ row' = [row EXCEPT ![p] = 0]
  /\ mem' = [mem EXCEPT ![p] = {}]
  /\ attached' = [attached EXCEPT ![p] = FALSE]
  /\ UNCHANGED <<situation, disk, segment>>

Finish(p) == pc[p] = "ready" /\ Leave(p)

Killed(p) == situation.kills /\ pc[p] # "out" /\ Leave(p)

(* generate: alloc::huge finds no memory, and its result is not checked.   *)
Crash(p) == situation.faults /\ pc[p] = "generate" /\ Leave(p)

Obtain(p) ==
  \/ Attach(p)   \/ AttachFails(p) \/ Create(p)   \/ CreateFails(p) \/ Open(p)
  \/ LoadFails(p) \/ ReadRow(p)    \/ ReadEnd(p)  \/ Generate(p)    \/ Crash(p)
  \/ OpenTmp(p)  \/ WriteRow(p)    \/ WriteFails(p) \/ WriteEnd(p)  \/ Rename(p)

Next == \E p \in Procs : Start(p) \/ Obtain(p) \/ Finish(p) \/ Killed(p)

Spec == Init /\ [][Next]_vars

(* A process that runs gets on; nobody need invoke or kill one.            *)
FairSpec == Spec /\ \A p \in Procs : WF_vars(Obtain(p))

-----------------------------------------------------------------------------
TypeOK ==
  /\ situation \in Situations
  /\ tmp \in Inodes \union {NoFile}
  /\ file \in Inodes \union {NoFile}
  /\ data \in [Inodes -> SUBSET AllRows]
  /\ shm \in BOOLEAN
  /\ seg \subseteq AllRows
  /\ pc \in [Procs -> {"out", "attach", "reattach", "create", "shmopen", "shmread",
                        "open", "read", "generate", "opentmp", "write", "rename", "ready"}]
  /\ fp \in [Procs -> Inodes \union {NoFile}]
  /\ row \in [Procs -> 0..NRows]
  /\ mem \in [Procs -> SUBSET AllRows]
  /\ attached \in [Procs -> BOOLEAN]

(* Invocations do not overlap; nobody is killed or short of resources.     *)
InTurn == ~situation.overlap
Undisturbed == ~situation.kills /\ ~situation.faults

(* At most one process is invoked with --shm, for the initial load.        *)
OneSharer == \A p, q \in situation.shm : p = q

(* p has created the segment and has not yet read the whole file into it.  *)
Loading(p) == pc[p] \in {"shmopen", "shmread"}

(* Nobody searches with a private table of which rows are missing.         *)
PrivateComplete ==
  \A p \in Procs : pc[p] = "ready" /\ ~attached[p] => mem[p] = AllRows

(* Nobody searches with a shared segment of which rows are missing.        *)
SegmentComplete ==
  \A p \in Procs : pc[p] = "ready" /\ attached[p] => seg = AllRows

(* A file may be short, but what it holds it holds from its first row on.  *)
(* Only writers that overlap, and of which one is killed, leave another.   *)
Unholed(rows) == \A k \in rows : 1..k \subseteq rows

(* When invocations do not overlap, a private table is complete whatever   *)
(* happened to earlier ones: a short file is not used but replaced, and    *)
(* what is generated is whole.  A segment is complete for all who attach   *)
(* it when it was loaded from a whole file by one that was not disturbed.  *)
(* When undisturbed invocations overlap and one process has --shm, a       *)
(* segment that lacks rows is used by those at most that run while it is   *)
(* loaded, and what others load for themselves is complete.                *)
TablesComplete ==
  /\ InTurn /\ Unholed(situation.saved) => PrivateComplete
  /\ InTurn /\ Undisturbed /\ situation.saved = AllRows => SegmentComplete
  /\ OneSharer /\ Undisturbed /\ situation.saved = AllRows
       => /\ PrivateComplete
          /\ (\A p \in Procs : ~Loading(p)) => SegmentComplete

(* Invocations that overlap share the temporary file and may see each      *)
(* other's holes; but when none is under way (and none was killed or out   *)
(* of disk space), the last writer of the file has filled them.  A file    *)
(* that was there at first is taken to be whole.                           *)
WholeAtRest ==
  /\ Undisturbed /\ situation.saved \in {{}, AllRows}
  /\ file # NoFile /\ \A p \in Procs : ~Preparing(p)
  => data[file] = AllRows

(* The name of the table is only ever given to a complete file, unless     *)
(* invocations overlap: killed invocations and full disks leave their rows *)
(* under the temporary name.                                               *)
NamedWhole ==
  [][InTurn /\ file' # file => file' # NoFile /\ data'[file'] = AllRows]_vars

(* A table once saved is not lost: it is neither truncated nor replaced by *)
(* a worse one when a later invocation fails to load it and saves its own. *)
SavedForGood ==
  [][InTurn /\ file # NoFile /\ data[file] = AllRows
       => file' # NoFile /\ data'[file'] = AllRows]_vars

(* An invocation that is neither killed nor out of memory gets to search,  *)
(* or ends, and does not wait for another one.                             *)
TableObtained == \A p \in Procs : Preparing(p) ~> ~Preparing(p)

=============================================================================
