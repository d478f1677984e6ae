\* Three processes, one of them with --shm, killed at any step and short of
\* memory or disk space; and undisturbed ones that share a segment, in
\* turn or overlapping, or generate the table at the same time.
SPECIFICATION FairSpec
CONSTANTS
  p1 = p1
  p2 = p2
  p3 = p3
  Procs <- ThreeProcs
  NRows = 2
  Inodes <- MCInodes
  Situations <- Mixed
INVARIANTS
  TypeOK
  TablesComplete
  WholeAtRest
PROPERTIES
  NamedWhole
  SavedForGood
  TableObtained
