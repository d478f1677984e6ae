SPECIFICATION Spec
CONSTANTS
  p1 = p1
  p2 = p2
  p3 = p3
  Procs <- TwoProcs
  NRows = 2
  Inodes <- MCInodes
  Situations <- Simultaneous
INVARIANTS
  PrivateComplete
