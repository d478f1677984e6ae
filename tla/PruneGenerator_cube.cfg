SPECIFICATION Spec
CONSTANTS
  t1 = t1
  t2 = t2
  t3 = t3
  NoThread = NoThread
  Threads <- ThreeThreads
  Rows <- CubeRows
  Moves <- CubeMoves
  RowMove <- CubeRowMove
  Pos <- CubePos
  RowOf <- CubeRowOf
  StripeOf <- CubeRowOf
  OctetOf <- CubeRowOf
  Image <- CubeImage
  Solved = 0
  Dist <- CubeDist
  BASE = 1
SYMMETRY ThreadSymmetry
INVARIANTS
  TypeOK
  RowExclusive
  AllPairsDone
  FoundCount
PROPERTIES
  WriteOnce
