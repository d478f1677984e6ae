SPECIFICATION FairSpec
CONSTANTS
  t1 = t1
  t2 = t2
  t3 = t3
  NoThread = NoThread
  Threads <- TwoThreads
  Rows <- PathRows
  Moves <- PathMoves
  RowMove <- PathRowMove
  Pos <- PathPos
  RowOf <- PathRowOf
  StripeOf <- PathStripeOf
  OctetOf <- PathOctetOf
  Image <- PathImage
  Solved = 0
  Dist <- PathDist
  BASE = 4
INVARIANTS
  EntriesEncodeDistance
  HeuristicAdmissible
PROPERTIES
  LayersRefined
  Generated
