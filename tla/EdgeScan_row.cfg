SPECIFICATION Spec
CONSTANTS
  N_EUD4COMB = 2
  N_E4PERM = 2
  N_EO = 2
  BASE = 2
  Moves <- MCMoves
  Image <- MCImage
  Dist <- MCDist
INVARIANTS
  TypeOK
  ScanFaithful
  EntriesEncodeDistance
  ValuesEncodeDistance
