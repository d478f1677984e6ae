SPECIFICATION GraphSpec
CONSTANTS
  N_CORIENT = 27
  N_C4COMB = 6
  N_SYM = 4
  ConjOrient <- MCConjOrient
  ConjComb <- MCConjComb
  Garbage = {0, 5}
  Turns <- MCTurns
  MoveOrient <- MCMoveOrient
  MoveComb <- MCMoveComb
  Edges = {0, 1, 2, 3, 4, 5}
  MoveEdge <- MCMoveEdge
  ConjEdge <- MCConjEdge
  SolvedEdge = 0
  Dist <- MCDist
  DEPTHS = 7
INVARIANTS
  TypeOK
  IndexConsistent
  ReductionExact
PROPERTIES
  OrbitsNumbered
