SPECIFICATION LineSpec
CONSTANTS
  Pos <- MCPos
  Solved <- Identity
  Product <- MCProduct
  Turns <- MCTurns
  Move <- MCMove
  Premove <- MCPremove
  Prune <- MCPrune
  Dist <- MCDist
  BASE = 2
  LEAD = 2
  Limits = {3, 5, 20}
  Striped = TRUE
  Lines <- MCLines
  Invert <- MCInverse
  Styles = {"singmaster", "fixed"}
  Stray <- NoStray
INVARIANTS
  TypeOK
  Optimal
  PrintedSolves
  PrintedInOrder
