SPECIFICATION Spec
CONSTANTS
  Lines <- MCLines
  Searched <- Walked
  Variants <- MCVariants
  Turns <- MCTurns
  Queued <- MCQueued
  MaxSteps = 2
INVARIANTS
  CoordinatesInvert
  IndexFits
  ReidReadsBack
  SpeffzSolves
  ViewsAgree
  FollowsThePuzzle
  EntriesKept
  RepsMoveAlike
