\* A cycle that fails after it has learned, and two scores to learn.
SPECIFICATION Spec
CONSTANTS
  Procs = {p, s}
  Servers = {s}
  NoOne = NoOne
  Scores <- MCTwoScores
  LockTimeout = 1
  MaxAge = 2
  MaxAttempts = 2
  MaxFaults = 1
PROPERTY RecipesKeepBest
CHECK_DEADLOCK FALSE
