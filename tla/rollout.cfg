SPECIFICATION FairSpec
CONSTANTS
  MaxNodes = 4
  Scores <- MCScores
  SeedScores <- MCSeedScores
  Sources = {p, q}
  None = None
  MinHorizon = 4
  MinValidity = 5
  Diversity = 4
  Efficiency = 2
  MaxRepair = 1
INVARIANTS
  OutcomesFromRevealed
  ReplaysAgree
PROPERTIES
  RevealsWhatItPays
  GenerationEnds
CHECK_DEADLOCK FALSE
