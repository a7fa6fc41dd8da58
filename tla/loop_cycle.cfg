\* Three tasks, and a budget that two attempts use up: it may end between two
\* episodes, within one, before the judge and before the evolution.
SPECIFICATION FairSpec
CONSTANTS
  t1 = t1
  t2 = t2
  t3 = t3
  c1 = c1
  Queue <- MCQueue
  Categories = {c1}
  Category <- MCCategory
  TestLess = {t2}
  Unchecked = {t3}
  Scores <- MCOneScore
  Params = {1}
  Budget = 2
  MaxTries <- MCTries
  MaxRepair = 1
  RegrowSteps = 1
  MaxSteps = 3
  MaxFaults = 1
INVARIANTS BudgetBound FairGap EpisodeSpends MirrorInStep ProgramHasEvidence
PROPERTY EveryTaskServed
CHECK_DEADLOCK FALSE
