\* No fault at all: the first process ends between the two looks of the second.
SPECIFICATION Spec
CONSTANTS
  Procs = {p, s}
  Servers = {}
  NoOne = NoOne
  Scores <- MCOneScore
  LockTimeout = 8
  MaxAge = 2
  MaxAttempts = 2
  MaxFaults = 0
INVARIANT Exclusive
CHECK_DEADLOCK FALSE
