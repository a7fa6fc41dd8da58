\* Two processes, one of them a server; one crash or failed cycle, so that one
\* process at least goes on firing.
SPECIFICATION FairSpec
CONSTANTS
  Procs = {p, s}
  Servers = {s}
  NoOne = NoOne
  Scores <- MCOneScore
  LockTimeout = 1
  MaxAge = 2
  MaxAttempts = 2
  MaxFaults = 1
INVARIANTS TypeOK  AttemptsExact LockReleased
PROPERTIES  DreamsWhenDue LockRecovered
CHECK_DEADLOCK FALSE
