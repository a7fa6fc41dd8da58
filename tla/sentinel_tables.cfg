\* More sessions than any table has room for, and calls of three budgets: none, one
\* that is spent at once, and one that is spent by the second call.
SPECIFICATION Spec
CONSTANTS
  Engines = {e}
  Threads = {t}
  Sessions = {s1, s2, s3}
  Classes = {c1, c2}
  Clean = Clean
  Intra = 2
  Cross = 2
  Triggers = {0, 1, 2}
  MaxTrigger = 2
  MaxNotes = 0
  MaxTracked = 1
  MaxSessionsPerSig = 2
  MaxNotifiedPerSig = 3
  MaxSessionsTracked = 2
SYMMETRY MCSymmetry
INVARIANTS NotedOnce NudgedOnce
CHECK_DEADLOCK FALSE
