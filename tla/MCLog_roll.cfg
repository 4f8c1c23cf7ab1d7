CONSTANTS
  t1 = t1
  t2 = t2
  Absent = Absent
  Threads <- TwoThreads
  RollNum = 3
  FileLimit = 4
  LineLen = 2
  MaxLines = 9
  MaxSessions = 3
  MaxFailures = 2
SPECIFICATION FairSpec
INVARIANTS SuffixKept SizeBounded
PROPERTY MutexReleased
CHECK_DEADLOCK FALSE
