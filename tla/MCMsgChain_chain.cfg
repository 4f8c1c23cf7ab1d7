CONSTANTS
  h1 = h1
  h2 = h2
  m1 = m1
  m2 = m2
  l1 = l1
  z1 = z1
  PriorityMax = 3
  Messages <- AnyLevel
  Prio <- AnyPrio
  CountLimit = 3
  BypassCap = 23
SPECIFICATION FairSpec
INVARIANTS SearchMatchesLoop ChainCoherent BypassBounded LinkedListMatches
PROPERTY EventuallyServed
CHECK_DEADLOCK FALSE
