CONSTANTS
  h1 = h1
  h2 = h2
  m1 = m1
  m2 = m2
  l1 = l1
  z1 = z1
  PriorityMax = 3
  Messages <- ThreeLevels
  Prio <- AnyPrio
  CountLimit = 2
  BypassCap = 23
SPECIFICATION Spec
INVARIANT PopNeverAborts
CHECK_DEADLOCK FALSE
