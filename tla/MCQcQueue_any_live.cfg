CONSTANTS
  p1 = p1
  p2 = p2
  g1 = g1
  g2 = g2
  f1 = f1
  h1 = h1
  h2 = h2
  l1 = l1
  l2 = l2
  w1 = w1
  w2 = w2
  w3 = w3
  w4 = w4
  None = None
  PriorityMax = 2
  Putters <- OnePutter
  Getters <- OneGetter
  Forcers <- Nobody
  Messages <- TwoMessages
  Prio <- MixedPrio
  Limit = 1
  Waiters <- TwoWaiters
  Waits <- AnyWait
  SpuriousWakeups = TRUE
SPECIFICATION FairSpec
PROPERTIES QuelockReleased WaitersReturn
CHECK_DEADLOCK FALSE
