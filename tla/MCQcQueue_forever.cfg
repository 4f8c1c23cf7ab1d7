CONSTANTS
  p1 = p1
  p2 = p2
  g1 = g1
  g2 = g2
  f1 = f1
  h1 = h1
  h2 = h2
  l1 = l1
  l2 = l2
  w1 = w1
  w2 = w2
  w3 = w3
  w4 = w4
  None = None
  PriorityMax = 2
  Putters <- TwoPutters
  Getters <- OneGetter
  Forcers <- OneForcer
  Messages <- ThreeMessages
  Prio <- MixedPrio
  Limit = 1
  Waiters <- TwoWaiters
  Waits <- Forever
  SpuriousWakeups = FALSE
SPECIFICATION FairSpec
INVARIANTS TypeOK LimitKept HandoffReachesGetter ExactlyOnce
PROPERTIES PutterAdmitted EventuallyDelivered
