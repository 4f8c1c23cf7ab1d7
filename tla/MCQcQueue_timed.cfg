CONSTANTS
  p1 = p1
  p2 = p2
  g1 = g1
  g2 = g2
  f1 = f1
  h1 = h1
  h2 = h2
  l1 = l1
  l2 = l2
  w1 = w1
  w2 = w2
  w3 = w3
  w4 = w4
  None = None
  PriorityMax = 2
  Putters <- TwoPutters
  Getters <- TwoGetters
  Forcers <- Nobody
  Messages <- ThreeMessages
  Prio <- MixedPrio
  Limit = 1
  Waiters <- ThreeWaiters
  Waits <- Timed
  SpuriousWakeups = FALSE
SPECIFICATION Spec
SYMMETRY Symmetry
INVARIANTS GettersWaitOnEmpty PuttersWaitOnFull ReferencesCounted SignalBacked NeverFails ExactlyOnce
