CONSTANTS
  s1 = s1
  s2 = s2
  r1 = r1
  r2 = r2
  m1 = m1
  m2 = m2
  None = None
  Pushers <- TwoPushers
  Pullers <- TwoPullers
  Messages <- TwoMessages
  QueSize = 3
SPECIFICATION FairSpec
INVARIANTS SlotsPartition TokensMatch ListOperationsMatch
PROPERTIES ImplementsFifo EventuallyPulled
