CONSTANTS
  p1 = p1
  c1 = c1
  c2 = c2
  m1 = m1
  m2 = m2
  q1 = q1
  q2 = q2
  q3 = q3
  None = None
  Names <- FourNames
  Queues <- ThreeQueues
  BucketCount = 3
  Producers <- TwoProducers
  Consumers <- TwoConsumers
  JavaClients <- OneJava
  Messages <- TwoMessages
  Empty <- OneEmpty
  Limit = 1
  Asked <- AskedName
  Waits <- OneWaitsForEver
  Deployments <- OneQueueOrNone
SPECIFICATION FairSpec
INVARIANTS AtMostOnce LossBounded StreamsInStep TableMatches DestroyedOnce
PROPERTIES TimedRequestAnswered WorkerEnds
CHECK_DEADLOCK FALSE
