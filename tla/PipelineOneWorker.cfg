SPECIFICATION FairSpec
CONSTANTS
  a1 = a1
  a2 = a2
  None = None
  Article <- TwoArticles
  Message = {m1, m2}
  Ingester = {i1, i2}
  Worker = {w1}
  ManualJob <- NoManualJob
  MaxFaults = 3
  ConsistentReads = TRUE
PROPERTIES
  ImplementsLifecycle
  EveryJobSettles
  QueueDrains
