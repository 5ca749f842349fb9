SPECIFICATION Spec
CONSTANTS
  a1 = a1
  a2 = a2
  None = None
  Article <- TwoArticles
  Message = {m1, m2, m3}
  Ingester = {i1, i2}
  Worker = {w1, w2}
  ManualJob <- ReprocessA1
  MaxFaults = 2
  ConsistentReads = FALSE
SYMMETRY Symmetry
INVARIANTS
  TypeOK
  JobFollowsArticle
  OneJobPerArticle
  NoJobLost
  OrphanNeedsFault
  RetriesNeedDeliveries
PROPERTIES
  LostIncrementNeedsRedelivery
  PublishedLostOnlyToStaleRead
  WithdrawalNeedsRedelivery
