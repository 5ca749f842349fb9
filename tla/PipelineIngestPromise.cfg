SPECIFICATION Spec
CONSTANTS
  a1 = a1
  a2 = a2
  None = None
  Article <- OneArticle
  Message = {m1}
  Ingester = {i1, i2}
  Worker = {w1}
  ManualJob <- NoManualJob
  MaxFaults = 1
  ConsistentReads = TRUE
INVARIANTS
  IngestedIsComplete
