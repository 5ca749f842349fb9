SPECIFICATION FairSpec
CONSTANTS
  a1 = a1
  a2 = a2
  b1 = b1
  b2 = b2
  x1 = x1
  id1 = id1
  None = None
  Message = {a1, b1, x1}
  Kind <- MCKind
  Key = {id1}
  KeyOf <- MCKeyOf
  LocalConsumer = {c1, c2}
  Once = {c2}
  Lambda = {}
  BatchSize = 2
  MaxEmptyPolls = 2
  MaxAttempts = 2
  MaxFaults = 2
INVARIANTS
  TypeOK
  NoJobLost
  AbandonedNeedsFault
PROPERTIES
  OnceEndsWhenQuiet
  EveryMessageLeaves
CHECK_DEADLOCK FALSE
