SPECIFICATION Spec
CONSTANTS
  a1 = a1
  a2 = a2
  b1 = b1
  b2 = b2
  x1 = x1
  id1 = id1
  None = None
  Message = {a1, b1, b2}
  Kind <- MCKind
  Key = {id1}
  KeyOf <- MCKeyOf
  LocalConsumer = {c1}
  Once = {}
  Lambda = {l1, l2}
  BatchSize = 2
  MaxEmptyPolls = 2
  MaxAttempts = 2
  MaxFaults = 2
INVARIANTS
  NoJobLost
  AbandonedNeedsFault
PROPERTIES
  BriefingIsKept
CHECK_DEADLOCK FALSE
