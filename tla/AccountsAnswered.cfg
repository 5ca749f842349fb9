SPECIFICATION Spec
CONSTANTS
  u1 = u1
  u2 = u2
  buy = buy
  renew = renew
  gift = gift
  refund = refund
  cancel = cancel
  anonymous = anonymous
  sandbox = sandbox
  userless = userless
  None = None
  Garbled = Garbled
  UserId = {u1}
  Event = {buy, cancel}
  EventUser <- MCEventUser
  EventKind <- MCEventKind
  Expiration <- MCExpiration
  Identified <- MCIdentified
  Ignored <- MCIgnored
  Identity = {id1}
  Onboarding = {}
  Handler = {x1}
  ConsistentReads = TRUE
PROPERTIES
  AnsweredIsApplied
