SPECIFICATION SSpec
CONSTANTS
  u1 = u1
  u2 = u2
  buy = buy
  renew = renew
  gift = gift
  refund = refund
  cancel = cancel
  anonymous = anonymous
  sandbox = sandbox
  userless = userless
  None = None
  Garbled = Garbled
  UserId = {u1}
  Event = {buy, renew, refund}
  EventUser <- MCEventUser
  EventKind <- MCEventKind
  Expiration <- MCExpiration
  Identified <- MCIdentified
  Ignored <- MCIgnored
  Identity = {id1}
  Onboarding = {}
  Handler = {x1, x2}
  ConsistentReads = FALSE
  AccessTTL = 1
  RefreshTTL = 2
  FreeItems = 1
  PremiumItems = 2
  BriefingSizes = {0, 2}
  MaxTime = 2
SYMMETRY Symmetry
VIEW SessionsWithoutAnswers
INVARIANTS
  SessionsEnd
  PremiumReadHasSource
  TierDropsOnlyByExpiry
