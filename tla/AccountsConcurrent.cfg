SPECIFICATION Spec
CONSTANTS
  u1 = u1
  u2 = u2
  buy = buy
  renew = renew
  gift = gift
  refund = refund
  cancel = cancel
  anonymous = anonymous
  sandbox = sandbox
  userless = userless
  None = None
  Garbled = Garbled
  UserId = {u1, u2}
  Event = {buy, renew, refund, gift, userless, cancel, anonymous, sandbox}
  EventUser <- MCEventUser
  EventKind <- MCEventKind
  Expiration <- MCExpiration
  Identified <- MCIdentified
  Ignored <- MCIgnored
  Identity = {id1}
  Onboarding = {"preferences", "legal"}
  Handler = {x1, x2}
  ConsistentReads = FALSE
SYMMETRY Symmetry
CONSTRAINT Explored
VIEW WithoutAnswers
INVARIANTS
  TypeOK
  OnboardedIffBoth
  EntitlementHasSource
  IdentifiedAppliedOnce
PROPERTIES
  UndoneOnlyByStaleCopy
