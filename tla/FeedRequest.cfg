SPECIFICATION Spec
CONSTANTS
  Article <- MCArticle
  Legacy = {2, 4}
  Published <- MCPublished
  Title <- MCTitle
  Length <- MCLength
  Profile <- Nights
  Time = {7, 9}
  Requested = {2, None}
  DayLength = 4
  Offset = 1
  FreeLimit = 1
  PremiumLimit = 3
  DefaultLimit = 4
  None = None
INVARIANTS
  TypeOK
  WindowIsLatest
  TodayIsTheFeedNight
  EarliestAreKept
  PublishedStoryIsShown
  AnswerIsWithinTier
