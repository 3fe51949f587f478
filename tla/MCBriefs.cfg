CONSTANTS
  s1 = s1
  s2 = s2
  k1 = k1
  d1 = d1
  d2 = d2
  Sessions <- TwoSessions
  Keys <- OneKey
  Docs <- TwoDocs
  WrongEdition <- OneWrong
  Answers <- TypicalAnswers
  MaxRetries = 1
  MaxRequests = 2
  MaxCrashes = 1
SPECIFICATION Spec
INVARIANTS
  BriefsHaveInvocations
  OneBriefPerKey
  OnlyVettedContent
  CitedIsFingerprinted
  ReviewIsCarried
  RetriesAreUsed
CHECK_DEADLOCK FALSE
