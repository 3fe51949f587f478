CONSTANTS
  k1 = k1
  k2 = k2
  k3 = k3
  s1 = s1
  s2 = s2
  d1 = d1
  d2 = d2
  Sessions <- TwoSessions
  Keys <- TwoKeys
  Docs <- NoDocs
  Findings <- CleanOrConflict
  ReviewActions <- TwoActions
  OtherTaskOpen <- MaybeOtherTask
  MaxRetries = 1
  MaxNodeFailures = 1
  MaxCrashes = 0
SPECIFICATION FairSpec
PROPERTIES
  ProcessingSettles
  WaitingGetsTask
CHECK_DEADLOCK FALSE
