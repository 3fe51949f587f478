CONSTANTS
  k1 = k1
  k2 = k2
  k3 = k3
  s1 = s1
  s2 = s2
  d1 = d1
  d2 = d2
  Sessions <- OneSession
  Keys <- ThreeKeys
  Docs <- TwoDocs
  Findings <- CleanOrConflict
  ReviewActions <- TwoActions
  OtherTaskOpen <- MaybeOtherTask
  MaxRetries = 2
  MaxNodeFailures = 2
  MaxCrashes = 0
SPECIFICATION Spec
SYMMETRY SymmetrySessions
INVARIANTS
  RestingConsistent
  HumanHold
CHECK_DEADLOCK FALSE
