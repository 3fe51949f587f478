CONSTANTS
  k1 = k1
  k2 = k2
  k3 = k3
  s1 = s1
  s2 = s2
  d1 = d1
  d2 = d2
  Sessions <- OneSession
  Keys <- ThreeKeys
  Docs <- OneDoc
  Findings <- Clean
  ReviewActions <- TwoActions
  OtherTaskOpen <- NoOtherTask
  MaxRetries = 2
  MaxNodeFailures = 0
  MaxCrashes = 1
SPECIFICATION Spec
SYMMETRY SymmetrySessions
INVARIANTS
  WaitingRunHasTask
CHECK_DEADLOCK FALSE
