CONSTANTS
  s1 = s1
  s2 = s2
  d1 = d1
  d2 = d2
  d3 = d3
  v1 = v1
  v2 = v2
  Sessions <- TwoSessions
  Docs <- OneDoc
  SeededDocs <- NoneSeeded
  Values <- TwoValues
  Value <- SecondDiffers
  MaxRequests = 2
  MaxFaults = 0
  MaxCrashes = 0
SPECIFICATION Spec
INVARIANTS
  ReadyIsSearchable
CHECK_DEADLOCK FALSE
