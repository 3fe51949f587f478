CONSTANTS
  s1 = s1
  s2 = s2
  d1 = d1
  d2 = d2
  d3 = d3
  v1 = v1
  v2 = v2
  Sessions <- TwoSessions
  Docs <- ThreeDocs
  SeededDocs <- OneSeeded
  Values <- TwoValues
  Value <- SecondDiffers
  MaxRequests = 3
  MaxFaults = 1
  MaxCrashes = 1
SPECIFICATION FairSpec
INVARIANTS
  TypeOK
  OriginalKept
  ConflictsJustified
  ConflictsComplete
  EvidenceMeansReady
PROPERTIES
  ReadyIsStable
  ProcessingSettles
CHECK_DEADLOCK FALSE
