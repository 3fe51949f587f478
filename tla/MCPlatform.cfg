CONSTANTS
  r1 = r1
  r2 = r2
  r3 = r3
  Requests <- ThreeRequests
  Limit = 1
  WindowSeconds = 2
  Slack = 1
  Horizon = 4
  j1 = j1
  j2 = j2
  j3 = j3
  w1 = w1
  w2 = w2
  Jobs <- ThreeJobs
  Smoke <- TwoSupported
  Workers <- TwoWorkers
  MaxFaults = 2
  StartSettings <- NearSettings
  MaxChars = 4
  Overlap = 1
  MaxPages = 2
  MaxLength = 6
  Passages = {1, 2, 3}
  Levels = {0, 1, 2}
  MaxEvidence = 2
  a1 = a1
  a2 = a2
  a3 = a3
  k1 = k1
  k2 = k2
  Accounts <- ThreeAccounts
  Claims <- TwoClaims
  Tenants <- TwoTenants
  TenantOf <- TwoOfNorth
  RolesOf <- OneOfEach
  Assigned <- OneAssigned
  MaxTasks = 2
  MaxMoves = 2
  PageSize = 1
SPECIFICATION PlatformSpec
INVARIANTS
  WindowLimit
  NoJobVanishes
  DeployedIsShared
  PassagesWhole
  OnePageIndexes
  RankedByMerit
  ViewsAgree
PROPERTIES
  JobsSettle
CHECK_DEADLOCK FALSE
