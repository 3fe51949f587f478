CONSTANTS
  u1 = u1
  u2 = u2
  t1 = t1
  t2 = t2
  l1 = l1
  c1 = c1
  c2 = c2
  None = None
  Users <- TwoUsers
  Tokens <- TwoTokens
  Logins <- OneLogin
  Calls <- TwoCalls
  Ttl = 1
  LoginWindow = 1
  MaxTime = 1
SPECIFICATION Spec
SYMMETRY Symmetry
INVARIANTS
  DeadSessionsServeNothing
  HeldSessionsAreAudited
  ReplayNeverExchanges
  ShownUserHoldsCookie
CHECK_DEADLOCK FALSE
