SPECIFICATION Spec
CONSTANTS
  b1 = b1
  b2 = b2
  p1 = p1
  near = near
  far = far
  Browsers <- TwoBrowsers
  Pages <- NoPage
  URIs = {1, 2, 3}
  Hosts <- TwoHosts
  HostOf <- MCHostOf
  Derived <- MCDerived
  Env <- BlankEnv
  MaxCrashes = 0
INVARIANT RefreshMatchesLogin
CHECK_DEADLOCK FALSE
