SPECIFICATION TraktSpec
CONSTANTS
  r1 = r1
  r2 = r2
  r3 = r3
  b1 = b1
  b2 = b2
  p1 = p1
  near = near
  far = far
  Browsers <- TwoBrowsers
  Pages <- OnePage
  URIs = {1, 2, 3}
  Hosts <- TwoHosts
  HostOf <- MCHostOf
  Derived <- MCDerived
  Env <- BlankEnv
  StoreRequests <- ThreeRequests
  StoreStrings = {0, 1, 2}
  StoreEnv <- IdEnv
  MaxCrashes = 1
SYMMETRY StoreSymmetry
INVARIANT TraktTypeOK
INVARIANT DurableWhenSerial
INVARIANT RedirectKept
INVARIANT ExchangeMatchesLogin
PROPERTY SecretKept
CHECK_DEADLOCK FALSE
