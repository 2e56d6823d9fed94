SPECIFICATION Spec
CONSTANTS
  r1 = r1
  r2 = r2
  r3 = r3
  u1 = u1
  u2 = u2
  Requests <- ThreeRequests
  Users <- TwoUsers
  Life = 1
  Margin = 1
  MaxTime = 2
  MaxGens = 3
  MaxCrashes = 1
SYMMETRY Symmetric
INVARIANT TypeOK
INVARIANT Durable
INVARIANT UserMatchesGrant
INVARIANT ReplayHasCause
INVARIANT MeFindsTokens
INVARIANT NobodyStuck
PROPERTY SessionSound
CHECK_DEADLOCK FALSE
