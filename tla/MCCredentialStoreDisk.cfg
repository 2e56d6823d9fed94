SPECIFICATION Spec
CONSTANTS
  r1 = r1
  r2 = r2
  Requests <- TwoRequests
  Strings = {0, 1, 2}
  Env <- SomeEnv
  MaxCrashes = 0
SYMMETRY RequestSymmetry
INVARIANT PersistsToDisk
CHECK_DEADLOCK FALSE
