SPECIFICATION HostSpec
CONSTANTS
  run = run
  broadcaster = broadcaster
  Callers <- TwoCallers
  Peak = 1
  MaxTime = 3
  MaxResets = 1
  RingRetain = 3
  RingLen = 3
  RingValues = {1}
  RingQueries <- TwoQueries
  RingTime = 4
  RingRecords = 4
  RingBacks = 1
  WindowLen = 6
  WindowTime = 8
  WindowQueries <- AllQueries
SYMMETRY CallerSymmetry
INVARIANT TypeOK
INVARIANT CreditedOnce
INVARIANT RateHonest
INVARIANT RingKept
INVARIANT ReplyConserves
INVARIANT ReplyIsReference
INVARIANT ReplyBounded
PROPERTY ForgetsOld
CHECK_DEADLOCK FALSE
