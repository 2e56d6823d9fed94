SPECIFICATION FairSpec
CONSTANTS
  c1 = c1
  c2 = c2
  Clients <- OneClient
  SendCap = 1
  BroadcastCap = 1
  MaxFrames = 4
CHECK_DEADLOCK FALSE
PROPERTY NoGoroutineLeak
PROPERTY ServesOrCuts
