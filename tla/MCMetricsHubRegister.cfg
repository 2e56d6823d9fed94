SPECIFICATION FairSpec
CONSTANTS
  c1 = c1
  c2 = c2
  Clients <- TwoClients
  SendCap = 1
  BroadcastCap = 1
  MaxFrames = 2
CHECK_DEADLOCK FALSE
PROPERTY RegistrationCompletes
