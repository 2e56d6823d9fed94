SPECIFICATION Spec
CONSTANTS
  c1 = c1
  c2 = c2
  Clients <- TwoClients
  SendCap = 1
  BroadcastCap = 1
  MaxFrames = 3
SYMMETRY ClientSymmetry
CHECK_DEADLOCK FALSE
INVARIANT TypeOK
INVARIANT NoChannelPanic
INVARIANT NoSilentGap
INVARIANT ServedIffOpen
PROPERTY ImplementsFeed
